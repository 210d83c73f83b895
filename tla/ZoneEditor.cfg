CONSTANTS
  a = a
  b = b
  g = g
  n = n
  m = m
  z = z
  y = y
  i = i
  NoPart = NoPart
  Firewall = Firewall
  Broken = Broken
  HostParts = {a, b, g}
  NetParts = {n, m}
  ZoneParts = {z, y}
  Ifaces = {i}
  Disk <- TreeDisk
  DiskRules <- TreeRules
  DiskBlocked <- TreeBlocked
  MaxRef = 31
  MaxOps = 4
  MaxFailures = 1
SPECIFICATION Spec
INVARIANTS
  ReferencesCounted
  PointersLive
  RestartChangesNothing
PROPERTIES
  ReferencesFollow
