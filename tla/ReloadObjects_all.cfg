CONSTANTS
  s1 = s1
  i1 = i1
  z1 = z1
  n1 = n1
  h1 = h1
  h2 = h2
  g1 = g1
  k1 = k1
  k2 = k2
  NoKey = NoKey
  Services = {s1}
  Ifaces = {i1}
  Zones = {z1}
  Networks = {n1}
  Hosts = {h1, h2}
  Groups = {g1}
  Dynamic = {i1}
  ZoneOf <- TreeZoneOf
  NetOf <- TreeNetOf
  Keys = {k1, k2}
  Extras = {0}
  Disk <- TreeDisk
  Cable <- TreeCable
  MaxEdits = 3
SPECIFICATION Spec
INVARIANTS
  LoadsWhatIsThere
  StatusIsTrue
  DependentsNotice
  SecondReloadKeeps
  OnlyRemovedUnsettled
