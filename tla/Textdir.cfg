CONSTANTS
  Zones = {"z"}
  Nets = {"n", "m"}
  Hosts = {"h"}
  Groups = {"g"}
  Flat = {}
  Values = {"", "a"}
  Progs = {"conf", "script"}
  Scripts = {"script"}
  Kinds = {"add", "del", "rename", "tell", "save", "load"}
  There <- Tree
  Careful = TRUE
  MaxCalls = 3
  MaxStops = 1
SPECIFICATION Spec
PROPERTIES
  IsAStore
CHECK_DEADLOCK FALSE
