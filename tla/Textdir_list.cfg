CONSTANTS
  Zones = {"z"}
  Nets = {"n", "m"}
  Hosts = {"h"}
  Groups = {"g"}
  Flat <- Ruleset
  Values = {"", "a"}
  Progs = {"conf", "other"}
  Scripts = {}
  Kinds = {"add", "del", "rename", "save", "load"}
  There <- Tree
  Careful = FALSE
  MaxCalls = 3
  MaxStops = 0
SPECIFICATION ListSpec
INVARIANTS
  ListComplete
  LoopsHearTheirList
CHECK_DEADLOCK FALSE
