SPECIFICATION Spec
CONSTANTS
    Keys <- MCKeys
    Positive = {"1", "8", "10", "15", "20", "30", "45", "500"}
    Negative = {"-1"}
    Octal = {"7", "700", "750"}
    FullPath = {"/etc/vuurmuur/rules.conf", "/etc/vuurmuur/blocked.list", "/etc/vuuurmuur/blocked.list"}
    Beginnings <- MCBeginnings
    BadDirs = {"/bad"}
    BadLogs = {"/nologs"}
    Plugins = {"textdir", "other"}
    Inputs <- MCInputs
    ByHand <- MCByHand
    Levels = {"", "debug"}
    MaxChanges = 2
    MaxOps = 3
INVARIANTS
    CleanLoad
    SavedIsAccepted
    PluginsCounted
    ServesWithItsConf
CHECK_DEADLOCK FALSE
