SPECIFICATION Spec
CONSTANTS
    DiskRules <- MCDiskRules
    NewRuleLog = TRUE
    MaxOps = 3
    MaxLen = 4
INVARIANTS
    SavedIsReadBack
    ReloadSeesEveryChange

    
CHECK_DEADLOCK FALSE
