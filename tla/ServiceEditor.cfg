SPECIFICATION Spec
CONSTANTS
    Names = {1, 2, 3, 9}
    BadNames = {9}
    DiskServices <- MCDiskServices
    DiskRules <- MCDiskRules
    Entered <- MCEntered
    EnteredICMP <- MCEnteredICMP
    EnteredOther = {41, 0}
    Leftover <- MCLeftover
    MaxRanges = 3
    MaxOps = 3
INVARIANTS
    SavedIsRead
    CheckedRangesLoad
    RulesNameServices
PROPERTIES
    OneRangeWithoutPorts
CHECK_DEADLOCK FALSE
