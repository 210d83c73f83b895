SPECIFICATION Spec
CONSTANTS
    Devices <- MCDevices
    Configs <- MCConfigs
    MaxVersion = 2
    MaxCount = 1
INVARIANTS
    NeverRefused
    SuccessIsOneVersion
PROPERTIES
    UserChainsKept
    CountersKept
CHECK_DEADLOCK FALSE
