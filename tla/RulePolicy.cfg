SPECIFICATION CreateSpec
CONSTANTS
    None = None
    Whole <- MCWhole
    Marks <- MCMarks
    Caps = {}
    CheckCaps = FALSE
    RuleNflog = FALSE
    Conf <- MCConf
    AnyHost <- MCAnyHost
    Broadcast <- MCBroadcast
    RuleLists <- MCRuleLists
    Interfaces <- MCInterfaces
    Networks <- MCNetworks
    LimitChoices <- MCLimitChoices
    Blocked <- MCBlocked
    Packets <- MCPackets
INVARIANTS
    PolicyExact
    FollowUp
    BlockedOut
    LogsWhatItDecides
    NatPaired
    ClassesSound
CHECK_DEADLOCK FALSE
