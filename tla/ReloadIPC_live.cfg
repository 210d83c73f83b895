CONSTANTS
    c1 = c1
    Clients <- OneClient
    Scripts <- Nobody
    Patient <- Nobody
    Killable <- Nobody
    Running <- BothDaemons
    Stoppable <- BothDaemons
    MaxEdits = 2
    MaxEvents = 0
SPECIFICATION FairSpec
PROPERTIES
    VuurmuurServes
    LogServes
    ApplyReturns
CHECK_DEADLOCK FALSE
