CONSTANTS
    c1 = c1
    Clients <- OneClient
    Scripts <- Nobody
    Patient <- OneClient
    Killable <- OneClient
    Running <- BothDaemons
    Stoppable <- BothDaemons
    MaxEdits = 2
    MaxEvents = 1
SPECIFICATION Spec
INVARIANTS
    NoLostRequest
    LogHearsHup
    SuccessMeansLoaded
CHECK_DEADLOCK FALSE
