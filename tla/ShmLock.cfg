CONSTANTS
    Procs = {daemon, tool, script}
    Values = {u, v}
SPECIFICATION LockSpec
SYMMETRY Symmetric
INVARIANTS
    NoTornRead
CHECK_DEADLOCK FALSE
