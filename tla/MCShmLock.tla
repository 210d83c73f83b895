------------------------------ MODULE MCShmLock ------------------------------
EXTENDS ShmLock, TLC

Symmetric == Permutations(Procs) \cup Permutations(Values)
=============================================================================
