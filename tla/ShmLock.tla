------------------------------- MODULE ShmLock -------------------------------
(***************************************************************************)
(* The lock around the shared memory table, one instruction at a time.     *)
(*                                                                         *)
(* LOCK and UNLOCK are LockSHM: a semop of -1 or +1 on a semaphore that    *)
(* starts at 1, repeated after EINTR, false after any other error.  The    *)
(* daemon that owns the semaphore removes it when it stops.  Inside, a     *)
(* process reads or writes the members of the table one by one; two        *)
(* members, reload_progress and reload_result, stand for all of them.      *)
(* ReloadIPC takes a critical section for one step; this module is why.    *)
(***************************************************************************)
EXTENDS Integers

CONSTANTS Procs,  \* the daemon and its clients
          Values  \* what they store

ASSUME ValuesAssumption == Values # {}

VARIABLES semaphore,        \* its value
          removed,          \* IPC_RMID was done
          place,            \* where a process is
          writes,           \* it is going to write, not to read
          value,            \* what it writes, or what it read first
          copy,             \* what it read second
          reload_progress,  \* the two members of the table
          reload_result

lockVars == <<semaphore, removed, place, writes, value, copy, reload_progress, reload_result>>

(* "stuck" died inside: nobody will do its UNLOCK. *)
Inside == {"first", "second", "leave", "stuck"}
Places == {"out", "dead"} \cup Inside

LockTypeOK ==
    /\ semaphore \in {0, 1}
    /\ removed \in BOOLEAN
    /\ place \in [Procs -> Places]
    /\ writes \in [Procs -> BOOLEAN]
    /\ value \in [Procs -> Values]
    /\ copy \in [Procs -> Values]
    /\ reload_progress \in Values
    /\ reload_result \in Values

LockInit ==
    /\ semaphore = 1
    /\ removed = FALSE
    /\ place = [p \in Procs |-> "out"]
    /\ writes \in [Procs -> BOOLEAN]
    /\ \E v \in Values :
        /\ value = [p \in Procs |-> v]
        /\ copy = [p \in Procs |-> v]
        /\ reload_progress = v
        /\ reload_result = v

Moves(p, l) == place' = [place EXCEPT ![p] = l]

(* semop(-1) blocks at 0.  An interrupted call is repeated, a stuttering step;
   after IPC_RMID it fails and the caller skips the section, another one. *)
Lock_NoWait(p) ==
    /\ place[p] = "out"
    /\ ~removed
    /\ semaphore' = 0
    /\ Moves(p, "first")
    /\ \E w \in BOOLEAN, v \in Values :
        /\ writes' = [writes EXCEPT ![p] = w]
        /\ value' = [value EXCEPT ![p] = v]
    /\ UNCHANGED <<removed, copy, reload_progress, reload_result>>

Lock(p) ==
    /\ place[p] = "out"
    /\ ~removed
    /\ semaphore > 0
    /\ semaphore' = semaphore - 1
    /\ Moves(p, "first")
    /\ \E w \in BOOLEAN, v \in Values :
        /\ writes' = [writes EXCEPT ![p] = w]
        /\ value' = [value EXCEPT ![p] = v]
    /\ UNCHANGED <<removed, copy, reload_progress, reload_result>>

First(p) ==
    /\ place[p] = "first"
    /\ Moves(p, "second")
    /\ IF writes[p] THEN reload_progress' = value[p] /\ UNCHANGED value
                    ELSE value' = [value EXCEPT ![p] = reload_progress] /\ UNCHANGED reload_progress
    /\ UNCHANGED <<semaphore, removed, writes, copy, reload_result>>

Second(p) ==
    /\ place[p] = "second"
    /\ Moves(p, "leave")
    /\ IF writes[p] THEN reload_result' = value[p] /\ UNCHANGED copy
                    ELSE copy' = [copy EXCEPT ![p] = reload_result] /\ UNCHANGED reload_result
    /\ UNCHANGED <<semaphore, removed, writes, value, reload_progress>>

(* semop(+1); on a removed semaphore it fails and nobody looks at that. *)
Unlock(p) ==
    /\ place[p] = "leave"
    /\ Moves(p, "out")
    /\ semaphore' = IF removed THEN semaphore ELSE semaphore + 1
    /\ UNCHANGED <<removed, writes, value, copy, reload_progress, reload_result>>

(* Killed: outside the lock, or inside, and the semaphore stays down. *)
Death(p) ==
    /\ place[p] \notin {"dead", "stuck"}
    /\ Moves(p, IF place[p] \in Inside THEN "stuck" ELSE "dead")
    /\ UNCHANGED <<semaphore, removed, writes, value, copy, reload_progress, reload_result>>

(* The daemon stops; a client may be inside at that moment. *)
Remove ==
    /\ ~removed
    /\ removed' = TRUE
    /\ UNCHANGED <<semaphore, place, writes, value, copy, reload_progress, reload_result>>

LockNext == Remove \/ \E p \in Procs : Lock(p) \/ First(p) \/ Second(p) \/ Unlock(p) \/ Death(p)

LockSpec == LockInit /\ [][LockNext]_lockVars

-----------------------------------------------------------------------------
(* At most one process is between LOCK and UNLOCK, dead ones and the time
   after the removal included. *)
MutualExclusion ==
    \A p, q \in Procs : place[p] \in Inside /\ place[q] \in Inside => p = q

(* A reader gets progress and result of the same publication: never 100% with
   the result of another moment. *)
NoTornRead ==
    \A p \in Procs : place[p] = "leave" /\ ~writes[p] => value[p] = copy[p]

-----------------------------------------------------------------------------
(* The inductive invariant.  The table is whole unless somebody is writing,
   or died while writing. *)
Whole == reload_progress = reload_result

HolderView ==
    \A p \in Procs :
        /\ place[p] = "first" => Whole
        /\ place[p] = "second" /\ writes[p] => reload_progress = value[p]
        /\ place[p] = "second" /\ ~writes[p] => Whole /\ value[p] = reload_progress
        /\ place[p] = "leave" => Whole

LockInv ==
    /\ LockTypeOK
    /\ MutualExclusion
    /\ semaphore = 1 => \A p \in Procs : place[p] \notin Inside
    /\ ~removed /\ semaphore = 0 => \E p \in Procs : place[p] \in Inside
    /\ (\A p \in Procs : place[p] \notin Inside) => Whole
    /\ HolderView
    /\ NoTornRead
=============================================================================
