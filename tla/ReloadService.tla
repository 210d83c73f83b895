---------------------------- MODULE ReloadService ----------------------------
(***************************************************************************)
(* What a daemon promises to the tools, without the handshake: an edit     *)
(* somebody asks for is covered by a later reload, as long as the daemon   *)
(* is up.  Versions number the edits of the backend.                       *)
(***************************************************************************)
EXTENDS Integers

CONSTANT MaxEdits

VARIABLES asked,   \* the latest edit the daemon was asked to load
          covered, \* the version the latest reload started from
          up       \* the daemon is running

vars == <<asked, covered, up>>

Init == asked = 0 /\ covered = 0 /\ up \in BOOLEAN

Ask ==
    /\ asked' \in (asked + 1)..MaxEdits
    /\ UNCHANGED <<covered, up>>

(* A reload covers everything asked for so far, and perhaps more. *)
Serve ==
    /\ up
    /\ covered' \in covered..MaxEdits
    /\ covered' >= asked
    /\ UNCHANGED <<asked, up>>

GoAway == up /\ up' = FALSE /\ UNCHANGED <<asked, covered>>

Next == Ask \/ Serve \/ GoAway

(* A request is not left lying: the daemon serves while it is behind. *)
Spec == Init /\ [][Next]_vars /\ WF_vars(asked > covered /\ Serve)
=============================================================================
