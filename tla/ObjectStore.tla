----------------------------- MODULE ObjectStore -----------------------------
(***************************************************************************)
(* What the backend promises to the programs: a store of objects, each a   *)
(* list of values per variable, that a call changes in one step.  A call   *)
(* that is cut short has happened, has not, or has emptied its object.     *)
(***************************************************************************)
EXTENDS ObjectPaths

CONSTANT Values   \* "" among them

VARIABLE store    \* the settings of the objects that are there

Start(o) == [v \in Vars |-> IF v \in VarsOf(o) THEN <<"">> ELSE <<>>]
Nothing  == [v \in Vars |-> <<>>]

Add(o) ==
    /\ o \notin DOMAIN store
    /\ store' = [x \in DOMAIN store \cup {o} |-> IF x = o THEN Start(o) ELSE store[x]]

Del(o) ==
    /\ o \in DOMAIN store
    /\ \A x \in DOMAIN store : ~Above(o, x)
    /\ store' = [x \in DOMAIN store \ {o} |-> store[x]]

Tell(o, v, val, overwrite) ==
    /\ o \in DOMAIN store
    /\ store' = [store EXCEPT ![o][v] = IF overwrite THEN <<val>> ELSE Append(@, val)]

(* Everything below an object goes with it.  A file may take the place of  *)
(* another one, a directory may not.                                       *)
Rename(o, new) ==
    LET Old(x) == {y \in DOMAIN store : MovedPath(Place(o), Place(new), y) = x /\ y # new}
        kept   == DOMAIN store \ {new}
    IN  /\ o \in DOMAIN store /\ TypeOf(new) = TypeOf(o) /\ new # o
        /\ IsTree(o) => new \notin DOMAIN store
        /\ store' = [x \in {MovedPath(Place(o), Place(new), y) : y \in kept} |->
                        store[CHOOSE y \in Old(x) : TRUE]]

Lose(o) ==
    /\ o \in DOMAIN store
    /\ store' = [store EXCEPT ![o] = Nothing]

Next ==
    \E o \in Objects :
        \/ Add(o) \/ Del(o) \/ Lose(o)
        \/ \E v \in Vars, val \in Values, overwrite \in BOOLEAN : Tell(o, v, val, overwrite)
        \/ \E new \in Objects : Rename(o, new)

Spec == store = [x \in DOMAIN store |-> Start(x)] /\ [][Next]_store
=============================================================================
