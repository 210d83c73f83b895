---------------------------- MODULE MCReloadObjects ----------------------------
(* A small backend: one object of each kind, with room for a second host. *)
EXTENDS ReloadObjects

CONSTANTS s1, i1, z1, n1, h1, h2, g1, k1, k2

Good(k, r) == [there |-> TRUE, readable |-> TRUE, active |-> TRUE,
               key |-> k, refs |-> r, extra |-> 0]
Absent(k, r) == [Good(k, r) EXCEPT !.there = FALSE]

TreeZoneOf == [o \in {n1, h1, h2, g1} |-> z1]
TreeNetOf  == [o \in {h1, h2, g1} |-> n1]
TreeDisk ==
    [o \in {s1, i1, z1, n1, h1, h2, g1} |->
        IF o = n1 THEN Good(k1, {i1})
        ELSE IF o = g1 THEN Good(NoKey, {h1, h2})
        ELSE IF o = h2 THEN Absent(k1, {})
        ELSE IF o = z1 THEN Good(NoKey, {}) ELSE Good(k1, {})]
TreeCable == [i \in {i1} |-> k1]
=============================================================================
