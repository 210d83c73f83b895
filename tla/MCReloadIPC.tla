----------------------------- MODULE MCReloadIPC -----------------------------
(* ReloadIPC on small instances: who runs what, and which bounds. *)
EXTENDS ReloadIPC

CONSTANT c1

OneClient    == {c1}
Nobody       == {}
BothDaemons  == {Vuurmuur, Log}
=============================================================================
