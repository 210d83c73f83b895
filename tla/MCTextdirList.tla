---------------------------- MODULE MCTextdirList ----------------------------
(* A zone with a network, a group in it, and the blocklist. *)
EXTENDS TextdirList

Ruleset == {<<"rules", "blocklist">>}
Tree == {ZoneFile("z"), NetFile("z", "n"), GroupFile("z", "n", "g")} \cup Ruleset
=============================================================================
