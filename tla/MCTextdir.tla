------------------------------ MODULE MCTextdir ------------------------------
(* A zone with a network, and a group in it. *)
EXTENDS Textdir

Tree == {ZoneFile("z"), NetFile("z", "n"), GroupFile("z", "n", "g")}
=============================================================================
