------------------------------ MODULE MCMerge ------------------------------
(* Merge with a few children; the events of the loop are numbers. *)
EXTENDS Merge

MCChild2 == 1..2
MCEvent2 == -2..4
=============================================================================
