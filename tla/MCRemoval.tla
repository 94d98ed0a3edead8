---------------------------- MODULE MCRemoval ----------------------------
(* Model values for Removal. *)
EXTENDS Removal

CONSTANTS i1, i2

MCItems == {i1, i2}
==========================================================================
