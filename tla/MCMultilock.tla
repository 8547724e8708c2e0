---------------------------- MODULE MCMultilock ----------------------------
(***************************************************************************)
(* Instances of Multilock for TLC.                                         *)
(***************************************************************************)
EXTENDS Multilock

CONSTANTS p1, p2, p3, c1, c2, c3, c4, c5

MCProcs == {p1, p2, p3}
MCChans == {c1, c2, c3, c4, c5}
=============================================================================
