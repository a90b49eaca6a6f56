------------------------------ MODULE MCFfikit ------------------------------
(***************************************************************************)
(* TLC instances of Ffikit.                                                *)
(***************************************************************************)
EXTENDS Ffikit, TLC

CONSTANTS t1, t2

MCSymmetry == Permutations({t1, t2})
=============================================================================
