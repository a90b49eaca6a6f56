-------------------------- MODULE MCSignalSession --------------------------
(***************************************************************************)
(* TLC instances of SignalSession.                                         *)
(***************************************************************************)
EXTENDS SignalSession, TLC

CONSTANTS t1, t2

MCSymmetry == Permutations(Threads)
=============================================================================
