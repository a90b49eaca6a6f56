-------------------------- MODULE MCThreadRegistry --------------------------
(***************************************************************************)
(* TLC instances of ThreadRegistry.                                        *)
(***************************************************************************)
EXTENDS ThreadRegistry, TLC

CONSTANTS n1, n2, n3, n4, i1, i2, k1, k2

MCSymmetry == Permutations({n1, n2, n3, n4}) \cup Permutations({i1, i2})
              \cup Permutations({k1, k2})
=============================================================================
