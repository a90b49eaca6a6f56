---------------------------- MODULE MCRingBuffer ----------------------------
(***************************************************************************)
(* TLC instance of RingBufferQueue.                                        *)
(***************************************************************************)
EXTENDS RingBufferQueue, TLC

CONSTANTS a, b, p1, p2, c1, c2

MCValues == {a, b}
MCProducers == {p1, p2}
MCConsumers == {c1, c2}
MCRecords == {<<>>, <<a>>, <<a, b>>, <<b, a, b>>, <<a, b, a, b>>}
MCSymmetry == Permutations(MCProducers) \cup Permutations(MCConsumers)
=============================================================================
