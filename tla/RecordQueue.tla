---------------------------- MODULE RecordQueue ----------------------------
(***************************************************************************)
(* What the ring buffer promises: a bounded first-in first-out queue of    *)
(* whole records.  A record of n values takes n + 1 of the N places, and a *)
(* pop delivers exactly the oldest record pushed.                          *)
(***************************************************************************)
EXTENDS Integers, Sequences

CONSTANTS N, Records

VARIABLES
    queue,   \* published records, oldest first
    used,    \* places they take
    popped   \* the last record delivered

QueueInit == queue = <<>> /\ used = 0 /\ popped = <<>>

Push(r) == /\ used + Len(r) + 1 =< N
           /\ queue' = Append(queue, r)
           /\ used' = used + Len(r) + 1
           /\ UNCHANGED popped

Pop == /\ queue # <<>>
       /\ popped' = Head(queue)
       /\ queue' = Tail(queue)
       /\ used' = used - (Len(Head(queue)) + 1)

QueueNext == Pop \/ \E r \in Records : Push(r)

QueueSpec == QueueInit /\ [][QueueNext]_<<queue, used, popped>>
=============================================================================
