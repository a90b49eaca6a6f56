-------------------------- MODULE RingBufferQueue --------------------------
(***************************************************************************)
(* RingBuffer with a history of what was pushed and not yet popped, and    *)
(* the refinement of RecordQueue.  The history follows the two stores that *)
(* hand records over, the Release stores of head and of tail in            *)
(* rust/crates/ringbuffer; it restrains no step of the buffer.             *)
(***************************************************************************)
EXTENDS RingBuffer

VARIABLES
    queue,    \* the slices pushed and not yet popped, oldest first
    starts    \* for each of them, the index at which it was written

QueuedInit == Init /\ queue = <<>> /\ starts = <<>>

QueuedNext ==
    \/ \E p \in Producers : /\ Publish(p)
                            /\ queue' = Append(queue, pvals[p])
                            /\ starts' = Append(starts, phead[p])
    \/ \E c \in Consumers : /\ FinishPop(c)
                            /\ queue' = Tail(queue)
                            /\ starts' = Tail(starts)
    \/ /\ \/ \E p \in Producers : ProducerLocal(p)
          \/ \E c \in Consumers : ConsumerLocal(c)
       /\ UNCHANGED <<queue, starts>>

QueuedSpec == QueuedInit /\ [][QueuedNext]_<<vars, queue, starts>>

Promise == INSTANCE RecordQueue WITH used <- wrapping_sub(head, tail)

\* The buffer implements a bounded FIFO of whole records: nothing lost,
\* duplicated, torn or reordered between push_slice and pop_slice, whatever
\* the interleaving, the wrap-around and the staleness of the loads.
ImplementsRecordQueue == Promise!QueueSpec

-----------------------------------------------------------------------------
\* What the slots and the two sides hold of the queue.

\* Places from tail to the k-th record, and the places it takes.
Offset(k) == wrapping_sub(starts[k], tail)
Weight(k) == Len(queue[k]) + 1

\* The records lie one after the other from tail to head.
ChainInv ==
    /\ queue \in Seq(Records) /\ starts \in Seq(Usize) /\ Len(starts) = Len(queue)
    /\ queue = <<>> => head = tail
    /\ queue # <<>> => /\ starts[1] = tail
                       /\ wrapping_add(starts[Len(queue)], Weight(Len(queue))) = head
    /\ \A k \in 1 .. Len(queue) - 1 : starts[k + 1] = wrapping_add(starts[k], Weight(k))
    /\ \A k \in 1 .. Len(queue) : Offset(k) + Weight(k) =< wrapping_sub(head, tail)
    /\ \A j, k \in 1 .. Len(queue) : j < k => Offset(j) + Weight(j) =< Offset(k)

\* Each is in its slots, the length first.
StoredInv ==
    \A k \in 1 .. Len(queue) :
        /\ slots[slot(starts[k])] = Len_(Len(queue[k]))
        /\ \A i \in 1 .. Len(queue[k]) :
             slots[slot(wrapping_add(starts[k], i))] = Value(queue[k][i])

\* What the producer has written so far is the slice it was given.
WriterInv ==
    \A p \in Producers :
        /\ ppc[p] \in {"reload", "write", "publish"} => pvals[p] \in Records
        /\ ppc[p] \in {"write", "publish"} =>
             \A i \in 1 .. pi[p] :
               slots[slot(wrapping_add(head, i))] = Value(pvals[p][i])

\* What the consumer has read so far is the oldest record.
ReaderInv ==
    \A c \in Consumers :
        /\ Len(cout[c]) = ci[c]
        /\ cpc[c] = "read" => /\ queue # <<>> /\ clen[c] = Len(queue[1])
                              /\ \A i \in 1 .. ci[c] : cout[c][i] = queue[1][i]

\* With IndInv, the invariant behind ImplementsRecordQueue (lib.rs).
QueueInv == ChainInv /\ StoredInv /\ WriterInv /\ ReaderInv
=============================================================================
