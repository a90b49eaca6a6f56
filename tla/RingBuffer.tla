----------------------------- MODULE RingBuffer -----------------------------
(***************************************************************************)
(* The lock-free ring buffer of rust/crates/ringbuffer, written by signal  *)
(* handlers and drained by an ordinary thread.                             *)
(*                                                                         *)
(* One action per atomic access or per slot access, so every interleaving  *)
(* of producers and consumers is explored.  The Acquire load of the other  *)
(* side's index may return any value that side stored since the last one   *)
(* read (tailVis, headVis): that is what coherence and release/acquire     *)
(* allow, and it is weaker than reading the latest value.                  *)
(***************************************************************************)
EXTENDS Integers, Sequences, FiniteSets

CONSTANTS
    N,          \* const generic: number of slots
    UsizeMod,   \* 2^w of the w-bit usize
    Producers,  \* signal handlers that may ask for a Producer
    Consumers,  \* threads that may ask for a Consumer
    Values,     \* T
    Records,    \* the slices callers push
    OutLens     \* lengths of the out slices callers pass to pop_slice

\* `const { assert!(N.is_power_of_two()) }`; usize holds more than N.
ASSUME NAssumption == N \in Nat \ {0} /\ \E k \in 0 .. N : 2 ^ k = N
ASSUME UsizeAssumption == /\ UsizeMod \in Nat /\ UsizeMod > N
                          /\ UsizeMod % N = 0
ASSUME RecordsAssumption == Records \subseteq Seq(Values)
ASSUME OutLensAssumption == OutLens \subseteq Nat

VARIABLES
    slots, head, tail, producer_locked, consumer_locked,  \* RingBuffer
    tailVis,    \* stores to tail the producer side may still load
    headVis,    \* stores to head the consumer side may still load
    ppc, phead, ptail, pvals, pi,                         \* Producer
    cpc, chead, ctail, cap, clen, ci, cout,               \* Consumer
    popped      \* the last record a pop_slice returned

bufVars == <<slots, head, tail, producer_locked, consumer_locked, tailVis, headVis>>
prodVars == <<ppc, phead, ptail, pvals, pi>>
consVars == <<cpc, chead, ctail, cap, clen, ci, cout, popped>>
vars == <<bufVars, prodVars, consVars>>

Usize == 0 .. UsizeMod - 1
\* Wrong: the index is not wrapped.
plain_add(a, b) == a + b
wrapping_add(a, b) == (a + b) % UsizeMod
wrapping_sub(a, b) == (a - b) % UsizeMod
\* `index & (N - 1)`, which is the remainder because N is a power of two.
slot(index) == index % N

Len_(n) == [kind |-> "Len", len |-> n]
Value(v) == [kind |-> "Value", val |-> v]
Uninit == [kind |-> "Uninit"]
Slot == {Len_(n) : n \in 0 .. N} \cup {Value(v) : v \in Values} \cup {Uninit}

Init ==
    /\ slots = [s \in 0 .. N - 1 |-> Uninit]
    /\ head = 0 /\ tail = 0
    /\ producer_locked = FALSE /\ consumer_locked = FALSE
    /\ tailVis = {0} /\ headVis = {0}
    /\ ppc = [p \in Producers |-> "idle"]
    /\ phead = [p \in Producers |-> 0] /\ ptail = [p \in Producers |-> 0]
    /\ pvals = [p \in Producers |-> <<>>] /\ pi = [p \in Producers |-> 0]
    /\ cpc = [c \in Consumers |-> "idle"]
    /\ chead = [c \in Consumers |-> 0] /\ ctail = [c \in Consumers |-> 0]
    /\ cap = [c \in Consumers |-> 0] /\ clen = [c \in Consumers |-> 0]
    /\ ci = [c \in Consumers |-> 0] /\ cout = [c \in Consumers |-> <<>>]
    /\ popped = <<>>

-----------------------------------------------------------------------------
\* Acquire loads of the other side's index.  Once v is returned, no store
\* older than v can be returned again.

LoadTail(v) ==
    /\ v \in tailVis
    /\ tailVis' = {w \in tailVis : wrapping_sub(head, w) =< wrapping_sub(head, v)}

LoadHead(v) ==
    /\ v \in headVis
    /\ headVis' = {w \in headVis : wrapping_sub(w, tail) >= wrapping_sub(v, tail)}

-----------------------------------------------------------------------------
\* Producer

\* Wrong: the lock flag is stored without a test.
ProducerStoreLock(p) ==
    /\ ppc[p] = "idle"
    /\ producer_locked' = TRUE
    /\ ppc' = [ppc EXCEPT ![p] = "load_head"]
    /\ UNCHANGED <<slots, head, tail, consumer_locked, tailVis, headVis,
                   phead, ptail, pvals, pi, consVars>>

\* RingBuffer::producer: the compare_exchange that takes the lock.  When it
\* fails the caller gets None and nothing changes.
ProducerTryLock(p) ==
    /\ ppc[p] = "idle" /\ ~producer_locked
    /\ producer_locked' = TRUE
    /\ ppc' = [ppc EXCEPT ![p] = "load_head"]
    /\ UNCHANGED <<slots, head, tail, consumer_locked, tailVis, headVis,
                   phead, ptail, pvals, pi, consVars>>

\* Relaxed load: head is only stored under the producer lock, whose
\* Release/Acquire hand-over makes the latest store visible.
ProducerLoadHead(p) ==
    /\ ppc[p] = "load_head"
    /\ phead' = [phead EXCEPT ![p] = head]
    /\ ppc' = [ppc EXCEPT ![p] = "load_tail"]
    /\ UNCHANGED <<bufVars, ptail, pvals, pi, consVars>>

ProducerLoadTail(p) ==
    /\ ppc[p] = "load_tail"
    /\ \E t \in tailVis : LoadTail(t) /\ ptail' = [ptail EXCEPT ![p] = t]
    /\ ppc' = [ppc EXCEPT ![p] = "ready"]
    /\ UNCHANGED <<slots, head, tail, producer_locked, consumer_locked, headVis,
                   phead, pvals, pi, consVars>>

\* Wrong: no room for the length slot.
fits_values_only(h, t, len) == N - wrapping_sub(h, t) >= len

\* N - head.wrapping_sub(tail) > len, in unsigned arithmetic: the outer
\* subtraction must not go below zero (NoUnderflow).
fits(h, t, len) == N - wrapping_sub(h, t) > len

\* Wrong: a full buffer is overwritten.
PushSliceUnchecked(p, values) ==
    /\ ppc[p] = "ready"
    /\ pvals' = [pvals EXCEPT ![p] = values]
    /\ ppc' = [ppc EXCEPT ![p] = "write"]
    /\ UNCHANGED <<bufVars, phead, ptail, pi, consVars>>

PushSlice(p, values) ==
    /\ ppc[p] = "ready"
    /\ pvals' = [pvals EXCEPT ![p] = values]
    /\ ppc' = [ppc EXCEPT ![p] =
                 IF fits(phead[p], ptail[p], Len(values)) THEN "write" ELSE "reload"]
    /\ UNCHANGED <<bufVars, phead, ptail, pi, consVars>>

\* The second look at tail; Err(Full) gives control back to the caller.
ProducerReloadTail(p) ==
    /\ ppc[p] = "reload"
    /\ \E t \in tailVis :
         /\ LoadTail(t)
         /\ ptail' = [ptail EXCEPT ![p] = t]
         /\ ppc' = [ppc EXCEPT ![p] =
                      IF fits(phead[p], t, Len(pvals[p])) THEN "write" ELSE "ready"]
         /\ pvals' = [pvals EXCEPT ![p] =
                        IF fits(phead[p], t, Len(pvals[p])) THEN @ ELSE <<>>]
    /\ UNCHANGED <<slots, head, tail, producer_locked, consumer_locked, headVis,
                   phead, pi, consVars>>

\* The position the producer is about to write.
WriteIndex(p) == IF ppc[p] = "write" /\ pi[p] < Len(pvals[p])
                 THEN wrapping_add(wrapping_add(phead[p], 1), pi[p])
                 ELSE phead[p]

\* Wrong: every slot gets the first value.
WriteFirstValue(p) ==
    /\ ppc[p] = "write" /\ pi[p] < Len(pvals[p])
    /\ slots' = [slots EXCEPT ![slot(WriteIndex(p))] = Value(pvals[p][1])]
    /\ pi' = [pi EXCEPT ![p] = @ + 1]
    /\ UNCHANGED <<head, tail, producer_locked, consumer_locked, tailVis, headVis,
                   ppc, phead, ptail, pvals, consVars>>

WriteValue(p) ==
    /\ ppc[p] = "write" /\ pi[p] < Len(pvals[p])
    /\ slots' = [slots EXCEPT ![slot(WriteIndex(p))] = Value(pvals[p][pi[p] + 1])]
    /\ pi' = [pi EXCEPT ![p] = @ + 1]
    /\ UNCHANGED <<head, tail, producer_locked, consumer_locked, tailVis, headVis,
                   ppc, phead, ptail, pvals, consVars>>

\* Wrong: the record is finished before its values are written.
WriteLenFirst(p) ==
    /\ ppc[p] = "write"
    /\ slots' = [slots EXCEPT ![slot(phead[p])] = Len_(Len(pvals[p]))]
    /\ ppc' = [ppc EXCEPT ![p] = "publish"]
    /\ UNCHANGED <<head, tail, producer_locked, consumer_locked, tailVis, headVis,
                   phead, ptail, pvals, pi, consVars>>

WriteLen(p) ==
    /\ ppc[p] = "write" /\ pi[p] = Len(pvals[p])
    /\ slots' = [slots EXCEPT ![slot(phead[p])] = Len_(Len(pvals[p]))]
    /\ ppc' = [ppc EXCEPT ![p] = "publish"]
    /\ UNCHANGED <<head, tail, producer_locked, consumer_locked, tailVis, headVis,
                   phead, ptail, pvals, pi, consVars>>

\* The Release store of head.
Publish(p) ==
    /\ ppc[p] = "publish"
    /\ LET h == wrapping_add(wrapping_add(phead[p], 1), Len(pvals[p]))
       IN  /\ phead' = [phead EXCEPT ![p] = h]
           /\ head' = h
           /\ headVis' = headVis \cup {h}
    /\ ppc' = [ppc EXCEPT ![p] = "ready"]
    /\ pvals' = [pvals EXCEPT ![p] = <<>>] /\ pi' = [pi EXCEPT ![p] = 0]
    /\ UNCHANGED <<slots, tail, producer_locked, consumer_locked, tailVis,
                   ptail, consVars>>

\* impl Drop for Producer.
ProducerDrop(p) ==
    /\ ppc[p] = "ready"
    /\ producer_locked' = FALSE
    /\ ppc' = [ppc EXCEPT ![p] = "idle"]
    /\ phead' = [phead EXCEPT ![p] = 0] /\ ptail' = [ptail EXCEPT ![p] = 0]
    /\ UNCHANGED <<slots, head, tail, consumer_locked, tailVis, headVis,
                   pvals, pi, consVars>>

-----------------------------------------------------------------------------
\* Consumer

ConsumerTryLock(c) ==
    /\ cpc[c] = "idle" /\ ~consumer_locked
    /\ consumer_locked' = TRUE
    /\ cpc' = [cpc EXCEPT ![c] = "load_head"]
    /\ UNCHANGED <<slots, head, tail, producer_locked, tailVis, headVis, prodVars,
                   chead, ctail, cap, clen, ci, cout, popped>>

ConsumerLoadHead(c) ==
    /\ cpc[c] = "load_head"
    /\ \E h \in headVis : LoadHead(h) /\ chead' = [chead EXCEPT ![c] = h]
    /\ cpc' = [cpc EXCEPT ![c] = "load_tail"]
    /\ UNCHANGED <<slots, head, tail, producer_locked, consumer_locked, tailVis,
                   prodVars, ctail, cap, clen, ci, cout, popped>>

ConsumerLoadTail(c) ==
    /\ cpc[c] = "load_tail"
    /\ ctail' = [ctail EXCEPT ![c] = tail]
    /\ cpc' = [cpc EXCEPT ![c] = "ready"]
    /\ UNCHANGED <<bufVars, prodVars, chead, cap, clen, ci, cout, popped>>

PopSlice(c, outLen) ==
    /\ cpc[c] = "ready"
    /\ cap' = [cap EXCEPT ![c] = outLen]
    /\ cpc' = [cpc EXCEPT ![c] = IF ctail[c] = chead[c] THEN "reload" ELSE "read_len"]
    /\ UNCHANGED <<bufVars, prodVars, chead, ctail, clen, ci, cout, popped>>

\* The second look at head; Err(Empty) gives control back to the caller.
ConsumerReloadHead(c) ==
    /\ cpc[c] = "reload"
    /\ \E h \in headVis :
         /\ LoadHead(h)
         /\ chead' = [chead EXCEPT ![c] = h]
         /\ cpc' = [cpc EXCEPT ![c] = IF ctail[c] = h THEN "ready" ELSE "read_len"]
    /\ UNCHANGED <<slots, head, tail, producer_locked, consumer_locked, tailVis,
                   prodVars, ctail, cap, clen, ci, cout, popped>>

\* The position the consumer is about to read.
ReadIndex(c) == IF cpc[c] = "read_len"
                THEN ctail[c]
                ELSE wrapping_add(wrapping_add(ctail[c], 1), ci[c])

\* Err(TooSmall) gives control back and leaves the record; a slot that is not
\* a length ends in unreachable!().
ReadLen(c) ==
    /\ cpc[c] = "read_len"
    /\ LET s == slots[slot(ReadIndex(c))]
           fitsOut == s.kind = "Len" /\ s.len =< cap[c]
       IN  /\ cpc' = [cpc EXCEPT ![c] = IF s.kind # "Len" THEN "unreachable"
                                        ELSE IF fitsOut THEN "read" ELSE "ready"]
           /\ clen' = [clen EXCEPT ![c] = IF fitsOut THEN s.len ELSE @]
    /\ UNCHANGED <<bufVars, prodVars, chead, ctail, cap, ci, cout, popped>>

ReadValue(c) ==
    /\ cpc[c] = "read" /\ ci[c] < clen[c]
    /\ LET s == slots[slot(ReadIndex(c))]
           ok == s.kind = "Value"
       IN  /\ cpc' = [cpc EXCEPT ![c] = IF ok THEN @ ELSE "unreachable"]
           /\ cout' = [cout EXCEPT ![c] = IF ok THEN Append(@, s.val) ELSE @]
           /\ ci' = [ci EXCEPT ![c] = IF ok THEN @ + 1 ELSE @]
    /\ UNCHANGED <<bufVars, prodVars, chead, ctail, cap, clen, popped>>

\* The Release store of tail, and Ok(len).
FinishPop(c) ==
    /\ cpc[c] = "read" /\ ci[c] = clen[c]
    /\ LET t == wrapping_add(wrapping_add(ctail[c], 1), clen[c])
       IN  /\ ctail' = [ctail EXCEPT ![c] = t]
           /\ tail' = t
           /\ tailVis' = tailVis \cup {t}
    /\ popped' = cout[c]
    /\ cpc' = [cpc EXCEPT ![c] = "ready"]
    /\ clen' = [clen EXCEPT ![c] = 0] /\ ci' = [ci EXCEPT ![c] = 0]
    /\ cout' = [cout EXCEPT ![c] = <<>>]
    /\ UNCHANGED <<slots, head, producer_locked, consumer_locked, headVis, prodVars,
                   chead, cap>>

\* impl Drop for Consumer.
ConsumerDrop(c) ==
    /\ cpc[c] = "ready"
    /\ consumer_locked' = FALSE
    /\ cpc' = [cpc EXCEPT ![c] = "idle"]
    /\ chead' = [chead EXCEPT ![c] = 0] /\ ctail' = [ctail EXCEPT ![c] = 0]
    /\ cap' = [cap EXCEPT ![c] = 0]
    /\ UNCHANGED <<slots, head, tail, producer_locked, tailVis, headVis, prodVars,
                   clen, ci, cout, popped>>

-----------------------------------------------------------------------------
\* The store of head in Publish and the store of tail in FinishPop hand records
\* over; every other step is local to its side.
ProducerLocal(p) ==
    \/ ProducerTryLock(p)
    \/ ProducerLoadHead(p)
    \/ ProducerLoadTail(p)
    \/ \E values \in Records : PushSlice(p, values)
    \/ ProducerReloadTail(p)
    \/ WriteValue(p)
    \/ WriteLen(p)
    \/ ProducerDrop(p)

ConsumerLocal(c) ==
    \/ ConsumerTryLock(c)
    \/ ConsumerLoadHead(c)
    \/ ConsumerLoadTail(c)
    \/ \E outLen \in OutLens : PopSlice(c, outLen)
    \/ ConsumerReloadHead(c)
    \/ ReadLen(c)
    \/ ReadValue(c)
    \/ ConsumerDrop(c)

ProducerStep(p) == ProducerLocal(p) \/ Publish(p)
ConsumerStep(c) == ConsumerLocal(c) \/ FinishPop(c)

Next == \/ \E p \in Producers : ProducerStep(p)
        \/ \E c \in Consumers : ConsumerStep(c)

Spec == Init /\ [][Next]_vars

-----------------------------------------------------------------------------
\* Properties

ProducerPC == {"idle", "load_head", "load_tail", "ready", "reload", "write", "publish"}
ConsumerPC == {"idle", "load_head", "load_tail", "ready", "reload", "read_len", "read",
               "unreachable"}

\* Every variable has its type.
TypeOK ==
    /\ slots \in [0 .. N - 1 -> Slot]
    /\ head \in Usize /\ tail \in Usize
    /\ producer_locked \in BOOLEAN /\ consumer_locked \in BOOLEAN
    /\ tailVis \subseteq Usize /\ headVis \subseteq Usize
    /\ ppc \in [Producers -> ProducerPC]
    /\ phead \in [Producers -> Usize] /\ ptail \in [Producers -> Usize]
    /\ pvals \in [Producers -> Seq(Values)] /\ pi \in [Producers -> Nat]
    /\ cpc \in [Consumers -> ConsumerPC]
    /\ chead \in [Consumers -> Usize] /\ ctail \in [Consumers -> Usize]
    /\ cap \in [Consumers -> Nat] /\ clen \in [Consumers -> Nat]
    /\ ci \in [Consumers -> Nat]
    /\ cout \in [Consumers -> Seq(Values)] /\ popped \in Seq(Values)

Writing(p) == ppc[p] = "write"
Reading(c) == cpc[c] = "read_len" \/ (cpc[c] = "read" /\ ci[c] < clen[c])

\* No slot is written by one context while another writes or reads it (lib.rs
\* lines 105-113 against 144-160), although neither side takes the other's lock.
NoDataRace ==
    /\ \A p \in Producers, c \in Consumers :
         Writing(p) /\ Reading(c) => slot(WriteIndex(p)) # slot(ReadIndex(c))
    /\ \A p, q \in Producers : Writing(p) /\ Writing(q) => p = q

\* The release/acquire hand-over the SAFETY comments claim: a slot is written
\* only when the tail this producer acquired has freed it, and read only when
\* the head this consumer acquired has published it, however stale both are.
HandoverOrdered ==
    /\ \A p \in Producers :
         Writing(p) => wrapping_sub(WriteIndex(p), ptail[p]) < N
    /\ \A c \in Consumers :
         Reading(c) => wrapping_sub(ReadIndex(c), ctail[c])
                       < wrapping_sub(chead[c], ctail[c])

\* `N - head.wrapping_sub(tail)` in fits (line 119) never goes below zero, also
\* when the indices wrap or the acquired tail is out of date; if it did, a
\* release build would take the buffer for almost empty.
NoUnderflow ==
    \A p \in Producers :
        ppc[p] \in {"ready", "reload", "write", "publish"} =>
            wrapping_sub(phead[p], ptail[p]) =< N

\* A pop never meets a slot of the wrong kind or one never written: the two
\* unreachable!() arms and assume_init_read on an uninitialised slot
\* (lines 146-158) cannot happen.
NeverUnreachable == \A c \in Consumers : cpc[c] # "unreachable"

-----------------------------------------------------------------------------
\* The inductive invariant behind those properties.

\* A lock flag is set exactly while one context holds it.
LockInv ==
    /\ \A p \in Producers : ppc[p] # "idle" => producer_locked
    /\ \A p, q \in Producers : ppc[p] # "idle" /\ ppc[q] # "idle" => p = q
    /\ \A c \in Consumers : cpc[c] # "idle" => consumer_locked
    /\ \A c, d \in Consumers : cpc[c] # "idle" /\ cpc[d] # "idle" => c = d

\* Every index still loadable lies in the window of N positions.
WindowInv ==
    /\ tail \in tailVis /\ head \in headVis
    /\ wrapping_sub(head, tail) =< N
    /\ \A v \in tailVis : /\ wrapping_sub(head, tail) =< wrapping_sub(head, v)
                          /\ wrapping_sub(head, v) =< N
    /\ \A v \in headVis : wrapping_sub(v, tail) =< wrapping_sub(head, tail)

\* What the active producer knows.
ProducerInv ==
    \A p \in Producers :
        /\ ppc[p] \notin {"idle", "load_head"} => phead[p] = head
        /\ ppc[p] \in {"ready", "reload", "write", "publish"} =>
             /\ wrapping_sub(head, ptail[p]) =< N
             /\ \A v \in tailVis : wrapping_sub(head, v) =< wrapping_sub(head, ptail[p])
        /\ ppc[p] \in {"write", "publish"} =>
             /\ fits(head, ptail[p], Len(pvals[p]))
             /\ pi[p] =< Len(pvals[p])
             /\ \A k \in 1 .. pi[p] : slots[slot(wrapping_add(head, k))].kind = "Value"
        /\ ppc[p] \notin {"write", "publish"} => pi[p] = 0
        /\ ppc[p] = "publish" =>
             /\ pi[p] = Len(pvals[p])
             /\ slots[slot(head)] = Len_(Len(pvals[p]))

\* What the active consumer knows.
ConsumerInv ==
    \A c \in Consumers :
        /\ cpc[c] \notin {"idle", "load_head", "load_tail"} => ctail[c] = tail
        /\ cpc[c] \notin {"idle", "load_head"} =>
             /\ wrapping_sub(chead[c], tail) =< wrapping_sub(head, tail)
             /\ chead[c] = head \/ slots[slot(chead[c])].kind = "Len"
             /\ \A v \in headVis : wrapping_sub(chead[c], tail) =< wrapping_sub(v, tail)
        /\ cpc[c] \in {"read_len", "read"} => chead[c] # tail
        /\ cpc[c] = "read" => /\ slots[slot(tail)] = Len_(clen[c])
                              /\ ci[c] =< clen[c]
        /\ cpc[c] # "read" => ci[c] = 0

\* The published positions are a chain of records: each length slot is
\* followed by that many values, and then by head or the next length slot.
FramingInv ==
    /\ tail = head \/ slots[slot(tail)].kind = "Len"
    /\ \A v \in headVis : v = head \/ slots[slot(v)].kind = "Len"
    /\ \A i \in Usize :
         /\ wrapping_sub(i, tail) < wrapping_sub(head, tail)
         /\ slots[slot(i)].kind = "Len"
         => LET len == slots[slot(i)].len
                next == wrapping_add(i, len + 1)
            IN  /\ wrapping_sub(i, tail) + len + 1 =< wrapping_sub(head, tail)
                /\ \A k \in 1 .. len : slots[slot(wrapping_add(i, k))].kind = "Value"
                /\ next = head \/ slots[slot(next)].kind = "Len"

\* The locks, the window, the view of each side and the framing of the records
\* (lib.rs) as one inductive invariant; every property above follows from it.
IndInv == /\ TypeOK /\ LockInv /\ WindowInv /\ ProducerInv /\ ConsumerInv
          /\ FramingInv /\ NeverUnreachable
=============================================================================
