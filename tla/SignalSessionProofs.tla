------------------------- MODULE SignalSessionProofs -------------------------
(***************************************************************************)
(* Proofs about SignalSession, for any number of threads, any capacity of  *)
(* the ring and any bound of the drain.                                    *)
(***************************************************************************)
EXTENDS SignalSession, FiniteSetTheorems, FunctionTheorems, TLAPS

\* The timer runs only while the session that installed the handler lives, and
\* the default action is in place only before the first session: neither a
\* pending SIGPROF nor a timer can exist then.
SafeSignal ==
    /\ timer => phase \in {"loop", "drain", "drop_timer"}
    /\ disp = "default" => phase \in {"off", "install"} /\ pending = {}
    /\ ~dead

\* SafeSignal holds at the start and no step of the kernel, of a handler, of
\* configure, of the sampler thread or of a report breaks it.
LEMMA SafeSignalInductive ==
    /\ Init => SafeSignal
    /\ SafeSignal /\ [Next]_vars => SafeSignal'
<1>1. Init => SafeSignal
  BY DEF Init, SafeSignal
<1>2. ASSUME SafeSignal, [Next]_vars PROVE SafeSignal'
  <2> USE SafeSignal DEF SafeSignal, procVars, handlerVars, samplerVars, reportVars, tickVars,
                         Goto
  <2>1. CASE ForeignHandler
    BY <2>1 DEF ForeignHandler
  <2>2. ASSUME NEW t \in Threads, Tick(t) PROVE SafeSignal'
    BY <2>2 DEF Tick
  <2>3. ASSUME NEW t \in Threads, Deliver(t) PROVE SafeSignal'
    BY <2>3 DEF Deliver
  <2>4. ASSUME NEW t \in Threads, Handler(t) PROVE SafeSignal'
    BY <2>4 DEF Handler, Unwind, GetProducer, Push
  <2>5. CASE Start
    <3>1. CASE StartDiscard
      BY <3>1 DEF StartDiscard
    <3>2. CASE Install
      BY <3>2 DEF Install
    <3>3. CASE DiscardCounts
      BY <3>3 DEF DiscardCounts
    <3>4. CASE StartTimer
      BY <3>4 DEF StartTimer
    <3>5. CASE AttachFails
      BY <3>5 DEF AttachFails
    <3> QED
      BY <2>5, <3>1, <3>2, <3>3, <3>4, <3>5 DEF Start
  <2>6. CASE Sampler
    <3>1. CASE LoopTest
      BY <3>1 DEF LoopTest
    <3>2. CASE Pop
      <4>1. UNCHANGED <<disp, timer, pending, dead, phase>>
        BY <3>2, Zenon DEF Pop
      <4> QED
        BY <4>1
    <3>3. CASE Record
      BY <3>3 DEF Record
    <3>4. CASE DropTimer
      BY <3>4 DEF DropTimer
    <3>5. CASE DropCheck
      BY <3>5 DEF DropCheck
    <3>6. CASE DropIgnore
      BY <3>6 DEF DropIgnore
    <3>7. CASE DropForget
      BY <3>7 DEF DropForget
    <3> QED
      BY <2>6, <3>1, <3>2, <3>3, <3>4, <3>5, <3>6, <3>7 DEF Sampler
  <2>7. CASE Shutdown
    BY <2>7 DEF Shutdown
  <2>8. CASE Report
    BY <2>8 DEF Report, TakeBuffer, Build, TakeCount
  <2>9. CASE UNCHANGED vars
    BY <2>9 DEF vars
  <2> QED
    BY <1>2, <2>1, <2>2, <2>3, <2>4, <2>5, <2>6, <2>7, <2>8, <2>9 DEF Next, Kernel
<1> QED
  BY <1>1, <1>2

\* No SIGPROF of this profiler ever meets the default action, whatever starts,
\* fails to start and stops, and whoever else installs a handler: the timer is
\* gone before the handler (impl Drop for SignalHandlerSession), and the drop
\* of the handler ignores the signal instead of restoring the action.
THEOREM SignalNeverFatal == Spec => []NoFatalSignal
<1>1. Init => SafeSignal
  BY SafeSignalInductive
<1>2. SafeSignal /\ [Next]_vars => SafeSignal'
  BY SafeSignalInductive
<1>3. SafeSignal => NoFatalSignal
  BY DEF SafeSignal, NoFatalSignal
<1> QED
  BY <1>1, <1>2, <1>3, PTL DEF Spec

-----------------------------------------------------------------------------
\* Counting the followed tick.

HeldIn(r) == {i \in DOMAIN r : r[i]}
InRing(r) == Cardinality(HeldIn(r))

\* A ring holds the tick a finite number of times; none, if no record is it.
LEMMA RingCount ==
    ASSUME NEW r \in Seq(BOOLEAN)
    PROVE  /\ IsFiniteSet(HeldIn(r)) /\ InRing(r) \in Nat
           /\ InRing(r) = 0 <=> \A i \in DOMAIN r : ~r[i]
<1>1. DOMAIN r = 1 .. Len(r) /\ Len(r) \in Nat
  OBVIOUS
<1>2. IsFiniteSet(HeldIn(r))
  <2>1. IsFiniteSet(1 .. Len(r))
    BY <1>1, FS_Interval
  <2>2. HeldIn(r) \in SUBSET (1 .. Len(r))
    BY <1>1 DEF HeldIn
  <2> QED
    BY <2>1, <2>2, FS_Subset
<1>3. InRing(r) \in Nat /\ (InRing(r) = 0 <=> HeldIn(r) = {})
  BY <1>2, FS_CardinalityType, FS_EmptySet DEF InRing
<1> QED
  BY <1>2, <1>3 DEF HeldIn

\* push_slice adds one record.
LEMMA RingAppend ==
    ASSUME NEW r \in Seq(BOOLEAN), NEW b \in BOOLEAN
    PROVE  InRing(Append(r, b)) = InRing(r) + One(b)
<1>1. /\ Len(r) \in Nat /\ DOMAIN r = 1 .. Len(r)
      /\ DOMAIN Append(r, b) = 1 .. Len(r) + 1
      /\ \A i \in 1 .. Len(r) : Append(r, b)[i] = r[i]
      /\ Append(r, b)[Len(r) + 1] = b
  OBVIOUS
<1>2. IsFiniteSet(HeldIn(r)) /\ InRing(r) \in Nat
  BY RingCount
<1>3. CASE b
  <2>1. HeldIn(Append(r, b)) = HeldIn(r) \cup {Len(r) + 1}
    BY <1>1, <1>3 DEF HeldIn
  <2>2. Len(r) + 1 \notin HeldIn(r)
    BY <1>1 DEF HeldIn
  <2> QED
    BY <1>2, <1>3, <2>1, <2>2, FS_AddElement DEF InRing, One
<1>4. CASE ~b
  <2>1. HeldIn(Append(r, b)) = HeldIn(r)
    BY <1>1, <1>4 DEF HeldIn
  <2> QED
    BY <1>2, <1>4, <2>1 DEF InRing, One
<1> QED
  BY <1>3, <1>4

\* pop_slice removes the first record.
LEMMA RingTail ==
    ASSUME NEW r \in Seq(BOOLEAN), r # <<>>
    PROVE  InRing(r) = One(Head(r)) + InRing(Tail(r))
<1>1. /\ Len(r) \in Nat \ {0} /\ DOMAIN r = 1 .. Len(r) /\ Head(r) = r[1]
      /\ Tail(r) \in Seq(BOOLEAN) /\ DOMAIN Tail(r) = 1 .. Len(r) - 1
      /\ \A i \in 1 .. Len(r) - 1 : Tail(r)[i] = r[i + 1]
      /\ \A i \in 1 .. Len(r) : r[i] \in BOOLEAN
  OBVIOUS
<1> DEFINE S == HeldIn(Tail(r))
           T == HeldIn(r) \ {1}
           f == [i \in S |-> i + 1]
<1>2. S \subseteq 1 .. Len(r) - 1 /\ \A i \in S : r[i + 1] /\ i + 1 \in 1 .. Len(r)
  BY <1>1 DEF HeldIn
<1>3. f \in Bijection(S, T)
  <2>1. f \in [S -> T]
    BY <1>1, <1>2 DEF HeldIn
  <2>2. \A i, j \in S : f[i] = f[j] => i = j
    BY <1>2
  <2>3. ASSUME NEW t \in T PROVE \E i \in S : f[i] = t
    <3>1. t \in 2 .. Len(r) /\ r[t]
      BY <1>1 DEF HeldIn
    <3>2. t - 1 \in S
      <4>1. t - 1 \in 1 .. Len(r) - 1 /\ (t - 1) + 1 = t
        BY <1>1, <3>1
      <4> QED
        BY <1>1, <3>1, <4>1 DEF HeldIn
    <3> QED
      BY <3>1, <3>2
  <2> QED
    BY <2>1, <2>2, <2>3, Fun_IsBij
<1>4. IsFiniteSet(S) /\ IsFiniteSet(HeldIn(r)) /\ InRing(r) \in Nat
  BY <1>1, RingCount
<1>5. Cardinality(T) = Cardinality(S)
  <2>1. ExistsBijection(S, T)
    BY <1>3 DEF ExistsBijection
  <2> QED
    BY <1>4, <2>1, FS_Bijection
<1>6. Cardinality(T) = IF 1 \in HeldIn(r) THEN InRing(r) - 1 ELSE InRing(r)
  BY <1>4, FS_RemoveElement DEF InRing
<1>7. 1 \in HeldIn(r) <=> Head(r)
  <2>1. 1 \in DOMAIN r /\ Head(r) = r[1]
    BY <1>1
  <2> QED
    BY <2>1, Zenon DEF HeldIn
<1>8. One(Head(r)) = IF 1 \in HeldIn(r) THEN 1 ELSE 0
  BY <1>7, Zenon DEF One
<1>9. InRing(Tail(r)) = Cardinality(S)
  BY DEF InRing
<1> HIDE DEF S, T
<1>10. One(Head(r)) \in Nat /\ Cardinality(S) \in Nat
  BY <1>4, <1>8, FS_CardinalityType
<1> QED
  BY <1>4, <1>5, <1>6, <1>8, <1>9, <1>10


\* 1 while a handler has the followed tick.
InHandler == One(followed # "none")

\* The number of places the followed tick is in.
Total == InHandler + InRing(ring) + One(inHand) + One(buffer)
           + Cardinality(counters) + One(report) + reported + One(discarded)

\* The followed tick is nowhere before it is followed and in one place from then
\* on; the places that a step overwrites are empty at that moment.
OnceInv ==
    /\ ring \in Seq(BOOLEAN) /\ counters \subseteq Reasons /\ reported \in Nat
    /\ Total = One(tracked)
    /\ rpc = "idle" => ~report
    /\ phase \in {"off", "install", "metrics", "timer"} => ~buffer


\* Each place counts at most once.
LEMMA OneNat == \A b : One(b) \in {0, 1}
  BY DEF One

\* At most four reasons, so the counters can be counted.
LEMMA CountersCount ==
    ASSUME NEW c, c \subseteq Reasons
    PROVE  /\ IsFiniteSet(c) /\ Cardinality(c) \in Nat
           /\ Cardinality(c) = 0 <=> c = {}
           /\ \A x \in Reasons :
                /\ Cardinality(c \cup {x}) = IF x \in c THEN Cardinality(c) ELSE Cardinality(c) + 1
                /\ Cardinality(c \ {x}) = IF x \in c THEN Cardinality(c) - 1 ELSE Cardinality(c)
<1>1. IsFiniteSet(Reasons)
  <2>1. IsFiniteSet({"unwind"}) /\ IsFiniteSet({"contentions"})
    BY FS_Singleton
  <2>2. IsFiniteSet({"buffer_dropped"}) /\ IsFiniteSet({"resolve_error"})
    BY FS_Singleton
  <2>3. /\ IsFiniteSet({"unwind"} \cup {"contentions"})
        /\ IsFiniteSet({"buffer_dropped"} \cup {"resolve_error"})
    BY <2>1, <2>2, FS_Union
  <2>4. IsFiniteSet(({"unwind"} \cup {"contentions"})
                      \cup ({"buffer_dropped"} \cup {"resolve_error"}))
    BY <2>3, FS_Union
  <2>5. Reasons \in SUBSET (({"unwind"} \cup {"contentions"})
                              \cup ({"buffer_dropped"} \cup {"resolve_error"}))
    BY DEF Reasons
  <2> QED
    BY <2>4, <2>5, FS_Subset
<1>2. IsFiniteSet(c)
  BY <1>1, FS_Subset
<1> QED
  BY <1>2, FS_CardinalityType, FS_EmptySet, FS_AddElement, FS_RemoveElement

\* An empty ring holds nothing.
LEMMA EmptyRing == <<>> \in Seq(BOOLEAN) /\ InRing(<<>>) = 0
<1>1. <<>> \in Seq(BOOLEAN) /\ DOMAIN <<>> = {}
  OBVIOUS
<1>2. \A i \in DOMAIN <<>> : ~(<<>>[i])
  BY <1>1, Zenon
<1>3. InRing(<<>>) = 0 <=> \A i \in DOMAIN <<>> : ~(<<>>[i])
  BY <1>1, RingCount, Zenon
<1> QED
  BY <1>1, <1>2, <1>3, Zenon

\* Nothing is followed at the start.
LEMMA InitOnce == Init => OnceInv
<1> SUFFICES ASSUME Init PROVE OnceInv
  OBVIOUS
<1>1. ring = <<>> /\ counters = {} /\ reported = 0 /\ followed = "none"
  BY DEF Init
<1>2. ~inHand /\ ~buffer /\ ~report /\ ~discarded /\ ~tracked
  BY DEF Init
<1>3. <<>> \in Seq(BOOLEAN) /\ InRing(<<>>) = 0
  BY EmptyRing
<1>4. Cardinality({}) = 0
  BY FS_EmptySet
<1> QED
  BY <1>1, <1>2, <1>3, <1>4 DEF OnceInv, Total, InHandler, One

\* What the places of OnceInv hold, as numbers.
LEMMA Places ==
    ASSUME OnceInv
    PROVE  /\ InHandler \in Nat /\ InRing(ring) \in Nat /\ One(inHand) \in Nat
           /\ One(buffer) \in Nat /\ Cardinality(counters) \in Nat /\ One(report) \in Nat
           /\ reported \in Nat /\ One(discarded) \in Nat
           /\ InHandler + InRing(ring) + One(inHand) + One(buffer) + Cardinality(counters)
                + One(report) + reported + One(discarded) = One(tracked)
           /\ One(tracked) = 0 \/ One(tracked) = 1
<1>1. ring \in Seq(BOOLEAN) /\ counters \subseteq Reasons /\ reported \in Nat
  BY DEF OnceInv
<1>2. InRing(ring) \in Nat
  BY <1>1, RingCount
<1>3. Cardinality(counters) \in Nat
  BY <1>1, CountersCount
<1>4. Total = One(tracked)
  BY DEF OnceInv
<1>5. /\ InHandler \in Nat /\ One(inHand) \in Nat /\ One(buffer) \in Nat
      /\ One(report) \in Nat /\ One(discarded) \in Nat
  BY OneNat DEF InHandler
<1>6. One(tracked) = 0 \/ One(tracked) = 1
  BY OneNat
<1> QED
  BY <1>1, <1>2, <1>3, <1>4, <1>5, <1>6 DEF Total

\* The followed tick is counted as a drop: it leaves the handler for a counter.
LEMMA CountDropOnce ==
    ASSUME OnceInv, NEW t \in Threads, NEW reason \in Reasons, CountDrop(t, reason),
           UNCHANGED <<ring, inHand, buffer, report, reported, discarded, tracked, rpc, phase>>
    PROVE  OnceInv'
<1>1. /\ counters' = IF followed = t THEN counters \cup {reason} ELSE counters
      /\ followed' = IF followed = t THEN "none" ELSE followed
  BY DEF CountDrop
<1>2. counters \subseteq Reasons /\ counters' \subseteq Reasons
  BY <1>1 DEF OnceInv
<1>3. Total' = Total
  <2>1. CASE followed = t
    <3>1. InHandler = 1 /\ InHandler' = 0
      BY <1>1, <2>1, ThreadsAssumption DEF One, InHandler
    <3>2. Cardinality(counters) = 0
      BY <3>1, Places
    <3>3. Cardinality(counters') = 1
      BY <1>1, <1>2, <2>1, <3>2, CountersCount
    <3> QED
      BY <3>1, <3>2, <3>3, Places DEF Total
  <2>2. CASE followed # t
    BY <1>1, <2>2 DEF Total, InHandler
  <2> QED
    BY <2>1, <2>2
<1> QED
  BY <1>2, <1>3 DEF OnceInv

\* Deliver starts to follow a tick only if none was followed before.
LEMMA DeliverOnce ==
    ASSUME OnceInv, NEW t \in Threads, Deliver(t)
    PROVE  OnceInv'
<1>1. /\ UNCHANGED <<ring, inHand, buffer, counters, report, reported, discarded, rpc, phase>>
      /\ \/ UNCHANGED <<tracked, followed>>
         \/ ~tracked /\ tracked' = TRUE /\ followed' = t
  BY DEF Deliver, samplerVars, reportVars, tickVars
<1>2. CASE UNCHANGED <<tracked, followed>>
  BY <1>1, <1>2 DEF OnceInv, Total, InHandler
<1>3. CASE ~tracked /\ tracked' = TRUE /\ followed' = t
  <2>1. One(tracked) = 0 /\ One(tracked') = 1 /\ InHandler' = 1
    BY <1>3, ThreadsAssumption DEF One, InHandler
  <2>2. Total' = 1
    BY <1>1, <2>1, Places DEF Total
  <2> QED
    BY <1>1, <2>1, <2>2 DEF OnceInv
<1> QED
  BY <1>1, <1>2, <1>3

\* push_slice moves the followed tick from its handler to the ring.
LEMMA PushOnce ==
    ASSUME OnceInv, NEW t \in Threads, Push(t)
    PROVE  OnceInv'
<1>1. UNCHANGED <<inHand, buffer, report, reported, discarded, tracked, rpc, phase>>
  BY DEF Push, samplerVars, reportVars
<1>2. CASE Len(ring) < RingCap
  <2>1. /\ ring' = Append(ring, followed = t) /\ UNCHANGED counters
        /\ followed' = IF followed = t THEN "none" ELSE followed
    BY <1>2 DEF Push
  <2>2. ring \in Seq(BOOLEAN) /\ (followed = t) \in BOOLEAN
    BY DEF OnceInv
  <2>3. InRing(ring') = InRing(ring) + One(followed = t)
    BY <2>1, <2>2, RingAppend
  <2>4. ring' \in Seq(BOOLEAN)
    BY <2>1, <2>2
  <2>5. InHandler = One(followed = t) + InHandler'
    BY <2>1, ThreadsAssumption DEF One, InHandler
  <2>6. One(followed = t) \in Nat /\ InHandler' \in Nat
    BY OneNat DEF InHandler
  <2>7. Total' = Total
    BY <1>1, <2>1, <2>3, <2>5, <2>6, Places DEF Total
  <2> QED
    BY <1>1, <2>1, <2>4, <2>7 DEF OnceInv
<1>3. CASE ~(Len(ring) < RingCap)
  <2>1. CountDrop(t, "buffer_dropped") /\ UNCHANGED ring
    BY <1>3 DEF Push
  <2> QED
    BY <1>1, <2>1, CountDropOnce DEF Reasons
<1> QED
  BY <1>2, <1>3

\* A handler follows the tick or counts it once.
LEMMA HandlerOnce ==
    ASSUME OnceInv, NEW t \in Threads, Handler(t)
    PROVE  OnceInv'
<1> USE DEF samplerVars, reportVars
<1>1. CASE Unwind(t)
  <2>1. UNCHANGED <<ring, inHand, buffer, report, reported, discarded, tracked, rpc, phase>>
    BY <1>1 DEF Unwind
  <2>2. CASE UNCHANGED <<counters, followed>>
    BY <2>1, <2>2 DEF OnceInv, Total, InHandler
  <2>3. CASE CountDrop(t, "unwind")
    BY <2>1, <2>3, CountDropOnce DEF Reasons
  <2> QED
    BY <1>1, <2>2, <2>3 DEF Unwind
<1>2. CASE GetProducer(t)
  <2>1. UNCHANGED <<ring, inHand, buffer, report, reported, discarded, tracked, rpc, phase>>
    BY <1>2 DEF GetProducer
  <2>2. CASE UNCHANGED <<counters, followed>>
    BY <2>1, <2>2 DEF OnceInv, Total, InHandler
  <2>3. CASE CountDrop(t, "contentions")
    BY <2>1, <2>3, CountDropOnce DEF Reasons
  <2> QED
    BY <1>2, <2>2, <2>3 DEF GetProducer
<1>3. CASE Push(t)
  BY <1>3, PushOnce
<1> QED
  BY <1>1, <1>2, <1>3 DEF Handler

\* A record of the ring goes to the traces or, when it cannot be resolved, to
\* a counter.
LEMMA PopOnce == ASSUME OnceInv, Pop PROVE OnceInv'
<1>1. ring # <<>> /\ ring' = Tail(ring)
  BY Zenon DEF Pop
<1>2. UNCHANGED <<followed, buffer, report, reported, discarded, tracked, rpc, phase>>
  BY Zenon DEF Pop, reportVars, tickVars
<1>3. ring \in Seq(BOOLEAN) /\ ring' \in Seq(BOOLEAN) /\ counters \subseteq Reasons
  BY <1>1 DEF OnceInv
<1>4. InRing(ring) = One(Head(ring)) + InRing(ring')
  BY <1>1, <1>3, RingTail
<1>5. One(Head(ring)) \in Nat /\ InRing(ring') \in Nat /\ InHandler' = InHandler
  BY <1>2, <1>3, OneNat, RingCount DEF InHandler
<1>6. CASE inHand' = (inHand \/ Head(ring)) /\ UNCHANGED counters
  <2>1. One(Head(ring)) = 0 \/ One(inHand) = 0
    BY <1>4, <1>5, OneNat, Places
  <2>2. \/ One(inHand') = 0 /\ One(inHand) = 0 /\ One(Head(ring)) = 0
        \/ One(inHand') = 1 /\ One(inHand) = 0 /\ One(Head(ring)) = 1
        \/ One(inHand') = 1 /\ One(inHand) = 1
    BY <1>6, Zenon DEF One
  <2>4. InRing(ring) + One(inHand) = InRing(ring') + One(inHand')
    BY <1>4, <1>5, <2>1, <2>2
  <2>5. One(inHand') \in Nat
    BY OneNat
  <2>6. UNCHANGED counters
    BY <1>6
  <2>3. Total' = Total
    BY <1>2, <1>5, <2>4, <2>5, <2>6, Places DEF Total
  <2> QED
    BY <1>2, <1>3, <1>6, <2>3 DEF OnceInv
<1>7. CASE /\ counters' = IF Head(ring) THEN counters \cup {"resolve_error"} ELSE counters
           /\ UNCHANGED inHand
  <2>1. counters' \subseteq Reasons
    BY <1>3, <1>7 DEF Reasons
  <2>2. Cardinality(counters') = Cardinality(counters) + One(Head(ring))
    <3>1. CASE Head(ring)
      <4>1. One(Head(ring)) = 1
        BY <3>1 DEF One
      <4>2. Cardinality(counters) = 0
        BY <1>4, <1>5, <4>1, Places
      <4>3. counters = {} /\ counters' = {"resolve_error"}
        BY <1>3, <1>7, <3>1, <4>2, CountersCount
      <4> QED
        BY <4>1, <4>2, <4>3, FS_Singleton
    <3>2. CASE ~Head(ring)
      <4>1. One(Head(ring)) = 0 /\ counters' = counters
        BY <1>7, <3>2 DEF One
      <4> QED
        BY <4>1, Places
    <3> QED
      BY <3>1, <3>2
  <2>4. InRing(ring) + Cardinality(counters) = InRing(ring') + Cardinality(counters')
    BY <1>4, <1>5, <2>2, Places
  <2>5. Cardinality(counters') \in Nat
    BY <2>1, CountersCount
  <2>6. UNCHANGED inHand
    BY <1>7
  <2>3. Total' = Total
    BY <1>2, <1>5, <2>4, <2>5, <2>6, Places DEF Total
  <2> QED
    BY <1>2, <1>3, <2>1, <2>3 DEF OnceInv
<1> QED
  BY <1>6, <1>7, Zenon DEF Pop

\* A step that leaves every place of the tick alone.
LEMMA StutterOnce ==
    ASSUME OnceInv,
           UNCHANGED <<ring, inHand, buffer, counters, report, reported, discarded, rpc,
                       followed, tracked>>,
           phase' \in {"off", "install", "metrics", "timer"} => ~buffer
    PROVE  OnceInv'
  BY DEF OnceInv, Total, InHandler

\* A start discards what the ring and the counters hold.
LEMMA StartOnce == ASSUME OnceInv, Start PROVE OnceInv'
<1> USE DEF Goto, handlerVars, reportVars, tickVars
<1>1. CASE StartDiscard
  <2>1. /\ ring' = <<>> /\ phase' = "install" /\ phase = "off"
        /\ UNCHANGED <<inHand, buffer, counters, report, reported, rpc, followed, tracked>>
    BY <1>1, Zenon DEF StartDiscard
  <2>2. discarded' = (discarded \/ \E i \in DOMAIN ring : ring[i])
    BY <1>1, Zenon DEF StartDiscard
  <2>3. ring \in Seq(BOOLEAN) /\ <<>> \in Seq(BOOLEAN)
    BY DEF OnceInv
  <2>4. InRing(<<>>) = 0
    BY EmptyRing
  <2>5. InRing(ring) = 0 <=> ~\E i \in DOMAIN ring : ring[i]
    BY <2>3, RingCount
  <2>6. One(discarded) = 0 \/ InRing(ring) = 0
    <3>1. One(discarded) = 0 \/ One(discarded) = 1
      BY OneNat
    <3>2. InRing(ring) \in Nat /\ One(discarded) + InRing(ring) < 2
      BY Places, SMT
    <3> QED
      BY <3>1, <3>2
  <2>7. \/ One(discarded') = 0 /\ One(discarded) = 0 /\ InRing(ring) = 0
        \/ One(discarded') = 1 /\ One(discarded) = 1
        \/ One(discarded') = 1 /\ One(discarded) = 0 /\ InRing(ring) # 0
    BY <2>2, <2>5, Zenon DEF One
  <2>8. One(discarded') \in Nat /\ One(discarded) + InRing(ring) = One(discarded')
    <3>1. InRing(ring) \in Nat /\ One(discarded) + InRing(ring) < 2
      BY Places, SMT
    <3> QED
      BY <2>6, <2>7, <3>1
  <2>9. Total' = Total
    BY <2>1, <2>4, <2>8, Places DEF Total, InHandler
  <2> QED
    BY <2>1, <2>3, <2>9 DEF OnceInv
<1>2. CASE Install
  BY <1>2, StutterOnce DEF Install, OnceInv
<1>3. CASE DiscardCounts
  <2>1. /\ counters' = {} /\ phase' = "timer" /\ phase = "metrics"
        /\ UNCHANGED <<ring, inHand, buffer, report, reported, rpc, followed, tracked>>
    BY <1>3, Zenon DEF DiscardCounts
  <2>2. discarded' = (discarded \/ counters # {})
    BY <1>3, Zenon DEF DiscardCounts
  <2>3. counters \subseteq Reasons /\ Cardinality({}) = 0
    BY FS_EmptySet DEF OnceInv
  <2>4. Cardinality(counters) = 0 <=> counters = {}
    BY <2>3, CountersCount
  <2>5. One(discarded) = 0 \/ Cardinality(counters) = 0
    <3>1. One(discarded) = 0 \/ One(discarded) = 1
      BY OneNat
    <3>2. Cardinality(counters) \in Nat /\ One(discarded) + Cardinality(counters) < 2
      BY Places, SMT
    <3> QED
      BY <3>1, <3>2
  <2>6. \/ One(discarded') = 0 /\ One(discarded) = 0 /\ Cardinality(counters) = 0
        \/ One(discarded') = 1 /\ One(discarded) = 1
        \/ One(discarded') = 1 /\ One(discarded) = 0 /\ Cardinality(counters) # 0
    BY <2>2, <2>4, Zenon DEF One
  <2>7. /\ One(discarded') \in Nat
        /\ One(discarded) + Cardinality(counters) = One(discarded')
    <3>1. Cardinality(counters) \in Nat /\ One(discarded) + Cardinality(counters) < 2
      BY Places, SMT
    <3> QED
      BY <2>5, <2>6, <3>1
  <2>8. Total' = Total
    BY <2>1, <2>3, <2>7, Places DEF Total, InHandler
  <2> QED
    BY <2>1, <2>8 DEF OnceInv
<1>4. CASE StartTimer
  <2>1. /\ phase = "timer" /\ phase' \in {"loop", "drop_handler"}
        /\ UNCHANGED <<ring, inHand, counters, report, reported, discarded, rpc, followed,
                       tracked>>
        /\ buffer' = FALSE \/ UNCHANGED buffer
    BY <1>4 DEF StartTimer
  <2>2. ~buffer
    BY <2>1 DEF OnceInv
  <2>3. One(buffer') = One(buffer)
    BY <2>1, <2>2 DEF One
  <2>4. Total' = Total
    BY <2>1, <2>3 DEF Total, InHandler
  <2> QED
    BY <2>1, <2>4 DEF OnceInv
<1>5. CASE AttachFails
  BY <1>5, StutterOnce DEF AttachFails
<1> QED
  BY <1>1, <1>2, <1>3, <1>4, <1>5 DEF Start

\* The traces of the drain go to the buffer, which a report may have emptied.
LEMMA RecordOnce == ASSUME OnceInv, Record PROVE OnceInv'
<1>1. /\ inHand' = FALSE /\ phase' = "loop"
      /\ UNCHANGED <<ring, counters, report, reported, discarded, rpc, followed, tracked>>
  BY Zenon DEF Record, Goto, reportVars, tickVars
<1>2. buffer' = (buffer \/ inHand)
  BY Zenon DEF Record
<1>3. One(buffer) = 0 \/ One(inHand) = 0
  BY Places, OneNat
<1>4. /\ One(inHand') = 0
      /\ \/ One(buffer') = 0 /\ One(buffer) = 0 /\ One(inHand) = 0
         \/ One(buffer') = 1 /\ One(buffer) = 1
         \/ One(buffer') = 1 /\ One(buffer) = 0 /\ One(inHand) = 1
  BY <1>1, <1>2, Zenon DEF One
<1>5. /\ One(buffer') \in Nat /\ One(inHand') = 0
      /\ One(buffer') = One(buffer) + One(inHand)
  BY <1>3, <1>4, OneNat
<1>6. Total' = Total
  <2>1. UNCHANGED <<ring, counters, report, reported, discarded, followed>>
    BY <1>1
  <2> QED
    BY <2>1, <1>5, Places DEF Total, InHandler
<1> QED
  BY <1>1, <1>6 DEF OnceInv

\* The end of a session discards what its buffer holds.
LEMMA ForgetOnce == ASSUME OnceInv, DropForget PROVE OnceInv'
<1>1. /\ buffer' = FALSE /\ phase' = "off"
      /\ UNCHANGED <<ring, inHand, counters, report, reported, rpc, followed, tracked>>
  BY Zenon DEF DropForget, Goto, reportVars, tickVars
<1>2. discarded' = (discarded \/ buffer)
  BY Zenon DEF DropForget
<1>3. One(buffer) = 0 \/ One(discarded) = 0
  BY Places, OneNat
<1>4. /\ One(buffer') = 0
      /\ \/ One(discarded') = 0 /\ One(discarded) = 0 /\ One(buffer) = 0
         \/ One(discarded') = 1 /\ One(discarded) = 1
         \/ One(discarded') = 1 /\ One(discarded) = 0 /\ One(buffer) = 1
  BY <1>1, <1>2, Zenon DEF One
<1>5. /\ One(discarded') \in Nat /\ One(buffer') = 0
      /\ One(discarded') = One(discarded) + One(buffer)
  BY <1>3, <1>4, OneNat
<1>6. Total' = Total
  <2>1. UNCHANGED <<ring, inHand, counters, report, reported, followed>>
    BY <1>1
  <2> QED
    BY <2>1, <1>5, Places DEF Total, InHandler
<1> QED
  BY <1>1, <1>6 DEF OnceInv

\* A report takes the buffer, then the counters, and builds the profile of both.
LEMMA ReportOnce == ASSUME OnceInv, Report PROVE OnceInv'
<1> USE DEF handlerVars, samplerVars, tickVars
<1>1. CASE TakeBuffer
  <2>1. /\ report' = buffer /\ buffer' = FALSE /\ rpc = "idle" /\ rpc' = "counts"
        /\ UNCHANGED <<ring, inHand, counters, reported, discarded, phase, followed, tracked>>
    BY <1>1, Zenon DEF TakeBuffer
  <2>2. ~report
    BY <2>1 DEF OnceInv
  <2>3. One(report) = 0 /\ One(report') = One(buffer) /\ One(buffer') = 0
    BY <2>1, <2>2, Zenon DEF One
  <2>4. Total' = Total
    BY <2>1, <2>3, Places DEF Total, InHandler
  <2> QED
    BY <2>1, <2>4 DEF OnceInv
<1>2. ASSUME NEW reason \in Reasons, TakeCount(reason) PROVE OnceInv'
  <2>1. /\ counters' = counters \ {reason} /\ rpc = "counts" /\ UNCHANGED rpc
        /\ UNCHANGED <<ring, inHand, buffer, reported, discarded, phase, followed, tracked>>
    BY <1>2, Zenon DEF TakeCount
  <2>2. report' = (report \/ reason \in counters)
    BY <1>2, Zenon DEF TakeCount
  <2>3. counters \subseteq Reasons /\ counters' \subseteq Reasons
    BY <2>1 DEF OnceInv
  <2>4. Cardinality(counters')
          = IF reason \in counters THEN Cardinality(counters) - 1 ELSE Cardinality(counters)
    BY <2>1, <2>3, CountersCount
  <2>5. Cardinality(counters) = 0 => reason \notin counters
    BY <2>3, CountersCount
  <2>6. One(report) = 0 \/ Cardinality(counters) = 0
    <3>1. One(report) = 0 \/ One(report) = 1
      BY OneNat
    <3>2. Cardinality(counters) \in Nat /\ One(report) + Cardinality(counters) < 2
      BY Places, SMT
    <3> QED
      BY <3>1, <3>2
  <2>7. \/ One(report') = 0 /\ One(report) = 0 /\ reason \notin counters
        \/ One(report') = 1 /\ One(report) = 1
        \/ One(report') = 1 /\ One(report) = 0 /\ reason \in counters
    BY <2>2, Zenon DEF One
  <2>8. /\ One(report') \in Nat /\ Cardinality(counters') \in Nat
        /\ One(report) + Cardinality(counters) = One(report') + Cardinality(counters')
    <3>1. One(report') \in Nat /\ Cardinality(counters') \in Nat
      BY <2>3, OneNat, CountersCount
    <3> QED
      BY <3>1, <2>4, <2>5, <2>6, <2>7, Places
  <2>9. Total' = Total
    BY <2>1, <2>8, Places DEF Total, InHandler
  <2> QED
    BY <2>1, <2>3, <2>9 DEF OnceInv
<1>3. CASE Build
  <2>1. /\ reported' = IF report THEN reported + 1 ELSE reported
        /\ report' = FALSE
        /\ UNCHANGED <<ring, inHand, buffer, counters, discarded, phase, followed, tracked>>
    BY <1>3, Zenon DEF Build
  <2>2. One(report') = 0 /\ reported \in Nat /\ reported' = reported + One(report)
    <3>1. CASE report
      BY <2>1, <3>1, Places DEF One
    <3>2. CASE ~report
      BY <2>1, <3>2, Places DEF One
    <3> QED
      BY <3>1, <3>2
  <2>3. reported' \in Nat
    BY <2>2, Places
  <2>4. Total' = Total
    <3>1. UNCHANGED <<ring, inHand, buffer, counters, discarded, followed>>
      BY <2>1
    <3> QED
      BY <3>1, <2>2, <2>3, Places DEF Total, InHandler
  <2> QED
    BY <2>1, <2>3, <2>4 DEF OnceInv
<1> QED
  BY <1>1, <1>2, <1>3 DEF Report

\* No step of the kernel, of a handler, of configure, of the sampler thread or
\* of a report puts the followed tick in two places or in none.
LEMMA OnceInductive == OnceInv /\ [Next]_vars => OnceInv'
<1> SUFFICES ASSUME OnceInv, [Next]_vars PROVE OnceInv'
  OBVIOUS
<1> USE DEF procVars, handlerVars, samplerVars, reportVars, tickVars, Goto
<1>1. CASE ForeignHandler
  BY <1>1, StutterOnce DEF ForeignHandler, OnceInv
<1>2. ASSUME NEW t \in Threads, Tick(t) PROVE OnceInv'
  BY <1>2, StutterOnce DEF Tick, OnceInv
<1>3. ASSUME NEW t \in Threads, Deliver(t) PROVE OnceInv'
  BY <1>3, DeliverOnce
<1>4. ASSUME NEW t \in Threads, Handler(t) PROVE OnceInv'
  BY <1>4, HandlerOnce
<1>5. CASE Start
  BY <1>5, StartOnce
<1>6. CASE Sampler
  <2>1. CASE LoopTest
    BY <2>1, StutterOnce DEF LoopTest
  <2>2. CASE Pop
    BY <2>2, PopOnce
  <2>3. CASE Record
    BY <2>3, RecordOnce
  <2>4. CASE DropTimer
    BY <2>4, StutterOnce DEF DropTimer
  <2>5. CASE DropCheck
    BY <2>5, StutterOnce DEF DropCheck
  <2>6. CASE DropIgnore
    BY <2>6, StutterOnce DEF DropIgnore
  <2>7. CASE DropForget
    BY <2>7, ForgetOnce
  <2> QED
    BY <1>6, <2>1, <2>2, <2>3, <2>4, <2>5, <2>6, <2>7 DEF Sampler
<1>7. CASE Shutdown
  BY <1>7, StutterOnce DEF Shutdown, OnceInv
<1>8. CASE Report
  BY <1>8, ReportOnce
<1>9. CASE UNCHANGED vars
  BY <1>9, StutterOnce DEF vars, OnceInv
<1> QED
  BY <1>1, <1>2, <1>3, <1>4, <1>5, <1>6, <1>7, <1>8, <1>9 DEF Next, Kernel

\* Every tick, whichever is followed, is accounted for exactly once: as a
\* sample, as one drop reason, or as one that the end of a session discarded,
\* for any number of threads, ring and drain, however the handler, the drain
\* (Signal::new) and take_drop_counts interleave.
THEOREM TicksAccounted == Spec => []TickAccountedOnce
<1>1. Init => OnceInv
  BY InitOnce
<1>2. OnceInv /\ [Next]_vars => OnceInv'
  BY OnceInductive
<1>3. OnceInv => TickAccountedOnce
  <2> SUFFICES ASSUME OnceInv, tracked PROVE TickAccountedOnce
    BY DEF TickAccountedOnce
  <2>1. One(tracked) = 1 /\ Total = 1
    BY DEF One, OnceInv
  <2> QED
    BY <2>1, Zenon DEF TickAccountedOnce, Total, InHandler, InRing, HeldIn
<1> QED
  BY <1>1, <1>2, <1>3, PTL DEF Spec

-----------------------------------------------------------------------------
(***************************************************************************)
(* Types                                                                   *)
(***************************************************************************)

\* push_slice and pop_slice keep a ring of records, within its capacity.
LEMMA RingTypes ==
    ASSUME TypeOK
    PROVE  /\ Len(ring) \in Nat
           /\ \A b \in BOOLEAN : Len(ring) < RingCap =>
                Append(ring, b) \in Seq(BOOLEAN) /\ Len(Append(ring, b)) =< RingCap
           /\ ring # <<>> =>
                /\ Tail(ring) \in Seq(BOOLEAN) /\ Len(Tail(ring)) =< RingCap
                /\ Head(ring) \in BOOLEAN
<1>1. ring \in Seq(BOOLEAN) /\ Len(ring) =< RingCap /\ RingCap \in Nat
  BY SizesAssumption DEF TypeOK
<1> QED
  BY <1>1

\* What a handler changes: its place, the producer, the ring and the counters.
LEMMA HandlerTypes == ASSUME TypeOK, NEW t \in Threads, Handler(t) PROVE TypeOK'
<1> USE DEF procVars, handlerVars, samplerVars, reportVars, tickVars, CountDrop
<1>1. CASE Unwind(t)
  BY <1>1 DEF TypeOK, Unwind, Reasons
<1>2. CASE GetProducer(t)
  BY <1>2 DEF TypeOK, GetProducer, Reasons
<1>3. CASE Push(t)
  <2>1. /\ \/ ring' = ring
           \/ Len(ring) < RingCap /\ ring' = Append(ring, followed = t)
        /\ producer' = "none"
        /\ counters' \subseteq counters \cup {"buffer_dropped"}
        /\ followed' \in {followed, "none"} /\ hpc' = [hpc EXCEPT ![t] = "idle"]
        /\ UNCHANGED <<procVars, samplerVars, reportVars, tracked, reported, discarded>>
    BY <1>3 DEF Push
  <2>2. (followed = t) \in BOOLEAN
    OBVIOUS
  <2>3. ring' \in Seq(BOOLEAN) /\ Len(ring') =< RingCap
    BY <2>1, <2>2, RingTypes DEF TypeOK
  <2> QED
    BY <2>1, <2>3 DEF TypeOK, Reasons
<1> QED
  BY <1>1, <1>2, <1>3 DEF Handler

\* The drain: one record fewer, and never more than MaxDrain in one turn.
LEMMA PopTypes == ASSUME TypeOK, Pop PROVE TypeOK'
<1> USE DEF procVars, handlerVars, samplerVars, reportVars, tickVars
<1>1. /\ ring # <<>> /\ ring' = Tail(ring) /\ drained < MaxDrain /\ drained' = drained + 1
      /\ UNCHANGED <<procVars, handlerVars, phase, running, buffer, reportVars, tickVars,
                     reported, discarded>>
  BY DEF Pop
<1>2. /\ inHand' = inHand \/ inHand' = (inHand \/ Head(ring))
      /\ counters' \subseteq counters \cup {"resolve_error"}
  <2>1. CASE inHand' = (inHand \/ Head(ring)) /\ UNCHANGED counters
    BY <2>1, Zenon
  <2>2. CASE /\ counters' = IF Head(ring) THEN counters \cup {"resolve_error"} ELSE counters
             /\ UNCHANGED inHand
    BY <2>2
  <2> QED
    BY <2>1, <2>2, Zenon DEF Pop
<1>3. ring' \in Seq(BOOLEAN) /\ Len(ring') =< RingCap /\ Head(ring) \in BOOLEAN
  BY <1>1, RingTypes
<1>4. inHand' \in BOOLEAN
  <2>1. inHand \in BOOLEAN
    BY DEF TypeOK
  <2>2. (inHand \/ Head(ring)) \in BOOLEAN
    BY Zenon
  <2> QED
    BY <1>2, <2>1, <2>2, Zenon
<1>5. drained' \in 0 .. MaxDrain
  BY <1>1, SizesAssumption DEF TypeOK
<1> QED
  BY <1>1, <1>2, <1>3, <1>4, <1>5 DEF TypeOK, Reasons

\* The steps of configure, and the flags they compute.
LEMMA StartTypes == ASSUME TypeOK, Start PROVE TypeOK'
<1> USE DEF procVars, handlerVars, samplerVars, reportVars, tickVars, Goto
<1>1. CASE StartDiscard
  <2>1. discarded' \in BOOLEAN
    <3>1. discarded' = (discarded \/ \E i \in DOMAIN ring : ring[i])
      BY <1>1 DEF StartDiscard
    <3>2. (discarded \/ \E i \in DOMAIN ring : ring[i]) \in BOOLEAN
      BY Zenon
    <3> QED
      BY <3>1, <3>2, Zenon
  <2>2. /\ ring' = <<>> /\ phase' = "install"
        /\ UNCHANGED <<procVars, handlerVars, running, drained, inHand, buffer, counters,
                       reportVars, tickVars, reported>>
    BY <1>1 DEF StartDiscard
  <2>3. ring' \in Seq(BOOLEAN) /\ Len(ring') =< RingCap
    BY <2>2, EmptyRing, SizesAssumption
  <2> QED
    BY <2>1, <2>2, <2>3 DEF TypeOK
<1>2. CASE Install
  BY <1>2 DEF TypeOK, Install
<1>3. CASE DiscardCounts
  BY <1>3 DEF TypeOK, DiscardCounts
<1>4. CASE StartTimer
  BY <1>4 DEF TypeOK, StartTimer
<1>5. CASE AttachFails
  BY <1>5 DEF TypeOK, AttachFails
<1> QED
  BY <1>1, <1>2, <1>3, <1>4, <1>5 DEF Start

\* TypeOK is inductive.
LEMMA TypesInductive ==
    /\ Init => TypeOK
    /\ TypeOK /\ [Next]_vars => TypeOK'
<1>1. ASSUME Init PROVE TypeOK
  <2>1. ring \in Seq(BOOLEAN) /\ Len(ring) =< RingCap /\ drained \in 0 .. MaxDrain
    BY <1>1, EmptyRing, SizesAssumption DEF Init
  <2>2. hpc \in [Threads -> {"idle", "unwind", "producer", "push"}]
    BY <1>1 DEF Init
  <2>3. {handled, active, timer, dead, running, inHand, buffer, report, tracked,
         discarded} \subseteq BOOLEAN
    BY <1>1 DEF Init
  <2>4. pending \subseteq Threads /\ counters \subseteq Reasons /\ left \subseteq Reasons
    BY <1>1 DEF Init
  <2> QED
    BY <1>1, <2>1, <2>2, <2>3, <2>4 DEF Init, TypeOK
<1>2. ASSUME TypeOK, [Next]_vars PROVE TypeOK'
  <2> USE <1>2 DEF procVars, handlerVars, samplerVars, reportVars, tickVars, Goto
  <2>1. CASE ForeignHandler
    BY <2>1 DEF TypeOK, ForeignHandler
  <2>2. ASSUME NEW t \in Threads, Tick(t) \/ Deliver(t) PROVE TypeOK'
    BY <2>2 DEF TypeOK, Tick, Deliver
  <2>3. ASSUME NEW t \in Threads, Handler(t) PROVE TypeOK'
    BY <2>3, HandlerTypes
  <2>4. CASE Start
    BY <2>4, StartTypes
  <2>5. CASE Sampler
    <3>1. CASE LoopTest
      BY <3>1 DEF TypeOK, LoopTest
    <3>2. CASE Record
      <4>1. (buffer \/ inHand) \in BOOLEAN
        BY Zenon
      <4>2. /\ buffer' \in BOOLEAN /\ inHand' = FALSE /\ drained' = 0 /\ phase' = "loop"
            /\ UNCHANGED <<procVars, handlerVars, ring, running, counters, reportVars,
                           tickVars, reported, discarded>>
        BY <3>2, <4>1 DEF Record
      <4>3. drained' \in 0 .. MaxDrain /\ buffer' \in BOOLEAN
        BY <4>2, SizesAssumption
      <4>4. UNCHANGED <<disp, handled, active, timer, pending, dead, hpc, producer, ring,
                        running, counters, rpc, left, report, followed, tracked, reported,
                        discarded>>
        BY <4>2
      <4>5. phase' = "loop" /\ inHand' = FALSE
        BY <4>2
      <4> QED
        BY <4>3, <4>4, <4>5 DEF TypeOK
    <3>3. CASE DropTimer
      BY <3>3 DEF TypeOK, DropTimer
    <3>4. CASE DropCheck
      BY <3>4 DEF TypeOK, DropCheck
    <3>5. CASE DropIgnore
      BY <3>5 DEF TypeOK, DropIgnore
    <3>6. CASE DropForget
      BY <3>6 DEF TypeOK, DropForget
    <3> QED
      BY <2>5, <3>1, <3>2, <3>3, <3>4, <3>5, <3>6, PopTypes DEF Sampler
  <2>6. CASE Shutdown
    BY <2>6 DEF TypeOK, Shutdown
  <2>7. CASE Report
    <3>1. CASE TakeBuffer
      BY <3>1 DEF TypeOK, TakeBuffer
    <3>2. CASE Build
      <4>1. reported' \in Nat
        BY <3>2 DEF TypeOK, Build
      <4>2. /\ report' = FALSE /\ rpc' = "idle"
            /\ UNCHANGED <<procVars, handlerVars, ring, samplerVars, counters, left,
                           tickVars, discarded>>
        BY <3>2 DEF Build
      <4> QED
        BY <4>1, <4>2 DEF TypeOK
    <3>3. ASSUME NEW reason \in Reasons, TakeCount(reason) PROVE TypeOK'
      BY <3>3 DEF TypeOK, TakeCount
    <3> QED
      BY <2>7, <3>1, <3>2, <3>3 DEF Report
  <2>8. CASE UNCHANGED vars
    BY <2>8 DEF TypeOK, vars
  <2> QED
    BY <2>1, <2>2, <2>3, <2>4, <2>5, <2>6, <2>7, <2>8 DEF Next, Kernel
<1> QED
  BY <1>1, <1>2

\* Every variable has its type: the ring never exceeds its capacity (push_slice
\* looks for room), and a turn of the drain never exceeds MAX_DRAIN_STACKS.
THEOREM SessionTypes == Spec => []TypeOK
BY TypesInductive, PTL DEF Spec
=============================================================================
