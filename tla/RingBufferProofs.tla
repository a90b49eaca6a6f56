-------------------------- MODULE RingBufferProofs --------------------------
(***************************************************************************)
(* The proofs about RingBuffer, for every power-of-two N, every usize      *)
(* width, any number of producers and consumers and any records.           *)
(* Modular arithmetic first, then one lemma per action and the theorems    *)
(* about single states, then the refinement of RecordQueue.                *)
(***************************************************************************)
EXTENDS RingBufferQueue, TLAPS

-----------------------------------------------------------------------------
\* Wrapping arithmetic and slot indices

\* A number below the modulus is its own remainder.
LEMMA ModSmall == ASSUME NEW m \in Nat \ {0}, NEW x \in 0 .. m - 1
                  PROVE  x % m = x
  OBVIOUS

\* One modulus more or less does not change the remainder.
LEMMA ModShift == ASSUME NEW m \in Nat \ {0}, NEW x \in 0 .. m - 1
                  PROVE  (x - m) % m = x /\ (x + m) % m = x
  OBVIOUS

\* wrapping_sub is the difference, plus one turn when it is negative.
LEMMA SubValue ==
    ASSUME NEW i \in Usize, NEW j \in Usize
    PROVE  wrapping_sub(i, j) = IF i >= j THEN i - j ELSE i - j + UsizeMod
  <1>1. CASE i >= j
    BY <1>1, ModSmall, UsizeAssumption, NAssumption DEF Usize, wrapping_sub
  <1>2. CASE i < j
    <2>1. i - j + UsizeMod \in 0 .. UsizeMod - 1
      BY <1>2, UsizeAssumption, NAssumption DEF Usize
    <2>2. (i - j + UsizeMod) - UsizeMod = i - j
      BY UsizeAssumption, NAssumption DEF Usize
    <2> QED BY <1>2, <2>1, <2>2, ModShift, UsizeAssumption, NAssumption DEF Usize, wrapping_sub
  <1> QED BY <1>1, <1>2 DEF Usize

\* wrapping_add is the sum, minus one turn when it overflows.
LEMMA AddValue ==
    ASSUME NEW i \in Usize, NEW n \in 0 .. UsizeMod
    PROVE  /\ wrapping_add(i, n) = IF i + n < UsizeMod THEN i + n ELSE i + n - UsizeMod
           /\ wrapping_add(i, n) \in Usize
  <1>0. UsizeMod \in Nat \ {0}
    BY UsizeAssumption, NAssumption
  <1>1. CASE i + n < UsizeMod
    BY <1>0, <1>1, ModSmall DEF Usize, wrapping_add
  <1>2. CASE i + n >= UsizeMod
    <2>1. i + n - UsizeMod \in 0 .. UsizeMod - 1
      BY <1>2, <1>0 DEF Usize
    <2>2. (i + n - UsizeMod) + UsizeMod = i + n
      BY <1>0 DEF Usize
    <2> QED BY <1>2, <2>1, <2>2, <1>0, ModShift DEF Usize, wrapping_add
  <1> QED BY <1>0, <1>1, <1>2 DEF Usize

\* No multiple of m lies strictly between 0 and m.
LEMMA MultipleBelow ==
    ASSUME NEW m \in Nat \ {0}, NEW k \in Int, m * k < m, 0 < m * k
    PROVE  FALSE
  <1>1. k >= 1
    OBVIOUS
  <1>2. m * k >= m * 1
    BY <1>1
  <1> QED BY <1>2

\* Two numbers less than m apart have different remainders.
LEMMA ModDistinct ==
    ASSUME NEW m \in Nat \ {0}, NEW x \in Nat, NEW y \in Nat, x > y, x - y < m
    PROVE x % m # y % m
  <1> SUFFICES ASSUME x % m = y % m PROVE FALSE
    OBVIOUS
  <1>1. x = m * (x \div m) + (x % m) /\ y = m * (y \div m) + (y % m)
    BY SMTT(20)
  <1>2. x \div m \in Int /\ y \div m \in Int
    OBVIOUS
  <1> DEFINE k == (x \div m) - (y \div m)
  <1>3. m * k = x - y
    BY <1>1, <1>2
  <1>4. k \in Int /\ 0 < m * k /\ m * k < m
    BY <1>2, <1>3
  <1> HIDE DEF k
  <1> QED BY <1>4, MultipleBelow

\* Adding a multiple of m does not change the remainder: slot(index) is not
\* disturbed when the index wraps.
LEMMA ModAddMultiple ==
    ASSUME NEW m \in Nat \ {0}, NEW x \in Nat, NEW M \in Nat, M % m = 0
    PROVE  (x + M) % m = x % m
  <1> DEFINE r == x % m  s == (x + M) % m
             k == ((x + M) \div m) - (x \div m) - (M \div m)
  <1>1. /\ x = m * (x \div m) + r
        /\ x + M = m * ((x + M) \div m) + s
        /\ M = m * (M \div m)
    OBVIOUS
  <1>2. x \div m \in Int /\ (x + M) \div m \in Int /\ M \div m \in Int
    OBVIOUS
  <1>3. r \in 0 .. m - 1 /\ s \in 0 .. m - 1
    OBVIOUS
  <1>4. m * k = r - s /\ m * (- k) = s - r /\ k \in Int /\ -k \in Int
    BY <1>1, <1>2, <1>3
  <1>5. CASE r > s
    <2>1. 0 < m * k /\ m * k < m
      BY <1>3, <1>4, <1>5
    <2> HIDE DEF r, s, k
    <2> QED BY <1>4, <2>1, MultipleBelow
  <1>6. CASE r < s
    <2>1. 0 < m * (- k) /\ m * (- k) < m
      BY <1>3, <1>4, <1>6
    <2> HIDE DEF r, s, k
    <2> QED BY <1>4, <2>1, MultipleBelow
  <1> QED BY <1>3, <1>5, <1>6

\* `index & (N - 1)` is an index of the slots array.
LEMMA SlotType == ASSUME NEW i \in Usize
                  PROVE  slot(i) \in 0 .. N - 1
  BY NAssumption DEF slot, Usize

\* Two positions less than N apart never share a slot, also across the wrap.
LEMMA SlotDistinct ==
    ASSUME NEW i \in Usize, NEW j \in Usize, i # j, wrapping_sub(i, j) < N
    PROVE  slot(i) # slot(j)
  <1>1. CASE i > j
    BY <1>1, SubValue, ModDistinct, NAssumption, UsizeAssumption DEF Usize, slot
  <1>2. CASE i < j
    <2> DEFINE x == i + UsizeMod
    <2>1. x \in Nat /\ j \in Nat /\ x > j /\ x - j < N
      BY <1>2, SubValue, NAssumption, UsizeAssumption DEF Usize
    <2>a. i \in Nat /\ UsizeMod \in Nat /\ N \in Nat \ {0} /\ UsizeMod % N = 0
      BY NAssumption, UsizeAssumption DEF Usize
    <2>3. x % N = i % N
      BY ONLY ModAddMultiple, <2>a
    <2> HIDE DEF x
    <2>2. x % N # j % N
      BY <2>1, ModDistinct, NAssumption
    <2> QED BY <2>2, <2>3 DEF slot
  <1> QED BY <1>1, <1>2 DEF Usize

\* The same for two positions of one window of N that starts at t.
LEMMA WindowDistinct ==
    ASSUME NEW t \in Usize, NEW i \in Usize, NEW j \in Usize, i # j,
           wrapping_sub(i, t) < N, wrapping_sub(j, t) < N
    PROVE  slot(i) # slot(j)
  <1>1. wrapping_sub(i, j) < N \/ wrapping_sub(j, i) < N
    BY SubValue, NAssumption, UsizeAssumption DEF Usize
  <1> QED BY <1>1, SlotDistinct

\* What the constants are, for arithmetic.
LEMMA Sizes == N \in Nat /\ N >= 1 /\ UsizeMod \in Nat /\ UsizeMod > N
  BY NAssumption, UsizeAssumption

\* wrapping_sub is a usize.
LEMMA SubType == ASSUME NEW i \in Usize, NEW j \in Usize
                 PROVE  wrapping_sub(i, j) \in Usize /\ wrapping_sub(i, j) \in Nat
  BY SubValue, Sizes DEF Usize

\* wrapping_add is a usize.
LEMMA AddType == ASSUME NEW i \in Nat, NEW j \in Nat
                 PROVE  wrapping_add(i, j) \in Usize
  BY Sizes DEF wrapping_add, Usize

\* An index has distance 0 from itself.
LEMMA SubSelf == ASSUME NEW i \in Usize PROVE wrapping_sub(i, i) = 0
  BY SubValue, Sizes DEF Usize

\* Two indices at the same distance from a third are equal.
LEMMA SubEqual == ASSUME NEW i \in Usize, NEW j \in Usize, NEW t \in Usize,
                         wrapping_sub(i, t) = wrapping_sub(j, t)
                  PROVE  i = j
  BY SubValue, Sizes DEF Usize

\* Moving the minuend forward by n.
LEMMA AddDist ==
    ASSUME NEW i \in Usize, NEW t \in Usize, NEW n \in Nat,
           wrapping_sub(i, t) + n < UsizeMod
    PROVE  /\ wrapping_add(i, n) \in Usize
           /\ wrapping_sub(wrapping_add(i, n), t) = wrapping_sub(i, t) + n
  <1> DEFINE j == wrapping_add(i, n)
  <1>1. n \in 0 .. UsizeMod
    BY SubType, Sizes DEF Usize
  <1>2. j \in Usize /\ j = IF i + n < UsizeMod THEN i + n ELSE i + n - UsizeMod
    BY <1>1, AddValue
  <1> HIDE DEF j
  <1>3. /\ wrapping_sub(j, t) = IF j >= t THEN j - t ELSE j - t + UsizeMod
        /\ wrapping_sub(i, t) = IF i >= t THEN i - t ELSE i - t + UsizeMod
    BY <1>2, SubValue
  <1>4. wrapping_sub(j, t) = wrapping_sub(i, t) + n
    BY <1>2, <1>3, Sizes DEF Usize
  <1> QED BY <1>2, <1>4 DEF j

\* Moving the subtrahend forward by n.
LEMMA ShiftDist ==
    ASSUME NEW i \in Usize, NEW t \in Usize, NEW n \in 0 .. UsizeMod - 1,
           n =< wrapping_sub(i, t) \/ wrapping_sub(i, wrapping_add(t, n)) + n < UsizeMod
    PROVE  /\ wrapping_add(t, n) \in Usize
           /\ wrapping_sub(i, wrapping_add(t, n)) = wrapping_sub(i, t) - n
  <1> DEFINE u == wrapping_add(t, n)
  <1>2. u \in Usize /\ u = IF t + n < UsizeMod THEN t + n ELSE t + n - UsizeMod
    BY AddValue, Sizes
  <1>3. n =< wrapping_sub(i, t) \/ wrapping_sub(i, u) + n < UsizeMod
    OBVIOUS
  <1> HIDE DEF u
  <1>4. /\ wrapping_sub(i, u) = IF i >= u THEN i - u ELSE i - u + UsizeMod
        /\ wrapping_sub(i, t) = IF i >= t THEN i - t ELSE i - t + UsizeMod
    BY <1>2, SubValue
  <1>5. wrapping_sub(i, u) = wrapping_sub(i, t) - n
    BY <1>2, <1>3, <1>4, Sizes DEF Usize
  <1> QED BY <1>2, <1>5 DEF u

\* `head.wrapping_add(1).wrapping_add(n)` is n + 1 after head.
LEMMA AddAdd ==
    ASSUME NEW i \in Usize, NEW n \in Nat, n + 1 < UsizeMod
    PROVE  wrapping_add(wrapping_add(i, 1), n) = wrapping_add(i, n + 1)
  <1> DEFINE j == wrapping_add(i, 1)
  <1>1. 1 \in 0 .. UsizeMod /\ n \in 0 .. UsizeMod /\ n + 1 \in 0 .. UsizeMod
    BY Sizes
  <1>2. j \in Usize /\ j = IF i + 1 < UsizeMod THEN i + 1 ELSE i + 1 - UsizeMod
    BY <1>1, AddValue
  <1> HIDE DEF j
  <1>3. /\ wrapping_add(j, n) = IF j + n < UsizeMod THEN j + n ELSE j + n - UsizeMod
        /\ wrapping_add(i, n + 1) = IF i + (n + 1) < UsizeMod THEN i + (n + 1)
                                    ELSE i + (n + 1) - UsizeMod
    BY <1>1, <1>2, AddValue
  <1>4. wrapping_add(j, n) = wrapping_add(i, n + 1)
    BY <1>2, <1>3, Sizes DEF Usize
  <1> QED BY <1>4 DEF j

\* Adding 0 changes nothing.
LEMMA AddZero == ASSUME NEW i \in Usize PROVE wrapping_add(i, 0) = i
  BY AddValue, Sizes DEF Usize

\* The variants of enum Slot are told apart by their kind.
LEMMA SlotKinds ==
    /\ \A n : Len_(n).kind = "Len" /\ Len_(n).len = n
    /\ \A v : Value(v).kind = "Value" /\ Value(v).val = v
    /\ Uninit.kind = "Uninit"
    /\ \A n \in 0 .. N : Len_(n) \in Slot
    /\ \A v \in Values : Value(v) \in Slot
    /\ Uninit \in Slot
    /\ \A s \in Slot : s.kind = "Len" => s.len \in 0 .. N /\ s = Len_(s.len)
    /\ \A s \in Slot : s.kind = "Value" => s.val \in Values
  <1>1. \A s \in Slot : s.kind = "Len" => s.len \in 0 .. N /\ s = Len_(s.len)
    BY DEF Slot, Len_, Value, Uninit
  <1>2. \A s \in Slot : s.kind = "Value" => s.val \in Values
    BY DEF Slot, Len_, Value, Uninit
  <1>3. /\ \A n : Len_(n).kind = "Len" /\ Len_(n).len = n
        /\ \A v : Value(v).kind = "Value" /\ Value(v).val = v
        /\ Uninit.kind = "Uninit"
    BY DEF Len_, Value, Uninit
  <1>4. /\ \A n \in 0 .. N : Len_(n) \in Slot
        /\ \A v \in Values : Value(v) \in Slot
        /\ Uninit \in Slot
    BY Zenon DEF Slot
  <1> QED BY <1>1, <1>2, <1>3, <1>4

-----------------------------------------------------------------------------
\* The initial states satisfy the invariant.

\* RingBuffer::new satisfies the invariant.
LEMMA InitInv == Init => IndInv
  <1> SUFFICES ASSUME Init PROVE IndInv
    OBVIOUS
  <1>0. 0 \in Usize /\ wrapping_sub(0, 0) = 0 /\ Uninit \in Slot
    BY Sizes, SubSelf, SlotKinds DEF Usize
  <1>1. TypeOK
    <2>1. /\ slots \in [0 .. N - 1 -> Slot] /\ head \in Usize /\ tail \in Usize
          /\ tailVis \subseteq Usize /\ headVis \subseteq Usize
      BY <1>0 DEF Init
    <2>2. producer_locked \in BOOLEAN /\ consumer_locked \in BOOLEAN
      BY Zenon DEF Init
    <2>3. /\ ppc \in [Producers -> ProducerPC]
          /\ phead \in [Producers -> Usize] /\ ptail \in [Producers -> Usize]
          /\ pvals \in [Producers -> Seq(Values)] /\ pi \in [Producers -> Nat]
      BY <1>0 DEF Init, ProducerPC
    <2>4. /\ cpc \in [Consumers -> ConsumerPC]
          /\ chead \in [Consumers -> Usize] /\ ctail \in [Consumers -> Usize]
          /\ cap \in [Consumers -> Nat] /\ clen \in [Consumers -> Nat]
          /\ ci \in [Consumers -> Nat]
          /\ cout \in [Consumers -> Seq(Values)] /\ popped \in Seq(Values)
      BY <1>0 DEF Init, ConsumerPC
    <2> QED BY <2>1, <2>2, <2>3, <2>4 DEF TypeOK
  <1>2. LockInv
    BY DEF Init, LockInv
  <1>3. WindowInv
    BY <1>0, Sizes DEF Init, WindowInv
  <1>4. ProducerInv /\ ConsumerInv
    BY DEF Init, ProducerInv, ConsumerInv
  <1>5. FramingInv
    <2>1. \A i \in Usize : ~(wrapping_sub(i, tail) < wrapping_sub(head, tail))
      BY <1>0, SubType DEF Init
    <2> QED BY <2>1 DEF Init, FramingInv
  <1>6. NeverUnreachable
    BY DEF Init, NeverUnreachable
  <1> QED BY <1>1, <1>2, <1>3, <1>4, <1>5, <1>6 DEF IndInv

-----------------------------------------------------------------------------
\* Producer steps

\* RingBuffer::producer preserves the invariant.
LEMMA ProducerTryLockInv ==
    ASSUME IndInv, NEW p \in Producers, ProducerTryLock(p) PROVE IndInv'
  <1> USE DEF ProducerTryLock, IndInv, bufVars, prodVars, consVars
  <1>1. TypeOK'
    BY DEF TypeOK, ProducerPC
  <1>2. LockInv'
    BY DEF TypeOK, LockInv
  <1>3. WindowInv' /\ FramingInv' /\ NeverUnreachable'
    BY DEF WindowInv, FramingInv, NeverUnreachable
  <1>4. ProducerInv'
    BY DEF TypeOK, ProducerInv
  <1>5. ConsumerInv'
    BY DEF ConsumerInv
  <1> QED BY <1>1, <1>2, <1>3, <1>4, <1>5

\* The load of head in RingBuffer::producer preserves the invariant.
LEMMA ProducerLoadHeadInv ==
    ASSUME IndInv, NEW p \in Producers, ProducerLoadHead(p) PROVE IndInv'
  <1> USE DEF ProducerLoadHead, IndInv, bufVars, prodVars, consVars
  <1>1. TypeOK'
    BY DEF TypeOK, ProducerPC
  <1>2. LockInv'
    BY DEF TypeOK, LockInv
  <1>3. WindowInv' /\ FramingInv' /\ NeverUnreachable'
    BY DEF WindowInv, FramingInv, NeverUnreachable
  <1>4. ProducerInv'
    BY DEF TypeOK, ProducerInv
  <1>5. ConsumerInv'
    BY DEF ConsumerInv
  <1> QED BY <1>1, <1>2, <1>3, <1>4, <1>5

\* The load of tail in RingBuffer::producer preserves the invariant, however
\* stale the value it returns.
LEMMA ProducerLoadTailInv ==
    ASSUME IndInv, NEW p \in Producers, ProducerLoadTail(p) PROVE IndInv'
  <1> USE DEF ProducerLoadTail, IndInv, bufVars, prodVars, consVars
  <1> PICK t \in tailVis : LoadTail(t) /\ ptail' = [ptail EXCEPT ![p] = t]
    OBVIOUS
  <1> USE DEF LoadTail
  <1>1. TypeOK'
    BY DEF TypeOK, ProducerPC
  <1>2. LockInv'
    BY DEF TypeOK, LockInv
  <1>3. WindowInv' /\ FramingInv' /\ NeverUnreachable'
    BY DEF WindowInv, FramingInv, NeverUnreachable
  <1>4. ProducerInv'
    BY DEF TypeOK, ProducerInv, WindowInv, LockInv
  <1>5. ConsumerInv'
    BY DEF ConsumerInv
  <1> QED BY <1>1, <1>2, <1>3, <1>4, <1>5

\* The first test of push_slice preserves the invariant.
LEMMA PushSliceInv ==
    ASSUME IndInv, NEW p \in Producers, NEW values \in Records, PushSlice(p, values)
    PROVE  IndInv'
  <1> USE DEF PushSlice, IndInv, bufVars, prodVars, consVars
  <1>0. values \in Seq(Values)
    BY RecordsAssumption
  <1>1. TypeOK'
    BY <1>0 DEF TypeOK, ProducerPC
  <1>2. LockInv'
    BY DEF TypeOK, LockInv
  <1>3. WindowInv' /\ FramingInv' /\ NeverUnreachable'
    BY DEF WindowInv, FramingInv, NeverUnreachable
  <1>4. ProducerInv'
    BY <1>0 DEF TypeOK, ProducerInv
  <1>5. ConsumerInv'
    BY DEF ConsumerInv
  <1> QED BY <1>1, <1>2, <1>3, <1>4, <1>5

\* The reload of tail in push_slice preserves the invariant.
LEMMA ProducerReloadTailInv ==
    ASSUME IndInv, NEW p \in Producers, ProducerReloadTail(p) PROVE IndInv'
  <1> USE DEF ProducerReloadTail, IndInv, bufVars, prodVars, consVars
  <1> PICK t \in tailVis :
         /\ LoadTail(t)
         /\ ptail' = [ptail EXCEPT ![p] = t]
         /\ ppc' = [ppc EXCEPT ![p] =
                      IF fits(phead[p], t, Len(pvals[p])) THEN "write" ELSE "ready"]
         /\ pvals' = [pvals EXCEPT ![p] =
                        IF fits(phead[p], t, Len(pvals[p])) THEN @ ELSE <<>>]
    OBVIOUS
  <1> USE DEF LoadTail
  <1>1. TypeOK'
    BY DEF TypeOK, ProducerPC
  <1>2. LockInv'
    BY DEF TypeOK, LockInv
  <1>3. WindowInv' /\ FramingInv' /\ NeverUnreachable'
    BY DEF WindowInv, FramingInv, NeverUnreachable
  <1>4. ProducerInv'
    BY DEF TypeOK, ProducerInv, WindowInv, LockInv
  <1>5. ConsumerInv'
    BY DEF ConsumerInv
  <1> QED BY <1>1, <1>2, <1>3, <1>4, <1>5

\* Dropping the Producer preserves the invariant.
LEMMA ProducerDropInv ==
    ASSUME IndInv, NEW p \in Producers, ProducerDrop(p) PROVE IndInv'
  <1> USE DEF ProducerDrop, IndInv, bufVars, prodVars, consVars
  <1>0. 0 \in Usize
    BY Sizes DEF Usize
  <1>1. TypeOK'
    <2>1. producer_locked' \in BOOLEAN
      BY Zenon
    <2>2. /\ ppc' \in [Producers -> ProducerPC]
          /\ phead' \in [Producers -> Usize] /\ ptail' \in [Producers -> Usize]
      BY <1>0 DEF TypeOK, ProducerPC
    <2> QED BY ONLY IndInv, ProducerDrop(p), <2>1, <2>2 DEF TypeOK
  <1>2. LockInv'
    <2>1. \A q \in Producers : ppc[q] # "idle" => q = p
      BY Zenon DEF LockInv
    <2>2. \A q \in Producers : ppc'[q] = "idle"
      BY <2>1 DEF TypeOK
    <2> QED BY <2>2 DEF LockInv
  <1>3. WindowInv' /\ FramingInv' /\ NeverUnreachable'
    BY DEF WindowInv, FramingInv, NeverUnreachable
  <1>4. ProducerInv'
    BY DEF TypeOK, ProducerInv
  <1>5. ConsumerInv'
    BY DEF ConsumerInv
  <1> QED BY <1>1, <1>2, <1>3, <1>4, <1>5

\* A write beyond head changes no published position.
LEMMA WriteFrame ==
    ASSUME IndInv, NEW w \in Usize, NEW x \in Slot,
           slots' = [slots EXCEPT ![slot(w)] = x],
           wrapping_sub(w, tail) >= wrapping_sub(head, tail), wrapping_sub(w, tail) < N,
           NEW i \in Usize, wrapping_sub(i, tail) < wrapping_sub(head, tail)
    PROVE  slots'[slot(i)] = slots[slot(i)]
  <1>1. tail \in Usize /\ head \in Usize /\ slots \in [0 .. N - 1 -> Slot]
    BY DEF IndInv, TypeOK
  <1>a. /\ wrapping_sub(i, tail) \in Nat /\ wrapping_sub(w, tail) \in Nat
        /\ wrapping_sub(head, tail) \in Nat
    BY <1>1, SubType
  <1>2. wrapping_sub(i, tail) < N /\ i # w
    BY <1>a, Sizes
  <1>3. slot(i) # slot(w)
    BY <1>1, <1>2, WindowDistinct
  <1> QED BY <1>1, <1>3, SlotType

\* So the chain of published records stays as it is.
LEMMA FramingUnderWrite ==
    ASSUME IndInv, NEW w \in Usize, NEW x \in Slot,
           slots' = [slots EXCEPT ![slot(w)] = x],
           wrapping_sub(w, tail) >= wrapping_sub(head, tail), wrapping_sub(w, tail) < N,
           UNCHANGED <<head, tail, headVis>>
    PROVE  FramingInv'
  <1>0. /\ tail \in Usize /\ head \in Usize /\ slots \in [0 .. N - 1 -> Slot]
        /\ headVis \subseteq Usize
        /\ wrapping_sub(head, tail) =< N /\ wrapping_sub(head, tail) \in Nat
    BY SubType DEF IndInv, TypeOK, WindowInv
  <1>f. \A i \in Usize : wrapping_sub(i, tail) < wrapping_sub(head, tail)
                         => slots'[slot(i)] = slots[slot(i)]
    BY WriteFrame
  <1>n. \A i \in Usize : i # head /\ wrapping_sub(i, tail) =< wrapping_sub(head, tail)
                         => slots'[slot(i)] = slots[slot(i)]
    <2> SUFFICES ASSUME NEW i \in Usize, i # head,
                        wrapping_sub(i, tail) =< wrapping_sub(head, tail)
                 PROVE  slots'[slot(i)] = slots[slot(i)]
      OBVIOUS
    <2>1. wrapping_sub(i, tail) # wrapping_sub(head, tail)
      BY <1>0, SubEqual
    <2> QED BY <1>0, <1>f, <2>1, SubType
  <1>1. tail' = head' \/ slots'[slot(tail')].kind = "Len"
    BY <1>0, <1>n, SubSelf DEF IndInv, FramingInv
  <1>2. \A v \in headVis' : v = head' \/ slots'[slot(v)].kind = "Len"
    BY <1>0, <1>n DEF IndInv, FramingInv, WindowInv
  <1>3. ASSUME NEW i \in Usize, wrapping_sub(i, tail) < wrapping_sub(head, tail),
               slots'[slot(i)].kind = "Len"
        PROVE  LET len == slots'[slot(i)].len
                   next == wrapping_add(i, len + 1)
               IN  /\ wrapping_sub(i, tail) + len + 1 =< wrapping_sub(head, tail)
                   /\ \A k \in 1 .. len : slots'[slot(wrapping_add(i, k))].kind = "Value"
                   /\ next = head \/ slots'[slot(next)].kind = "Len"
    <2> DEFINE len == slots[slot(i)].len
               next == wrapping_add(i, len + 1)
    <2>1. slots'[slot(i)] = slots[slot(i)]
      BY <1>3, <1>f
    <2>2. slots[slot(i)] \in Slot /\ slots[slot(i)].kind = "Len"
      BY <1>0, <1>3, <2>1, SlotType
    <2>3. len \in 0 .. N
      BY <2>2, SlotKinds
    <2>4. /\ wrapping_sub(i, tail) + len + 1 =< wrapping_sub(head, tail)
          /\ \A k \in 1 .. len : slots[slot(wrapping_add(i, k))].kind = "Value"
          /\ next = head \/ slots[slot(next)].kind = "Len"
      BY <1>3, <2>2 DEF IndInv, FramingInv
    <2> HIDE DEF len
    <2>5. ASSUME NEW k \in 1 .. len
          PROVE  slots'[slot(wrapping_add(i, k))].kind = "Value"
      <3>1. /\ wrapping_add(i, k) \in Usize
            /\ wrapping_sub(wrapping_add(i, k), tail) = wrapping_sub(i, tail) + k
        BY <1>0, <2>3, <2>4, AddDist, SubType, Sizes
      <3>2. wrapping_sub(wrapping_add(i, k), tail) < wrapping_sub(head, tail)
        BY <1>0, <2>3, <2>4, <3>1, SubType
      <3> QED BY <1>f, <2>4, <3>1, <3>2
    <2>6. next = head \/ slots'[slot(next)].kind = "Len"
      <3>1. /\ next \in Usize
            /\ wrapping_sub(next, tail) = wrapping_sub(i, tail) + (len + 1)
        BY <1>0, <2>3, <2>4, AddDist, SubType, Sizes
      <3> QED BY <1>0, <1>n, <2>3, <2>4, <3>1, SubType
    <2> QED BY <2>1, <2>4, <2>5, <2>6 DEF len
  <1> QED BY <1>1, <1>2, <1>3 DEF FramingInv

\* And the active consumer's knowledge survives.
LEMMA ConsumerUnderWrite ==
    ASSUME IndInv, NEW w \in Usize, NEW x \in Slot,
           slots' = [slots EXCEPT ![slot(w)] = x],
           wrapping_sub(w, tail) >= wrapping_sub(head, tail), wrapping_sub(w, tail) < N,
           UNCHANGED <<head, tail, headVis, consVars>>
    PROVE  ConsumerInv'
  <1> SUFFICES ASSUME NEW c \in Consumers
               PROVE  /\ cpc[c] \notin {"idle", "load_head"} =>
                           chead[c] = head \/ slots'[slot(chead[c])].kind = "Len"
                      /\ cpc[c] = "read" => slots'[slot(tail)] = Len_(clen[c])
    BY DEF IndInv, ConsumerInv, consVars
  <1>0. /\ tail \in Usize /\ head \in Usize /\ chead[c] \in Usize
        /\ wrapping_sub(head, tail) \in Nat
    BY SubType DEF IndInv, TypeOK
  <1>1. ASSUME cpc[c] \notin {"idle", "load_head"}, chead[c] # head
        PROVE  slots'[slot(chead[c])].kind = "Len"
    <2>1. /\ wrapping_sub(chead[c], tail) =< wrapping_sub(head, tail)
          /\ slots[slot(chead[c])].kind = "Len"
      BY <1>1 DEF IndInv, ConsumerInv
    <2>2. wrapping_sub(chead[c], tail) < wrapping_sub(head, tail)
      <3>1. /\ wrapping_sub(chead[c], tail) \in Nat
            /\ wrapping_sub(chead[c], tail) # wrapping_sub(head, tail)
        BY <1>0, <1>1, SubEqual, SubType
      <3> QED BY <1>0, <2>1, <3>1
    <2> QED BY <1>0, <2>1, <2>2, WriteFrame
  <1>2. ASSUME cpc[c] = "read"
        PROVE  slots'[slot(tail)] = Len_(clen[c])
    <2>1. /\ slots[slot(tail)] = Len_(clen[c]) /\ chead[c] # tail
          /\ wrapping_sub(chead[c], tail) =< wrapping_sub(head, tail)
      BY <1>2 DEF IndInv, ConsumerInv
    <2>2. wrapping_sub(tail, tail) < wrapping_sub(head, tail)
      <3>1. wrapping_sub(tail, tail) = 0 /\ wrapping_sub(chead[c], tail) # 0
        BY <1>0, <2>1, SubSelf, SubEqual
      <3> QED BY <1>0, <2>1, <3>1, SubType
    <2> QED BY <1>0, <2>1, <2>2, WriteFrame
  <1> QED BY <1>1, <1>2

\* The n-th position after head is free while the record being written fits.
LEMMA WritePosition ==
    ASSUME IndInv, NEW p \in Producers, ppc[p] \in {"write", "publish"},
           NEW n \in Nat, n =< Len(pvals[p])
    PROVE  /\ wrapping_add(head, n) \in Usize
           /\ wrapping_sub(wrapping_add(head, n), tail) = wrapping_sub(head, tail) + n
           /\ wrapping_sub(head, tail) + n < N
           /\ wrapping_sub(wrapping_add(head, n), ptail[p]) = wrapping_sub(head, ptail[p]) + n
           /\ wrapping_sub(head, ptail[p]) + n < N
           /\ wrapping_sub(head, tail) =< wrapping_sub(head, ptail[p])
  <1>1. /\ tail \in Usize /\ head \in Usize /\ ptail[p] \in Usize
        /\ pvals[p] \in Seq(Values) /\ Len(pvals[p]) \in Nat
    BY DEF IndInv, TypeOK
  <1>2. /\ tail \in tailVis /\ fits(head, ptail[p], Len(pvals[p]))
        /\ \A v \in tailVis : wrapping_sub(head, v) =< wrapping_sub(head, ptail[p])
    BY DEF IndInv, ProducerInv, WindowInv
  <1>3. wrapping_sub(head, tail) \in Nat /\ wrapping_sub(head, ptail[p]) \in Nat
    BY <1>1, SubType
  <1>4. /\ wrapping_sub(head, tail) =< wrapping_sub(head, ptail[p])
        /\ wrapping_sub(head, ptail[p]) + n < N
        /\ wrapping_sub(head, tail) + n < N
        /\ wrapping_sub(head, tail) + n < UsizeMod
        /\ wrapping_sub(head, ptail[p]) + n < UsizeMod
    BY <1>1, <1>2, <1>3, Sizes DEF fits
  <1> QED BY <1>1, <1>4, AddDist

\* Writing a value in push_slice preserves the invariant.
LEMMA WriteValueInv ==
    ASSUME IndInv, NEW p \in Producers, WriteValue(p) PROVE IndInv'
  <1> DEFINE n == pi[p] + 1
             w == wrapping_add(head, n)
             x == Value(pvals[p][n])
  <1>1. /\ ppc[p] = "write" /\ pi[p] < Len(pvals[p])
        /\ head \in Usize /\ tail \in Usize /\ slots \in [0 .. N - 1 -> Slot]
        /\ pi \in [Producers -> Nat] /\ pvals[p] \in Seq(Values) /\ Len(pvals[p]) \in Nat
        /\ phead[p] = head
    <2>1. ppc[p] = "write" /\ pi[p] < Len(pvals[p])
      BY DEF WriteValue
    <2>2. phead[p] = head
      BY <2>1 DEF IndInv, ProducerInv
    <2> QED BY <2>1, <2>2 DEF IndInv, TypeOK
  <1>2. n \in Nat /\ n >= 1 /\ n =< Len(pvals[p]) /\ pi[p] \in Nat
    BY <1>1
  <1>3. /\ w \in Usize /\ wrapping_sub(w, tail) = wrapping_sub(head, tail) + n
        /\ wrapping_sub(w, tail) < N /\ wrapping_sub(head, tail) + n < N
    BY <1>1, <1>2, WritePosition
  <1>4. wrapping_sub(head, tail) \in Nat /\ wrapping_sub(w, tail) >= wrapping_sub(head, tail)
    BY <1>1, <1>2, <1>3, SubType
  <1>5. x \in Slot /\ x.kind = "Value"
    BY <1>1, <1>2, SlotKinds
  <1>6. slots' = [slots EXCEPT ![slot(w)] = x]
    <2>1. wrapping_add(wrapping_add(phead[p], 1), pi[p]) = w
      BY <1>1, <1>2, <1>3, <1>4, AddAdd, Sizes
    <2> QED BY <1>1, <2>1 DEF WriteValue, WriteIndex
  <1>7. TypeOK'
    <2>1. slots' \in [0 .. N - 1 -> Slot]
      BY <1>1, <1>3, <1>5, <1>6, SlotType
    <2>2. pi' \in [Producers -> Nat]
      BY <1>1, <1>2 DEF WriteValue
    <2> QED BY <2>1, <2>2 DEF IndInv, TypeOK, WriteValue, consVars
  <1>8. LockInv' /\ WindowInv' /\ NeverUnreachable'
    BY DEF IndInv, LockInv, WindowInv, NeverUnreachable, WriteValue, consVars
  <1>9. FramingInv'
    BY <1>3, <1>4, <1>5, <1>6, FramingUnderWrite DEF WriteValue
  <1>10. ConsumerInv'
    BY <1>3, <1>4, <1>5, <1>6, ConsumerUnderWrite DEF WriteValue
  <1>11. ProducerInv'
    <2>1. \A q \in Producers : ppc[q] \in {"write", "publish"} => q = p
      BY <1>1 DEF IndInv, LockInv
    <2>2. \A k \in 1 .. n : slots'[slot(wrapping_add(head, k))].kind = "Value"
      <3> SUFFICES ASSUME NEW k \in 1 .. n
                   PROVE  slots'[slot(wrapping_add(head, k))].kind = "Value"
        OBVIOUS
      <3>1. CASE k = n
        BY <1>1, <1>3, <1>5, <1>6, <3>1, SlotType
      <3>2. CASE k # n
        <4>1. k \in Nat /\ k =< Len(pvals[p]) /\ k \in 1 .. pi[p]
          BY <1>1, <1>2, <3>2
        <4>2. /\ wrapping_add(head, k) \in Usize
              /\ wrapping_sub(wrapping_add(head, k), tail) = wrapping_sub(head, tail) + k
              /\ wrapping_sub(wrapping_add(head, k), tail) < N
          BY <1>1, <4>1, WritePosition
        <4>3. wrapping_add(head, k) # w
          BY <1>2, <1>3, <1>4, <3>2, <4>1, <4>2
        <4>4. slot(wrapping_add(head, k)) # slot(w)
          BY <1>1, <1>3, <4>2, <4>3, WindowDistinct
        <4>5. slots[slot(wrapping_add(head, k))].kind = "Value"
          BY <1>1, <4>1 DEF IndInv, ProducerInv
        <4> QED BY <1>1, <1>3, <1>6, <4>2, <4>4, <4>5, SlotType
      <3> QED BY <3>1, <3>2
    <2>3. ASSUME NEW q \in Producers, q # p
          PROVE  /\ ppc[q] \notin {"write", "publish"}
                 /\ UNCHANGED <<ppc[q], phead[q], ptail[q], pvals[q], pi[q], head, tailVis>>
      BY <1>1, <2>1, <2>3 DEF WriteValue
    <2>4. pi'[p] = n /\ UNCHANGED <<ppc, phead, ptail, pvals, head, tailVis>>
      BY <1>1 DEF WriteValue
    <2> HIDE DEF n, w, x
    <2> QED BY <1>1, <1>2, <2>2, <2>3, <2>4 DEF IndInv, ProducerInv
  <1> QED BY <1>7, <1>8, <1>9, <1>10, <1>11 DEF IndInv

\* Writing the length in push_slice preserves the invariant.
LEMMA WriteLenInv ==
    ASSUME IndInv, NEW p \in Producers, WriteLen(p) PROVE IndInv'
  <1> DEFINE x == Len_(Len(pvals[p]))
  <1>1. /\ ppc[p] = "write" /\ pi[p] = Len(pvals[p]) /\ phead[p] = head
        /\ head \in Usize /\ tail \in Usize /\ slots \in [0 .. N - 1 -> Slot]
        /\ Len(pvals[p]) \in Nat
    <2>1. ppc[p] = "write" /\ pi[p] = Len(pvals[p])
      BY DEF WriteLen
    <2>2. phead[p] = head
      BY <2>1 DEF IndInv, ProducerInv
    <2> QED BY <2>1, <2>2 DEF IndInv, TypeOK
  <1>2. /\ wrapping_sub(head, tail) \in Nat
        /\ wrapping_sub(head, tail) + Len(pvals[p]) < N
    BY <1>1, WritePosition, SubType
  <1>3. wrapping_sub(head, tail) >= wrapping_sub(head, tail) /\ wrapping_sub(head, tail) < N
    BY <1>1, <1>2, Sizes
  <1>4. x \in Slot /\ x.kind = "Len"
    <2>1. Len(pvals[p]) \in 0 .. N
      BY <1>1, <1>2, Sizes
    <2> QED BY <2>1, SlotKinds
  <1>5. slots' = [slots EXCEPT ![slot(head)] = x]
    BY <1>1 DEF WriteLen
  <1>6. TypeOK'
    <2>1. slots' \in [0 .. N - 1 -> Slot]
      BY <1>1, <1>4, <1>5, SlotType
    <2>2. ppc' \in [Producers -> ProducerPC]
      BY DEF IndInv, TypeOK, WriteLen, ProducerPC
    <2> QED BY <2>1, <2>2 DEF IndInv, TypeOK, WriteLen, consVars
  <1>7. LockInv' /\ WindowInv' /\ NeverUnreachable'
    <2>1. \A q \in Producers : ppc'[q] = "idle" <=> ppc[q] = "idle"
      BY <1>1 DEF IndInv, TypeOK, WriteLen
    <2> QED BY <2>1 DEF IndInv, LockInv, WindowInv, NeverUnreachable, WriteLen, consVars
  <1>8. FramingInv'
    BY <1>1, <1>3, <1>4, <1>5, FramingUnderWrite DEF WriteLen
  <1>9. ConsumerInv'
    BY <1>1, <1>3, <1>4, <1>5, ConsumerUnderWrite DEF WriteLen
  <1>10. ProducerInv'
    <2>1. \A q \in Producers : ppc[q] \in {"write", "publish"} => q = p
      BY <1>1 DEF IndInv, LockInv
    <2>2. slots'[slot(head)] = x
      BY <1>1, <1>5, SlotType
    <2>3. \A k \in 1 .. pi[p] : slots'[slot(wrapping_add(head, k))].kind = "Value"
      <3> SUFFICES ASSUME NEW k \in 1 .. pi[p]
                   PROVE  slots'[slot(wrapping_add(head, k))].kind = "Value"
        OBVIOUS
      <3>1. k \in Nat /\ k =< Len(pvals[p]) /\ k >= 1
        BY <1>1
      <3>2. /\ wrapping_add(head, k) \in Usize
            /\ wrapping_sub(wrapping_add(head, k), tail) = wrapping_sub(head, tail) + k
            /\ wrapping_sub(wrapping_add(head, k), tail) < N
        BY <1>1, <3>1, WritePosition
      <3>3. wrapping_add(head, k) # head
        BY <1>2, <3>1, <3>2
      <3>4. slot(wrapping_add(head, k)) # slot(head)
        BY <1>1, <1>3, <3>2, <3>3, WindowDistinct
      <3>5. slots[slot(wrapping_add(head, k))].kind = "Value"
        BY <1>1, <3>1 DEF IndInv, ProducerInv
      <3> QED BY <1>1, <1>5, <3>2, <3>4, <3>5, SlotType
    <2>4. ASSUME NEW q \in Producers, q # p
          PROVE  /\ ppc[q] \notin {"write", "publish"}
                 /\ UNCHANGED <<ppc[q], phead[q], ptail[q], pvals[q], pi[q], head, tailVis>>
      BY <1>1, <2>1, <2>4 DEF WriteLen, IndInv, TypeOK
    <2>5. /\ ppc'[p] = "publish"
          /\ UNCHANGED <<phead, ptail, pvals, pi, head, tailVis>>
      BY <1>1 DEF WriteLen, IndInv, TypeOK
    <2> QED BY <1>1, <2>2, <2>3, <2>4, <2>5 DEF IndInv, ProducerInv
  <1> QED BY <1>6, <1>7, <1>8, <1>9, <1>10 DEF IndInv

\* The store of head in push_slice preserves the invariant: the new record
\* extends the chain.
LEMMA PublishInv ==
    ASSUME IndInv, NEW p \in Producers, Publish(p) PROVE IndInv'
  <1> DEFINE len == Len(pvals[p])
             h == wrapping_add(head, len + 1)
             D == wrapping_sub(head, tail)
  <1>1. /\ ppc[p] = "publish" /\ pi[p] = len /\ phead[p] = head
        /\ slots[slot(head)] = Len_(len)
        /\ \A k \in 1 .. len : slots[slot(wrapping_add(head, k))].kind = "Value"
    <2>1. ppc[p] = "publish"
      BY DEF Publish
    <2>2. pi[p] = len /\ slots[slot(head)] = Len_(len) /\ phead[p] = head
      BY <2>1 DEF IndInv, ProducerInv
    <2> QED BY <2>1, <2>2 DEF IndInv, ProducerInv
  <1>2. /\ head \in Usize /\ tail \in Usize /\ slots \in [0 .. N - 1 -> Slot]
        /\ ptail[p] \in Usize /\ len \in Nat /\ tailVis \subseteq Usize
        /\ headVis \subseteq Usize
    BY DEF IndInv, TypeOK
  <1>3. D \in Nat /\ wrapping_sub(head, ptail[p]) \in Nat
    BY <1>2, SubType
  <1>4. /\ D =< wrapping_sub(head, ptail[p])
        /\ wrapping_sub(head, ptail[p]) + len + 1 =< N
        /\ D + len + 1 =< N
    <2>1. /\ D =< wrapping_sub(head, ptail[p])
          /\ wrapping_sub(head, ptail[p]) + len < N
      BY <1>1, <1>2, WritePosition
    <2> QED BY <1>2, <1>3, <2>1, Sizes
  <1>5. ASSUME NEW v \in Usize, wrapping_sub(head, v) =< wrapping_sub(head, ptail[p])
        PROVE  h \in Usize /\ wrapping_sub(h, v) = wrapping_sub(head, v) + (len + 1)
    <2>1. wrapping_sub(head, v) \in Nat
      BY <1>2, SubType
    <2>a. len \in Nat
      BY <1>2
    <2>2. len + 1 \in Nat /\ wrapping_sub(head, v) + (len + 1) < UsizeMod
      <3> HIDE DEF len, D, h
      <3> QED BY ONLY <1>3, <1>4, <1>5, <2>1, <2>a, Sizes
    <2> QED BY <1>2, <2>2, AddDist
  <1>6. h \in Usize /\ wrapping_sub(h, tail) = D + (len + 1)
    BY <1>2, <1>4, <1>5
  <1>7. wrapping_add(wrapping_add(phead[p], 1), Len(pvals[p])) = h
    BY <1>1, <1>2, <1>3, <1>4, AddAdd, Sizes
  <1>8. /\ head' = h /\ headVis' = headVis \cup {h}
        /\ phead' = [phead EXCEPT ![p] = h] /\ ppc' = [ppc EXCEPT ![p] = "ready"]
        /\ pvals' = [pvals EXCEPT ![p] = <<>>] /\ pi' = [pi EXCEPT ![p] = 0]
        /\ UNCHANGED <<slots, tail, producer_locked, consumer_locked, tailVis, ptail,
                       cpc, chead, ctail, cap, clen, ci, cout, popped>>
    BY <1>7 DEF Publish, consVars
  <1>9. slots[slot(head)].kind = "Len" /\ slots[slot(head)].len = len
    BY <1>1, SlotKinds
  <1> HIDE DEF h
  <1>10. TypeOK'
    BY <1>6, <1>8 DEF IndInv, TypeOK, ProducerPC
  <1>11. LockInv'
    <2>1. \A q \in Producers : ppc'[q] = "idle" <=> ppc[q] = "idle"
      BY <1>1, <1>8 DEF IndInv, TypeOK
    <2> QED BY <1>8, <2>1 DEF IndInv, LockInv
  <1>12. WindowInv'
    <2>1. \A v \in tailVis : /\ wrapping_sub(head, v) =< wrapping_sub(head, ptail[p])
                             /\ D =< wrapping_sub(head, v)
                             /\ wrapping_sub(head, v) \in Nat
                             /\ v \in Usize
      BY <1>1, <1>2, SubType DEF IndInv, WindowInv, ProducerInv
    <2>2. \A v \in tailVis : /\ wrapping_sub(h, tail) =< wrapping_sub(h, v)
                             /\ wrapping_sub(h, v) =< N
      BY <1>2, <1>3, <1>4, <1>5, <1>6, <2>1, Sizes
    <2>3. \A v \in headVis : wrapping_sub(v, tail) =< wrapping_sub(h, tail)
      <3>1. \A v \in headVis : wrapping_sub(v, tail) =< D /\ wrapping_sub(v, tail) \in Nat
        BY <1>2, SubType DEF IndInv, WindowInv
      <3> QED BY <1>2, <1>3, <1>6, <3>1
    <2>4. tail \in tailVis
      BY DEF IndInv, WindowInv
    <2>5. wrapping_sub(h, tail) =< wrapping_sub(h, tail) /\ wrapping_sub(h, tail) =< N
      BY <1>2, <1>3, <1>4, <1>6, Sizes
    <2> QED BY <1>8, <2>2, <2>3, <2>4, <2>5 DEF WindowInv
  <1>13. ProducerInv'
    <2>1. \A q \in Producers : q # p => ppc'[q] = "idle"
      BY <1>1, <1>8 DEF IndInv, LockInv, TypeOK
    <2>2. \A q \in Producers : q # p => pi'[q] = 0
      BY <1>1, <1>8, <2>1 DEF IndInv, ProducerInv, TypeOK, LockInv
    <2>3. ppc'[p] = "ready" /\ phead'[p] = h /\ pi'[p] = 0 /\ ptail'[p] = ptail[p]
      BY <1>8 DEF IndInv, TypeOK
    <2>4. wrapping_sub(h, ptail[p]) =< N
      BY <1>2, <1>3, <1>4, <1>5, Sizes
    <2>5. \A v \in tailVis : wrapping_sub(h, v) =< wrapping_sub(h, ptail[p])
      <3>1. \A v \in tailVis : /\ wrapping_sub(head, v) =< wrapping_sub(head, ptail[p])
                               /\ wrapping_sub(head, v) \in Nat
                               /\ v \in Usize
        BY <1>1, <1>2, SubType DEF IndInv, ProducerInv
      <3>2. wrapping_sub(h, ptail[p]) = wrapping_sub(head, ptail[p]) + (len + 1)
        BY <1>2, <1>3, <1>5
      <3> QED BY <1>2, <1>3, <1>5, <3>1, <3>2
    <2> QED BY <1>8, <2>1, <2>2, <2>3, <2>4, <2>5 DEF ProducerInv
  <1>14. ConsumerInv'
    <2>1. ASSUME NEW c \in Consumers, cpc[c] \notin {"idle", "load_head"}
          PROVE  /\ wrapping_sub(chead[c], tail) =< wrapping_sub(h, tail)
                 /\ slots[slot(chead[c])].kind = "Len"
                 /\ \A v \in headVis \cup {h} :
                        wrapping_sub(chead[c], tail) =< wrapping_sub(v, tail)
      <3>1. /\ wrapping_sub(chead[c], tail) =< D
            /\ chead[c] = head \/ slots[slot(chead[c])].kind = "Len"
            /\ \A v \in headVis : wrapping_sub(chead[c], tail) =< wrapping_sub(v, tail)
        BY <2>1 DEF IndInv, ConsumerInv
      <3>2. chead[c] \in Usize
        BY DEF IndInv, TypeOK
      <3>3. wrapping_sub(chead[c], tail) \in Nat
        BY <1>2, <3>2, SubType
      <3> QED BY <1>2, <1>3, <1>6, <1>9, <3>1, <3>3
    <2> QED BY <1>8, <2>1 DEF IndInv, ConsumerInv
  <1>15. FramingInv'
    <2>1. tail = h \/ slots[slot(tail)].kind = "Len"
      BY <1>9 DEF IndInv, FramingInv
    <2>2. \A v \in headVis \cup {h} : v = h \/ slots[slot(v)].kind = "Len"
      BY <1>9 DEF IndInv, FramingInv
    <2>3. ASSUME NEW i \in Usize, wrapping_sub(i, tail) < wrapping_sub(h, tail),
                 slots[slot(i)].kind = "Len"
          PROVE  LET m == slots[slot(i)].len
                     next == wrapping_add(i, m + 1)
                 IN  /\ wrapping_sub(i, tail) + m + 1 =< wrapping_sub(h, tail)
                     /\ \A k \in 1 .. m : slots[slot(wrapping_add(i, k))].kind = "Value"
                     /\ next = h \/ slots[slot(next)].kind = "Len"
      <3> DEFINE d == wrapping_sub(i, tail)
      <3>0. d \in Nat /\ d < D + (len + 1)
        BY <1>2, <1>6, <2>3, SubType
      <3>1. CASE d < D
        <4> DEFINE m == slots[slot(i)].len
                   next == wrapping_add(i, m + 1)
        <4>1. m \in Nat
          BY <1>2, <2>3, SlotType, SlotKinds
        <4>2. /\ d + m + 1 =< D
              /\ \A k \in 1 .. m : slots[slot(wrapping_add(i, k))].kind = "Value"
              /\ next = head \/ slots[slot(next)].kind = "Len"
          BY <2>3, <3>1 DEF IndInv, FramingInv
        <4>a. len \in Nat
          BY <1>2
        <4>3. d + m + 1 =< wrapping_sub(h, tail)
          <5> HIDE DEF d, D, m, len, next
          <5> QED BY ONLY <1>3, <1>6, <3>0, <4>1, <4>2, <4>a
        <4>4. next = h \/ slots[slot(next)].kind = "Len"
          BY <1>9, <4>2
        <4> QED BY <4>2, <4>3, <4>4
      <3>2. CASE d = D
        <4>1. i = head
          BY <1>2, <3>2, SubEqual
        <4>2. slots[slot(i)].len = len
          BY <1>9, <4>1
        <4>3. d + len + 1 =< wrapping_sub(h, tail)
          BY <1>2, <1>3, <1>6, <3>2
        <4> QED BY <1>1, <4>1, <4>2, <4>3 DEF h
      <3>3. CASE d > D
        <4> DEFINE k == d - D
        <4>1. k \in 1 .. len
          BY <1>2, <1>3, <3>0, <3>3
        <4>2. /\ wrapping_add(head, k) \in Usize
              /\ wrapping_sub(wrapping_add(head, k), tail) = D + k
          BY <1>1, <1>2, <4>1, WritePosition
        <4>3. wrapping_sub(wrapping_add(head, k), tail) = wrapping_sub(i, tail)
          BY <1>3, <3>0, <4>2
        <4>4. i = wrapping_add(head, k)
          BY <1>2, <4>2, <4>3, SubEqual
        <4> QED BY <1>1, <2>3, <4>1, <4>4
      <3> QED BY <1>3, <3>0, <3>1, <3>2, <3>3
    <2> QED BY <1>8, <2>1, <2>2, <2>3 DEF FramingInv
  <1>16. NeverUnreachable'
    BY <1>8 DEF IndInv, NeverUnreachable
  <1> QED BY <1>10, <1>11, <1>12, <1>13, <1>14, <1>15, <1>16 DEF IndInv

-----------------------------------------------------------------------------
\* Consumer steps

\* RingBuffer::consumer preserves the invariant.
LEMMA ConsumerTryLockInv ==
    ASSUME IndInv, NEW c \in Consumers, ConsumerTryLock(c) PROVE IndInv'
  <1> USE DEF ConsumerTryLock, IndInv, bufVars, prodVars, consVars
  <1>1. TypeOK'
    BY DEF TypeOK, ConsumerPC
  <1>2. LockInv'
    BY DEF TypeOK, LockInv
  <1>3. WindowInv' /\ FramingInv'
    BY DEF WindowInv, FramingInv
  <1>4. NeverUnreachable'
    BY DEF TypeOK, NeverUnreachable
  <1>5. ProducerInv'
    BY DEF ProducerInv
  <1>6. ConsumerInv'
    BY DEF TypeOK, ConsumerInv, LockInv
  <1> QED BY <1>1, <1>2, <1>3, <1>4, <1>5, <1>6

\* The load of head in RingBuffer::consumer preserves the invariant, however
\* stale the value it returns.
LEMMA ConsumerLoadHeadInv ==
    ASSUME IndInv, NEW c \in Consumers, ConsumerLoadHead(c) PROVE IndInv'
  <1> USE DEF ConsumerLoadHead, IndInv, bufVars, prodVars, consVars
  <1> PICK h \in headVis :
         LoadHead(h) /\ chead' = [chead EXCEPT ![c] = h]
    OBVIOUS
  <1> USE DEF LoadHead
  <1>1. TypeOK'
    BY DEF TypeOK, ConsumerPC
  <1>2. LockInv'
    BY DEF TypeOK, LockInv
  <1>3. WindowInv' /\ FramingInv'
    BY DEF WindowInv, FramingInv
  <1>4. NeverUnreachable'
    BY DEF TypeOK, NeverUnreachable
  <1>5. ProducerInv'
    BY DEF ProducerInv
  <1>6. ConsumerInv'
    BY DEF TypeOK, ConsumerInv, LockInv, WindowInv, FramingInv
  <1> QED BY <1>1, <1>2, <1>3, <1>4, <1>5, <1>6

\* The load of tail in RingBuffer::consumer preserves the invariant.
LEMMA ConsumerLoadTailInv ==
    ASSUME IndInv, NEW c \in Consumers, ConsumerLoadTail(c) PROVE IndInv'
  <1> USE DEF ConsumerLoadTail, IndInv, bufVars, prodVars, consVars
  <1>1. TypeOK'
    BY DEF TypeOK, ConsumerPC
  <1>2. LockInv'
    BY DEF TypeOK, LockInv
  <1>3. WindowInv' /\ FramingInv'
    BY DEF WindowInv, FramingInv
  <1>4. NeverUnreachable'
    BY DEF TypeOK, NeverUnreachable
  <1>5. ProducerInv'
    BY DEF ProducerInv
  <1>6. ConsumerInv'
    BY DEF TypeOK, ConsumerInv, LockInv
  <1> QED BY <1>1, <1>2, <1>3, <1>4, <1>5, <1>6

\* The first test of pop_slice preserves the invariant.
LEMMA PopSliceInv ==
    ASSUME IndInv, NEW c \in Consumers, NEW outLen \in OutLens,
           PopSlice(c, outLen)
    PROVE  IndInv'
  <1> USE DEF PopSlice, IndInv, bufVars, prodVars, consVars
  <1>1. TypeOK'
    BY OutLensAssumption DEF TypeOK, ConsumerPC
  <1>2. LockInv'
    BY DEF TypeOK, LockInv
  <1>3. WindowInv' /\ FramingInv'
    BY DEF WindowInv, FramingInv
  <1>4. NeverUnreachable'
    BY DEF TypeOK, NeverUnreachable
  <1>5. ProducerInv'
    BY DEF ProducerInv
  <1>6. ConsumerInv'
    BY DEF TypeOK, ConsumerInv, LockInv
  <1> QED BY <1>1, <1>2, <1>3, <1>4, <1>5, <1>6

\* The reload of head in pop_slice preserves the invariant.
LEMMA ConsumerReloadHeadInv ==
    ASSUME IndInv, NEW c \in Consumers, ConsumerReloadHead(c) PROVE IndInv'
  <1> USE DEF ConsumerReloadHead, IndInv, bufVars, prodVars, consVars
  <1> PICK h \in headVis :
         /\ LoadHead(h)
         /\ chead' = [chead EXCEPT ![c] = h]
         /\ cpc' = [cpc EXCEPT ![c] = IF ctail[c] = h THEN "ready" ELSE "read_len"]
    OBVIOUS
  <1> USE DEF LoadHead
  <1>1. TypeOK'
    BY DEF TypeOK, ConsumerPC
  <1>2. LockInv'
    BY DEF TypeOK, LockInv
  <1>3. WindowInv' /\ FramingInv'
    BY DEF WindowInv, FramingInv
  <1>4. NeverUnreachable'
    BY DEF TypeOK, NeverUnreachable
  <1>5. ProducerInv'
    BY DEF ProducerInv
  <1>6. ConsumerInv'
    BY DEF TypeOK, ConsumerInv, LockInv, WindowInv, FramingInv
  <1> QED BY <1>1, <1>2, <1>3, <1>4, <1>5, <1>6

\* Dropping the Consumer preserves the invariant.
LEMMA ConsumerDropInv ==
    ASSUME IndInv, NEW c \in Consumers, ConsumerDrop(c) PROVE IndInv'
  <1> USE DEF ConsumerDrop, IndInv, bufVars, prodVars, consVars
  <1>0. 0 \in Usize
    BY Sizes DEF Usize
  <1>1. TypeOK'
    <2>1. consumer_locked' \in BOOLEAN
      BY Zenon
    <2>2. /\ cpc' \in [Consumers -> ConsumerPC] /\ cap' \in [Consumers -> Nat]
          /\ chead' \in [Consumers -> Usize] /\ ctail' \in [Consumers -> Usize]
      BY <1>0 DEF TypeOK, ConsumerPC
    <2> QED BY ONLY IndInv, ConsumerDrop(c), <2>1, <2>2 DEF TypeOK
  <1>2. LockInv'
    <2>1. \A q \in Consumers : cpc[q] # "idle" => q = c
      BY Zenon DEF LockInv
    <2>2. \A q \in Consumers : cpc'[q] = "idle"
      BY <2>1 DEF TypeOK
    <2> QED BY <2>2 DEF LockInv
  <1>3. WindowInv' /\ FramingInv'
    BY DEF WindowInv, FramingInv
  <1>4. ProducerInv'
    BY DEF ProducerInv
  <1>5. ConsumerInv' /\ NeverUnreachable'
    BY DEF TypeOK, ConsumerInv, NeverUnreachable
  <1> QED BY <1>1, <1>2, <1>3, <1>4, <1>5

\* The record a consumer is reading ends at or before the head it acquired.
LEMMA RecordWithinHead ==
    ASSUME IndInv, NEW c \in Consumers, cpc[c] = "read"
    PROVE  /\ clen[c] \in Nat
           /\ clen[c] + 1 =< wrapping_sub(chead[c], tail)
           /\ clen[c] + 1 =< wrapping_sub(head, tail)
           /\ \A k \in 1 .. clen[c] : slots[slot(wrapping_add(tail, k))].kind = "Value"
           /\ \/ wrapping_add(tail, clen[c] + 1) = head
              \/ slots[slot(wrapping_add(tail, clen[c] + 1))].kind = "Len"
  <1> DEFINE len == clen[c]
  <1>1. /\ head \in Usize /\ tail \in Usize /\ chead[c] \in Usize /\ len \in Nat
    BY DEF IndInv, TypeOK
  <1>2. /\ chead[c] # tail
        /\ wrapping_sub(chead[c], tail) =< wrapping_sub(head, tail)
        /\ slots[slot(tail)] = Len_(len)
        /\ chead[c] = head \/ slots[slot(chead[c])].kind = "Len"
    BY DEF IndInv, ConsumerInv
  <1>3. /\ wrapping_sub(tail, tail) = 0 /\ wrapping_sub(chead[c], tail) # 0
        /\ wrapping_sub(chead[c], tail) \in Nat /\ wrapping_sub(head, tail) \in Nat
        /\ wrapping_sub(head, tail) =< N
    BY <1>1, <1>2, SubSelf, SubEqual, SubType DEF IndInv, WindowInv
  <1>4. /\ slots[slot(tail)].kind = "Len" /\ slots[slot(tail)].len = len
    BY <1>2, SlotKinds
  <1>5. wrapping_sub(tail, tail) < wrapping_sub(head, tail)
    BY <1>2, <1>3
  <1>6. /\ wrapping_sub(tail, tail) + len + 1 =< wrapping_sub(head, tail)
        /\ \A k \in 1 .. len : slots[slot(wrapping_add(tail, k))].kind = "Value"
        /\ \/ wrapping_add(tail, len + 1) = head
           \/ slots[slot(wrapping_add(tail, len + 1))].kind = "Len"
    BY <1>1, <1>4, <1>5 DEF IndInv, FramingInv
  <1>7. len + 1 =< wrapping_sub(head, tail)
    BY <1>1, <1>3, <1>6
  <1>8. len + 1 =< wrapping_sub(chead[c], tail)
    <2> SUFFICES ASSUME wrapping_sub(chead[c], tail) =< len PROVE FALSE
      BY <1>1, <1>3
    <2> DEFINE k == wrapping_sub(chead[c], tail)
    <2>1. k \in 1 .. len /\ k + 0 < UsizeMod /\ k \in Nat /\ 0 + k < UsizeMod
      BY <1>1, <1>3, <1>7, Sizes
    <2>2. /\ wrapping_add(tail, k) \in Usize
          /\ wrapping_sub(wrapping_add(tail, k), tail) = wrapping_sub(tail, tail) + k
      BY <1>1, <1>3, <2>1, AddDist
    <2>3. wrapping_add(tail, k) = chead[c]
      BY <1>1, <1>3, <2>2, SubEqual
    <2>4. slots[slot(chead[c])].kind = "Value"
      BY <1>6, <2>1, <2>3
    <2>5. chead[c] = head
      BY <1>2, <2>4
    <2> QED BY <1>1, <1>3, <1>7, <2>5
  <1> QED BY <1>1, <1>6, <1>7, <1>8

\* Reading the length in pop_slice finds a length, and preserves the invariant.
LEMMA ReadLenInv ==
    ASSUME IndInv, NEW c \in Consumers, ReadLen(c) PROVE IndInv'
  <1> DEFINE s == slots[slot(tail)]
  <1>1. cpc[c] = "read_len" /\ ctail[c] = tail /\ chead[c] # tail
    <2>1. cpc[c] = "read_len"
      BY DEF ReadLen
    <2> QED BY <2>1 DEF IndInv, ConsumerInv
  <1>2. /\ head \in Usize /\ tail \in Usize /\ chead[c] \in Usize
        /\ slots \in [0 .. N - 1 -> Slot]
    BY DEF IndInv, TypeOK
  <1>3. s \in Slot /\ s.kind = "Len"
    <2>1. wrapping_sub(chead[c], tail) =< wrapping_sub(head, tail)
      BY <1>1 DEF IndInv, ConsumerInv
    <2>2. /\ wrapping_sub(tail, tail) = 0 /\ wrapping_sub(chead[c], tail) # 0
          /\ wrapping_sub(chead[c], tail) \in Nat
      <3>1. wrapping_sub(tail, tail) = 0
        BY <1>2, SubSelf
      <3>2. wrapping_sub(chead[c], tail) # wrapping_sub(tail, tail)
        BY <1>1, <1>2, SubEqual
      <3> QED BY <1>2, <3>1, <3>2, SubType
    <2>3. tail # head
      BY <1>2, <2>1, <2>2
    <2> QED BY <1>2, <2>3, SlotType DEF IndInv, FramingInv
  <1>4. s.len \in 0 .. N /\ s = Len_(s.len)
    BY <1>3, SlotKinds
  <1>5. /\ cpc' = [cpc EXCEPT ![c] = IF s.len =< cap[c] THEN "read" ELSE "ready"]
        /\ clen' = [clen EXCEPT ![c] = IF s.len =< cap[c] THEN s.len ELSE @]
        /\ UNCHANGED <<slots, head, tail, producer_locked, consumer_locked, tailVis,
                       headVis, ppc, phead, ptail, pvals, pi, chead, ctail, cap, ci,
                       cout, popped>>
    BY <1>1, <1>3 DEF ReadLen, ReadIndex, bufVars, prodVars
  <1> HIDE DEF s
  <1>6. TypeOK'
    <2>1. cpc' \in [Consumers -> ConsumerPC]
      BY <1>5 DEF IndInv, TypeOK, ConsumerPC
    <2>2. clen' \in [Consumers -> Nat]
      BY <1>4, <1>5 DEF IndInv, TypeOK
    <2> QED BY <1>5, <2>1, <2>2 DEF IndInv, TypeOK
  <1>7. LockInv' /\ NeverUnreachable'
    <2>1. \A d \in Consumers : /\ cpc'[d] = "idle" <=> cpc[d] = "idle"
                               /\ cpc'[d] # "unreachable"
      BY <1>1, <1>5 DEF IndInv, TypeOK, NeverUnreachable
    <2> QED BY <1>5, <2>1 DEF IndInv, LockInv, NeverUnreachable
  <1>8. WindowInv' /\ FramingInv'
    BY <1>5 DEF IndInv, WindowInv, FramingInv
  <1>9. ProducerInv'
    BY <1>5 DEF IndInv, ProducerInv
  <1>10. ConsumerInv'
    <2>1. ASSUME NEW d \in Consumers, d # c
          PROVE  cpc'[d] = cpc[d] /\ clen'[d] = clen[d]
      BY <1>5, <2>1 DEF IndInv, TypeOK
    <2>2. /\ cpc'[c] \in {"read", "ready"} /\ (cpc'[c] = "read" => clen'[c] = s.len)
      BY <1>5 DEF IndInv, TypeOK
    <2>3. ci[c] = 0 /\ clen'[c] \in Nat
      BY <1>1, <1>6 DEF IndInv, ConsumerInv, TypeOK
    <2> QED BY <1>1, <1>4, <1>5, <2>1, <2>2, <2>3 DEF IndInv, ConsumerInv, s
  <1> QED BY <1>6, <1>7, <1>8, <1>9, <1>10 DEF IndInv

\* Reading a value in pop_slice finds a value, and preserves the invariant.
LEMMA ReadValueInv ==
    ASSUME IndInv, NEW c \in Consumers, ReadValue(c) PROVE IndInv'
  <1> DEFINE n == ci[c] + 1
             s == slots[slot(wrapping_add(tail, n))]
  <1>1. cpc[c] = "read" /\ ctail[c] = tail /\ ci[c] < clen[c]
    <2>1. cpc[c] = "read" /\ ci[c] < clen[c]
      BY DEF ReadValue
    <2> QED BY <2>1 DEF IndInv, ConsumerInv
  <1>2. /\ head \in Usize /\ tail \in Usize /\ slots \in [0 .. N - 1 -> Slot]
        /\ ci[c] \in Nat /\ clen[c] \in Nat
    BY DEF IndInv, TypeOK
  <1>3. n \in 1 .. clen[c] /\ n < UsizeMod /\ n \in Nat
    <2>1. clen[c] + 1 =< wrapping_sub(head, tail) /\ wrapping_sub(head, tail) =< N
          /\ wrapping_sub(head, tail) \in Nat
      BY <1>1, <1>2, RecordWithinHead, SubType DEF IndInv, WindowInv
    <2> QED BY <1>1, <1>2, <2>1, Sizes
  <1>4. s \in Slot /\ s.kind = "Value" /\ s.val \in Values
    <2>1. s.kind = "Value"
      BY <1>1, <1>3, RecordWithinHead
    <2>2. s \in Slot
      <3>1. tail \in Nat
        BY <1>2 DEF Usize
      <3>2. wrapping_add(tail, n) \in Usize
        BY <1>3, <3>1, AddType
      <3> QED BY <1>2, <3>2, SlotType
    <2> QED BY <2>1, <2>2, SlotKinds
  <1>5. wrapping_add(wrapping_add(ctail[c], 1), ci[c]) = wrapping_add(tail, n)
    BY <1>1, <1>2, <1>3, AddAdd
  <1>6. /\ cout' = [cout EXCEPT ![c] = Append(@, s.val)]
        /\ ci' = [ci EXCEPT ![c] = @ + 1]
        /\ cpc' = [cpc EXCEPT ![c] = @]
        /\ UNCHANGED <<slots, head, tail, producer_locked, consumer_locked, tailVis,
                       headVis, ppc, phead, ptail, pvals, pi, chead, ctail, cap,
                       clen, popped>>
    BY <1>1, <1>4, <1>5 DEF ReadValue, ReadIndex, bufVars, prodVars
  <1> HIDE DEF s
  <1>7. cpc' = cpc
    BY <1>6 DEF IndInv, TypeOK
  <1>8. TypeOK'
    <2>1. ci' \in [Consumers -> Nat]
      BY <1>2, <1>6 DEF IndInv, TypeOK
    <2>2. cout' \in [Consumers -> Seq(Values)]
      BY <1>4, <1>6 DEF IndInv, TypeOK
    <2> QED BY <1>6, <1>7, <2>1, <2>2 DEF IndInv, TypeOK
  <1>9. LockInv' /\ NeverUnreachable' /\ WindowInv' /\ FramingInv'
    BY <1>6, <1>7 DEF IndInv, LockInv, NeverUnreachable, WindowInv, FramingInv
  <1>10. ProducerInv'
    BY <1>6 DEF IndInv, ProducerInv
  <1>11. ConsumerInv'
    <2>1. ASSUME NEW d \in Consumers, d # c PROVE ci'[d] = ci[d]
      BY <1>6, <2>1 DEF IndInv, TypeOK
    <2>2. ci'[c] = n /\ n =< clen[c]
      BY <1>3, <1>6 DEF IndInv, TypeOK
    <2> QED BY <1>1, <1>6, <1>7, <2>1, <2>2 DEF IndInv, ConsumerInv
  <1> QED BY <1>8, <1>9, <1>10, <1>11 DEF IndInv

\* The store of tail in pop_slice preserves the invariant: tail moves to the
\* next length slot or to head.
LEMMA FinishPopInv ==
    ASSUME IndInv, NEW c \in Consumers, FinishPop(c) PROVE IndInv'
  <1> DEFINE n == clen[c] + 1
             t == wrapping_add(tail, n)
             D == wrapping_sub(head, tail)
  <1>1. cpc[c] = "read" /\ ctail[c] = tail
    <2>1. cpc[c] = "read"
      BY DEF FinishPop
    <2> QED BY <2>1 DEF IndInv, ConsumerInv
  <1>2. /\ head \in Usize /\ tail \in Usize /\ slots \in [0 .. N - 1 -> Slot]
        /\ chead[c] \in Usize /\ tailVis \subseteq Usize /\ headVis \subseteq Usize
        /\ cout[c] \in Seq(Values)
    BY DEF IndInv, TypeOK
  <1>3. /\ clen[c] \in Nat /\ n =< wrapping_sub(chead[c], tail) /\ n =< D
        /\ t = head \/ slots[slot(t)].kind = "Len"
    BY <1>1, RecordWithinHead
  <1>4. D \in Nat /\ D =< N /\ wrapping_sub(chead[c], tail) \in Nat
    BY <1>2, SubType DEF IndInv, WindowInv
  <1>5. n \in 0 .. UsizeMod - 1 /\ n \in Nat /\ n >= 1
    BY <1>3, <1>4, Sizes
  <1>6. \A i \in Usize : n =< wrapping_sub(i, tail) =>
                           wrapping_sub(i, t) = wrapping_sub(i, tail) - n
    BY <1>2, <1>5, ShiftDist
  <1>7. t \in Usize
    BY <1>2, <1>3, <1>5, ShiftDist
  <1>8. wrapping_add(wrapping_add(ctail[c], 1), clen[c]) = t
    <2>1. clen[c] + 1 < UsizeMod
      BY <1>3, <1>5, Sizes
    <2> QED BY <1>1, <1>2, <1>3, <2>1, AddAdd
  <1>9. /\ tail' = t /\ tailVis' = tailVis \cup {t}
        /\ ctail' = [ctail EXCEPT ![c] = t] /\ cpc' = [cpc EXCEPT ![c] = "ready"]
        /\ popped' = cout[c]
        /\ clen' = [clen EXCEPT ![c] = 0] /\ ci' = [ci EXCEPT ![c] = 0]
        /\ cout' = [cout EXCEPT ![c] = <<>>]
        /\ UNCHANGED <<slots, head, producer_locked, consumer_locked, headVis,
                       ppc, phead, ptail, pvals, pi, chead, cap>>
    BY <1>8 DEF FinishPop, prodVars
  <1>10. wrapping_sub(head, t) = D - n
    BY <1>2, <1>3, <1>6
  <1>11. \A v \in headVis : /\ v \in Usize /\ wrapping_sub(v, tail) \in Nat
                            /\ n =< wrapping_sub(v, tail)
                            /\ wrapping_sub(v, t) = wrapping_sub(v, tail) - n
    <2>1. \A v \in headVis : /\ v \in Usize /\ wrapping_sub(v, tail) \in Nat
                             /\ wrapping_sub(chead[c], tail) =< wrapping_sub(v, tail)
      BY <1>1, <1>2, SubType DEF IndInv, ConsumerInv
    <2>2. \A v \in headVis : n =< wrapping_sub(v, tail)
      BY <1>3, <1>4, <1>5, <2>1
    <2> QED BY <1>6, <2>1, <2>2
  <1>f. \A i \in Usize : wrapping_sub(i, t) < wrapping_sub(head, t) =>
                           /\ wrapping_sub(i, tail) = wrapping_sub(i, t) + n
                           /\ wrapping_sub(i, tail) < D
    <2> SUFFICES ASSUME NEW i \in Usize, wrapping_sub(i, t) < wrapping_sub(head, t)
                 PROVE  /\ wrapping_sub(i, tail) = wrapping_sub(i, t) + n
                        /\ wrapping_sub(i, tail) < D
      OBVIOUS
    <2>1. wrapping_sub(i, t) \in Nat /\ wrapping_sub(i, tail) \in Nat
      BY <1>2, <1>7, SubType
    <2>2. wrapping_sub(i, t) + n < UsizeMod
      BY <1>4, <1>5, <1>10, <2>1, Sizes
    <2>3. wrapping_sub(i, t) = wrapping_sub(i, tail) - n
      BY <1>2, <1>5, <2>2, ShiftDist
    <2> QED BY <1>4, <1>5, <1>10, <2>1, <2>3
  <1> HIDE DEF t
  <1>12. TypeOK'
    <2>1. cpc' \in [Consumers -> ConsumerPC]
      BY <1>9 DEF IndInv, TypeOK, ConsumerPC
    <2> QED BY <1>2, <1>7, <1>9, <2>1 DEF IndInv, TypeOK
  <1>13. LockInv' /\ NeverUnreachable'
    <2>1. \A d \in Consumers : /\ cpc'[d] = "idle" <=> cpc[d] = "idle"
                               /\ cpc'[d] # "unreachable"
      BY <1>1, <1>9 DEF IndInv, TypeOK, NeverUnreachable
    <2> QED BY <1>9, <2>1 DEF IndInv, LockInv, NeverUnreachable
  <1>14. WindowInv'
    <2>1. \A v \in tailVis : /\ D =< wrapping_sub(head, v) /\ wrapping_sub(head, v) =< N
                             /\ wrapping_sub(head, v) \in Nat
      BY <1>2, SubType DEF IndInv, WindowInv
    <2>2. \A v \in tailVis \cup {t} : /\ wrapping_sub(head, t) =< wrapping_sub(head, v)
                                      /\ wrapping_sub(head, v) =< N
      BY <1>4, <1>5, <1>10, <2>1, Sizes
    <2>3. \A v \in headVis : wrapping_sub(v, t) =< wrapping_sub(head, t)
      <3>1. \A v \in headVis : wrapping_sub(v, tail) =< D
        BY DEF IndInv, WindowInv
      <3> QED BY <1>4, <1>5, <1>10, <1>11, <3>1
    <2>4. head \in headVis
      BY DEF IndInv, WindowInv
    <2>5. wrapping_sub(head, t) =< N
      BY <2>2
    <2> QED BY <1>9, <2>2, <2>3, <2>4, <2>5 DEF WindowInv
  <1>15. ProducerInv'
    <2>1. ASSUME NEW p \in Producers, ppc[p] \in {"ready", "reload", "write", "publish"}
          PROVE  wrapping_sub(head, t) =< wrapping_sub(head, ptail[p])
      <3>1. D =< wrapping_sub(head, ptail[p])
        BY <2>1 DEF IndInv, ProducerInv, WindowInv
      <3>2. ptail[p] \in Usize
        BY DEF IndInv, TypeOK
      <3>3. wrapping_sub(head, ptail[p]) \in Nat
        BY <1>2, <3>2, SubType
      <3> QED BY <1>4, <1>5, <1>10, <3>1, <3>3
    <2> QED BY <1>9, <2>1 DEF IndInv, ProducerInv
  <1>16. ConsumerInv'
    <2>1. \A d \in Consumers : d # c => cpc'[d] = "idle"
      BY <1>1, <1>9 DEF IndInv, LockInv, TypeOK
    <2>2. \A d \in Consumers : ci'[d] = 0
      BY <1>1, <1>9, <2>1 DEF IndInv, ConsumerInv, TypeOK, LockInv
    <2>3. cpc'[c] = "ready" /\ ctail'[c] = t
      BY <1>9 DEF IndInv, TypeOK
    <2>4. wrapping_sub(chead[c], t) = wrapping_sub(chead[c], tail) - n
      BY <1>2, <1>3, <1>6
    <2>5. /\ wrapping_sub(chead[c], tail) =< D
          /\ chead[c] = head \/ slots[slot(chead[c])].kind = "Len"
          /\ \A v \in headVis : wrapping_sub(chead[c], tail) =< wrapping_sub(v, tail)
      BY <1>1 DEF IndInv, ConsumerInv
    <2>6. /\ wrapping_sub(chead[c], t) =< wrapping_sub(head, t)
          /\ \A v \in headVis : wrapping_sub(chead[c], t) =< wrapping_sub(v, t)
      BY <1>4, <1>5, <1>10, <1>11, <2>4, <2>5
    <2> QED BY <1>9, <2>1, <2>2, <2>3, <2>5, <2>6 DEF ConsumerInv
  <1>17. FramingInv'
    <2>1. \A v \in headVis : v = head \/ slots[slot(v)].kind = "Len"
      BY DEF IndInv, FramingInv
    <2>2. ASSUME NEW i \in Usize, wrapping_sub(i, t) < wrapping_sub(head, t),
                 slots[slot(i)].kind = "Len"
          PROVE  LET m == slots[slot(i)].len
                     next == wrapping_add(i, m + 1)
                 IN  /\ wrapping_sub(i, t) + m + 1 =< wrapping_sub(head, t)
                     /\ \A k \in 1 .. m : slots[slot(wrapping_add(i, k))].kind = "Value"
                     /\ next = head \/ slots[slot(next)].kind = "Len"
      <3> DEFINE m == slots[slot(i)].len
                 next == wrapping_add(i, m + 1)
      <3>1. m \in Nat
        BY <1>2, <2>2, SlotType, SlotKinds
      <3>2. wrapping_sub(i, tail) = wrapping_sub(i, t) + n /\ wrapping_sub(i, tail) < D
        BY <1>f, <2>2
      <3>3. /\ wrapping_sub(i, tail) + m + 1 =< D
            /\ \A k \in 1 .. m : slots[slot(wrapping_add(i, k))].kind = "Value"
            /\ next = head \/ slots[slot(next)].kind = "Len"
        BY <2>2, <3>2 DEF IndInv, FramingInv
      <3>4. wrapping_sub(i, t) \in Nat
        BY <1>7, SubType
      <3>5. wrapping_sub(i, t) + m + 1 =< wrapping_sub(head, t)
        BY <1>4, <1>5, <1>10, <3>1, <3>2, <3>3, <3>4
      <3> QED BY <3>3, <3>5
    <2> QED BY <1>3, <1>9, <2>1, <2>2 DEF FramingInv
  <1> QED BY <1>12, <1>13, <1>14, <1>15, <1>16, <1>17 DEF IndInv

-----------------------------------------------------------------------------
\* The invariant holds in every reachable state.

\* Every step preserves the invariant.
LEMMA NextInv == IndInv /\ [Next]_vars => IndInv'
  <1> SUFFICES ASSUME IndInv, [Next]_vars PROVE IndInv'
    OBVIOUS
  <1>1. ASSUME NEW p \in Producers, ProducerStep(p) PROVE IndInv'
    BY <1>1, ProducerTryLockInv, ProducerLoadHeadInv, ProducerLoadTailInv, PushSliceInv,
       ProducerReloadTailInv, WriteValueInv, WriteLenInv, PublishInv, ProducerDropInv
       DEF ProducerStep, ProducerLocal
  <1>2. ASSUME NEW c \in Consumers, ConsumerStep(c) PROVE IndInv'
    BY <1>2, ConsumerTryLockInv, ConsumerLoadHeadInv, ConsumerLoadTailInv, PopSliceInv,
       ConsumerReloadHeadInv, ReadLenInv, ReadValueInv, FinishPopInv, ConsumerDropInv
       DEF ConsumerStep, ConsumerLocal
  <1>3. CASE UNCHANGED vars
    <2> USE <1>3 DEF vars, bufVars, prodVars, consVars
    <2>1. TypeOK' /\ LockInv' /\ WindowInv' /\ FramingInv' /\ NeverUnreachable'
      BY DEF IndInv, TypeOK, LockInv, WindowInv, FramingInv, NeverUnreachable
    <2>2. ProducerInv' /\ ConsumerInv'
      BY DEF IndInv, ProducerInv, ConsumerInv
    <2> QED BY <2>1, <2>2 DEF IndInv
  <1> QED BY <1>1, <1>2, <1>3 DEF Next

\* Every reachable state of the buffer satisfies the inductive invariant: the
\* locks exclude, every index that can still be loaded lies in one window of N
\* positions, and the published slots form a chain of whole records.
THEOREM IndInvHolds == Spec => []IndInv
  BY InitInv, NextInv, PTL DEF Spec

\* All variables keep their types; in particular a length slot never holds
\* more than N.
THEOREM TypeCorrect == Spec => []TypeOK
  <1>1. IndInv => TypeOK
    BY DEF IndInv
  <1> QED BY <1>1, IndInvHolds, PTL

\* fits() never underflows, for every power-of-two N and every usize width.
THEOREM FitsNeverUnderflows == Spec => []NoUnderflow
  <1>1. IndInv => NoUnderflow
    BY DEF IndInv, NoUnderflow, ProducerInv
  <1> QED BY <1>1, IndInvHolds, PTL

\* Neither unreachable!() arm of pop_slice is reachable.
THEOREM PopNeverPanics == Spec => []NeverUnreachable
  <1>1. IndInv => NeverUnreachable
    BY DEF IndInv
  <1> QED BY <1>1, IndInvHolds, PTL

\* The slot a producer writes lies outside the published window and inside the
\* one its acquired tail freed.
LEMMA WriteIndexFree ==
    ASSUME IndInv, NEW p \in Producers, Writing(p)
    PROVE  /\ WriteIndex(p) \in Usize
           /\ wrapping_sub(WriteIndex(p), ptail[p]) < N
           /\ wrapping_sub(WriteIndex(p), tail) >= wrapping_sub(head, tail)
           /\ wrapping_sub(WriteIndex(p), tail) < N
  <1>1. ppc[p] = "write" /\ phead[p] = head /\ head \in Usize /\ tail \in Usize
        /\ pi[p] \in Nat /\ Len(pvals[p]) \in Nat /\ pi[p] =< Len(pvals[p])
    <2>1. ppc[p] = "write"
      BY DEF Writing
    <2>2. phead[p] = head /\ pi[p] =< Len(pvals[p])
      BY <2>1 DEF IndInv, ProducerInv
    <2> QED BY <2>1, <2>2 DEF IndInv, TypeOK
  <1>a. wrapping_sub(head, tail) \in Nat
    BY <1>1, SubType
  <1>2. CASE pi[p] < Len(pvals[p])
    <2> DEFINE n == pi[p] + 1
    <2>1. n \in Nat /\ n =< Len(pvals[p])
      BY <1>1, <1>2
    <2>2. /\ wrapping_add(head, n) \in Usize
          /\ wrapping_sub(wrapping_add(head, n), tail) = wrapping_sub(head, tail) + n
          /\ wrapping_sub(head, tail) + n < N
          /\ wrapping_sub(wrapping_add(head, n), ptail[p]) < N
      BY <1>1, <2>1, WritePosition
    <2>3. WriteIndex(p) = wrapping_add(head, n)
      BY <1>1, <1>2, <1>a, <2>1, <2>2, AddAdd, Sizes DEF WriteIndex
    <2> QED BY <1>a, <2>1, <2>2, <2>3
  <1>3. CASE pi[p] = Len(pvals[p])
    <2>1. WriteIndex(p) = head
      BY <1>1, <1>3 DEF WriteIndex
    <2>2. /\ wrapping_add(head, 0) = head
          /\ wrapping_sub(wrapping_add(head, 0), ptail[p]) < N
          /\ wrapping_sub(head, tail) + 0 < N
      BY <1>1, WritePosition, AddZero
    <2> QED BY <1>1, <1>a, <2>1, <2>2
  <1> QED BY <1>1, <1>2, <1>3

\* The slot a consumer reads lies inside what its acquired head published.
LEMMA ReadIndexPublished ==
    ASSUME IndInv, NEW c \in Consumers, Reading(c)
    PROVE  /\ ReadIndex(c) \in Usize /\ ctail[c] = tail
           /\ wrapping_sub(ReadIndex(c), tail) < wrapping_sub(chead[c], tail)
           /\ wrapping_sub(ReadIndex(c), tail) < wrapping_sub(head, tail)
  <1>1. /\ cpc[c] \in {"read_len", "read"} /\ head \in Usize /\ tail \in Usize
        /\ chead[c] \in Usize /\ ci[c] \in Nat /\ clen[c] \in Nat
    BY DEF Reading, IndInv, TypeOK
  <1>2. /\ ctail[c] = tail /\ chead[c] # tail
        /\ wrapping_sub(chead[c], tail) =< wrapping_sub(head, tail)
    BY <1>1 DEF IndInv, ConsumerInv
  <1>3. /\ wrapping_sub(chead[c], tail) \in Nat /\ wrapping_sub(head, tail) \in Nat
        /\ wrapping_sub(tail, tail) = 0 /\ wrapping_sub(chead[c], tail) # 0
    BY <1>1, <1>2, SubType, SubSelf, SubEqual
  <1>4. CASE cpc[c] = "read_len"
    BY <1>1, <1>2, <1>3, <1>4 DEF ReadIndex
  <1>5. CASE cpc[c] = "read"
    <2> DEFINE n == ci[c] + 1
    <2>1. ci[c] < clen[c] /\ n \in Nat /\ n =< clen[c]
      BY <1>1, <1>5 DEF Reading
    <2>2. clen[c] + 1 =< wrapping_sub(chead[c], tail) /\ wrapping_sub(head, tail) =< N
      BY <1>5, RecordWithinHead DEF IndInv, WindowInv
    <2>3. n < UsizeMod /\ wrapping_sub(tail, tail) + n < UsizeMod
      BY <1>1, <1>2, <1>3, <2>1, <2>2, Sizes
    <2>4. /\ wrapping_add(tail, n) \in Usize
          /\ wrapping_sub(wrapping_add(tail, n), tail) = wrapping_sub(tail, tail) + n
      BY <1>1, <2>1, <2>3, AddDist
    <2>5. ReadIndex(c) = wrapping_add(tail, n)
      BY <1>1, <1>2, <1>5, <2>1, <2>3, AddAdd DEF ReadIndex
    <2> QED BY <1>1, <1>2, <1>3, <2>1, <2>2, <2>4, <2>5
  <1> QED BY <1>1, <1>4, <1>5

\* Slots change hands only in release/acquire order: a producer writes only
\* what its acquired tail freed, a consumer reads only what its acquired head
\* published.
THEOREM HandoverIsOrdered == Spec => []HandoverOrdered
  <1>1. IndInv => HandoverOrdered
    <2> SUFFICES ASSUME IndInv PROVE HandoverOrdered
      OBVIOUS
    <2>1. \A p \in Producers : Writing(p) => wrapping_sub(WriteIndex(p), ptail[p]) < N
      BY WriteIndexFree
    <2>2. \A c \in Consumers : Reading(c) => wrapping_sub(ReadIndex(c), ctail[c])
                                             < wrapping_sub(chead[c], ctail[c])
      BY ReadIndexPublished
    <2> QED BY <2>1, <2>2 DEF HandoverOrdered
  <1> QED BY <1>1, IndInvHolds, PTL

\* No slot is accessed by two contexts at once when one of them writes it.
THEOREM DataRaceFree == Spec => []NoDataRace
  <1>1. IndInv => NoDataRace
    <2> SUFFICES ASSUME IndInv PROVE NoDataRace
      OBVIOUS
    <2>1. ASSUME NEW p \in Producers, NEW c \in Consumers, Writing(p), Reading(c)
          PROVE  slot(WriteIndex(p)) # slot(ReadIndex(c))
      <3>1. /\ WriteIndex(p) \in Usize /\ ReadIndex(c) \in Usize
            /\ wrapping_sub(WriteIndex(p), tail) >= wrapping_sub(head, tail)
            /\ wrapping_sub(WriteIndex(p), tail) < N
            /\ wrapping_sub(ReadIndex(c), tail) < wrapping_sub(head, tail)
        BY <2>1, WriteIndexFree, ReadIndexPublished
      <3>2. tail \in Usize /\ head \in Usize
        BY DEF IndInv, TypeOK
      <3>3. /\ wrapping_sub(WriteIndex(p), tail) \in Nat
            /\ wrapping_sub(ReadIndex(c), tail) \in Nat /\ wrapping_sub(head, tail) \in Nat
        BY <3>1, <3>2, SubType
      <3>4. WriteIndex(p) # ReadIndex(c) /\ wrapping_sub(ReadIndex(c), tail) < N
        BY <3>1, <3>3, Sizes
      <3> QED BY <3>1, <3>2, <3>4, WindowDistinct
    <2>2. \A p, q \in Producers : Writing(p) /\ Writing(q) => p = q
      BY DEF IndInv, LockInv, Writing
    <2> QED BY <2>1, <2>2 DEF NoDataRace
  <1> QED BY <1>1, IndInvHolds, PTL

-----------------------------------------------------------------------------
\* The refinement of RecordQueue.  First what the history says of positions.

\* A record in the queue, its start and its distance from tail.
LEMMA RecordPlace ==
    ASSUME IndInv, ChainInv, NEW k \in 1 .. Len(queue)
    PROVE  /\ queue[k] \in Records /\ queue[k] \in Seq(Values) /\ Len(queue[k]) \in Nat
           /\ starts[k] \in Usize /\ Offset(k) \in Nat /\ Weight(k) \in Nat
           /\ Offset(k) + Weight(k) =< wrapping_sub(head, tail)
           /\ wrapping_sub(head, tail) \in Nat /\ wrapping_sub(head, tail) =< N
  <1>1. queue[k] \in Records /\ starts[k] \in Usize
    BY DEF ChainInv
  <1>2. queue[k] \in Seq(Values) /\ Len(queue[k]) \in Nat
    BY <1>1, RecordsAssumption
  <1>3. tail \in Usize /\ head \in Usize /\ wrapping_sub(head, tail) =< N
    BY DEF IndInv, TypeOK, WindowInv
  <1>4. Offset(k) \in Nat /\ wrapping_sub(head, tail) \in Nat
    BY <1>1, <1>3, SubType DEF Offset
  <1>5. Offset(k) + Weight(k) =< wrapping_sub(head, tail)
    BY DEF ChainInv
  <1> QED BY <1>1, <1>2, <1>3, <1>4, <1>5 DEF Weight

\* Each of its slots lies between tail and head.
LEMMA RecordSlot ==
    ASSUME IndInv, ChainInv, NEW k \in 1 .. Len(queue), NEW i \in 1 .. Len(queue[k])
    PROVE  /\ wrapping_add(starts[k], i) \in Usize
           /\ wrapping_sub(wrapping_add(starts[k], i), tail) < wrapping_sub(head, tail)
  <1>1. tail \in Usize
    BY DEF IndInv, TypeOK
  <1>2. i \in Nat /\ i < Weight(k)
    BY RecordPlace DEF Weight
  <1>3. /\ wrapping_sub(starts[k], tail) \in Nat /\ Weight(k) \in Nat
        /\ wrapping_sub(starts[k], tail) + Weight(k) =< wrapping_sub(head, tail)
        /\ wrapping_sub(head, tail) \in Nat /\ wrapping_sub(head, tail) =< N
    BY RecordPlace DEF Offset
  <1>4. wrapping_sub(starts[k], tail) + i < UsizeMod
    BY <1>2, <1>3, Sizes
  <1> QED BY <1>1, <1>2, <1>3, <1>4, AddDist, RecordPlace

\* A write beyond head leaves the records in the queue as they are.
LEMMA StoredUnderWrite ==
    ASSUME IndInv, ChainInv, StoredInv, NEW w \in Usize, NEW x \in Slot,
           slots' = [slots EXCEPT ![slot(w)] = x],
           wrapping_sub(w, tail) >= wrapping_sub(head, tail), wrapping_sub(w, tail) < N,
           UNCHANGED <<head, tail, queue, starts>>
    PROVE  StoredInv'
  <1>f. ASSUME NEW i \in Usize, wrapping_sub(i, tail) < wrapping_sub(head, tail)
        PROVE  slots'[slot(i)] = slots[slot(i)]
    BY <1>f, WriteFrame
  <1> SUFFICES ASSUME NEW k \in 1 .. Len(queue)
               PROVE  /\ slots'[slot(starts[k])] = Len_(Len(queue[k]))
                      /\ \A i \in 1 .. Len(queue[k]) :
                           slots'[slot(wrapping_add(starts[k], i))] = Value(queue[k][i])
    BY DEF StoredInv
  <1>1. slots'[slot(starts[k])] = Len_(Len(queue[k]))
    <2>1. wrapping_sub(starts[k], tail) < wrapping_sub(head, tail)
      BY RecordPlace DEF Offset, Weight
    <2> QED BY <1>f, <2>1, RecordPlace DEF StoredInv
  <1>2. ASSUME NEW i \in 1 .. Len(queue[k])
        PROVE  slots'[slot(wrapping_add(starts[k], i))] = Value(queue[k][i])
    BY <1>f, RecordSlot DEF StoredInv
  <1> QED BY <1>1, <1>2

\* The chain and the stored records do not change while head, tail and the
\* slots do not.
LEMMA QueueFrame ==
    ASSUME ChainInv, StoredInv, UNCHANGED <<slots, head, tail, queue, starts>>
    PROVE  ChainInv' /\ StoredInv'
  <1>1. ChainInv'
    BY DEF ChainInv, Offset, Weight
  <1>2. StoredInv'
    BY DEF StoredInv
  <1> QED BY <1>1, <1>2

\* Nor does what the producer and the consumer know while their variables do
\* not.
LEMMA WriterFrame ==
    ASSUME WriterInv, UNCHANGED <<ppc, pvals, pi, slots, head>>
    PROVE  WriterInv'
  BY DEF WriterInv

\* The same for the consumer.
LEMMA ReaderFrame ==
    ASSUME ReaderInv, UNCHANGED <<cpc, clen, ci, cout, queue>>
    PROVE  ReaderInv'
  BY DEF ReaderInv

\* The steps of a producer that only look keep the queue invariant.
LEMMA ProducerLooks ==
    ASSUME IndInv, QueueInv, NEW p \in Producers, UNCHANGED <<queue, starts>>,
           \/ ProducerTryLock(p) \/ ProducerLoadHead(p) \/ ProducerLoadTail(p)
           \/ (\E values \in Records : PushSlice(p, values))
           \/ ProducerReloadTail(p) \/ ProducerDrop(p)
    PROVE  QueueInv'
  <1>1. UNCHANGED <<slots, head, tail, cpc, clen, ci, cout>>
    BY DEF ProducerTryLock, ProducerLoadHead, ProducerLoadTail, PushSlice,
           ProducerReloadTail, ProducerDrop, bufVars, consVars
  <1>2. ChainInv' /\ StoredInv' /\ ReaderInv'
    BY <1>1, QueueFrame, ReaderFrame DEF QueueInv
  <1>3. WriterInv'
    <2> USE DEF QueueInv, WriterInv, IndInv, TypeOK, ProducerInv, bufVars, consVars
    <2>1. CASE ProducerTryLock(p) \/ ProducerLoadHead(p) \/ ProducerLoadTail(p)
      <3>1. /\ UNCHANGED <<slots, head, pvals, pi>>
            /\ ppc'[p] \in {"load_head", "load_tail", "ready"} /\ ppc[p] # "reload"
            /\ \A q \in Producers : q # p => ppc'[q] = ppc[q]
        BY <2>1 DEF ProducerTryLock, ProducerLoadHead, ProducerLoadTail
      <3> HIDE DEF IndInv, TypeOK, ProducerInv
      <3>2. \A q \in Producers : ppc'[q] \in {"reload", "write", "publish"} =>
                                   ppc'[q] = ppc[q]
        BY <3>1
      <3> QED BY <3>1, <3>2
    <2>2. CASE \E values \in Records : PushSlice(p, values)
      <3>1. PICK values \in Records : PushSlice(p, values)
        BY <2>2
      <3>2. pi[p] = 0 /\ pi' = pi /\ slots' = slots /\ head' = head
        BY <3>1 DEF PushSlice
      <3>3. /\ pvals' = [pvals EXCEPT ![p] = values]
            /\ \A q \in Producers : q # p => ppc'[q] = ppc[q]
        BY <3>1 DEF PushSlice
      <3> QED BY <3>2, <3>3
    <2>3. CASE ProducerReloadTail(p)
      <3>1. /\ ppc[p] = "reload" /\ pi[p] = 0
            /\ pi' = pi /\ slots' = slots /\ head' = head
        BY <2>3 DEF ProducerReloadTail
      <3>2. PICK t \in tailVis :
              /\ ppc' = [ppc EXCEPT ![p] =
                           IF fits(phead[p], t, Len(pvals[p])) THEN "write" ELSE "ready"]
              /\ pvals' = [pvals EXCEPT ![p] =
                             IF fits(phead[p], t, Len(pvals[p])) THEN @ ELSE <<>>]
        BY <2>3 DEF ProducerReloadTail
      <3>3. CASE fits(phead[p], t, Len(pvals[p]))
        BY <3>1, <3>2, <3>3
      <3>4. CASE ~fits(phead[p], t, Len(pvals[p]))
        BY <3>1, <3>2, <3>4
      <3> QED BY <3>3, <3>4
    <2>4. CASE ProducerDrop(p)
      BY <2>4 DEF ProducerDrop
    <2> QED BY <2>1, <2>2, <2>3, <2>4
  <1> QED BY <1>2, <1>3 DEF QueueInv

\* Writing a value keeps it: the slot is beyond head, and it gets the value.
LEMMA WriteValueQueue ==
    ASSUME IndInv, QueueInv, NEW p \in Producers, WriteValue(p), UNCHANGED <<queue, starts>>
    PROVE  QueueInv'
  <1> DEFINE n == pi[p] + 1
             w == wrapping_add(head, n)
             x == Value(pvals[p][n])
  <1>1. /\ ppc[p] = "write" /\ pi[p] < Len(pvals[p]) /\ phead[p] = head
        /\ head \in Usize /\ tail \in Usize /\ slots \in [0 .. N - 1 -> Slot]
        /\ pi \in [Producers -> Nat] /\ pvals[p] \in Seq(Values) /\ Len(pvals[p]) \in Nat
    <2>1. ppc[p] = "write" /\ pi[p] < Len(pvals[p])
      BY DEF WriteValue
    <2>2. phead[p] = head
      BY <2>1 DEF IndInv, ProducerInv
    <2> QED BY <2>1, <2>2 DEF IndInv, TypeOK
  <1>2. n \in Nat /\ n >= 1 /\ n =< Len(pvals[p]) /\ pi[p] \in Nat
    BY <1>1
  <1>3. /\ w \in Usize /\ wrapping_sub(w, tail) = wrapping_sub(head, tail) + n
        /\ wrapping_sub(w, tail) < N /\ wrapping_sub(head, tail) + n < N
        /\ wrapping_sub(head, tail) \in Nat
    BY <1>1, <1>2, WritePosition, SubType
  <1>4. slots' = [slots EXCEPT ![slot(w)] = x]
    <2>1. wrapping_add(wrapping_add(phead[p], 1), pi[p]) = w
      BY <1>1, <1>2, <1>3, AddAdd, Sizes
    <2> QED BY <1>1, <2>1 DEF WriteValue, WriteIndex
  <1>5. x \in Slot
    BY <1>1, <1>2, SlotKinds
  <1>6. /\ pi' = [pi EXCEPT ![p] = n]
        /\ UNCHANGED <<head, tail, ppc, pvals, cpc, clen, ci, cout>>
    BY DEF WriteValue, consVars
  <1>7. ChainInv' /\ ReaderInv'
    <2>1. ChainInv'
      BY <1>6 DEF QueueInv, ChainInv, Offset, Weight
    <2> QED BY <1>6, <2>1, ReaderFrame DEF QueueInv
  <1>8. StoredInv'
    <2>1. wrapping_sub(w, tail) >= wrapping_sub(head, tail)
      BY <1>2, <1>3
    <2> QED BY <1>3, <1>4, <1>5, <1>6, <2>1, StoredUnderWrite DEF QueueInv
  <1>9. WriterInv'
    <2>1. \A q \in Producers : q # p => ppc[q] = "idle"
      BY <1>1 DEF IndInv, LockInv
    <2>2. ASSUME NEW i \in 1 .. n
          PROVE  slots'[slot(wrapping_add(head, i))] = Value(pvals[p][i])
      <3>1. CASE i = n
        BY <1>1, <1>3, <1>4, <3>1, SlotType
      <3>2. CASE i # n
        <4>1. i \in Nat /\ i =< Len(pvals[p]) /\ i \in 1 .. pi[p]
          BY <1>1, <1>2, <3>2
        <4>2. /\ wrapping_add(head, i) \in Usize
              /\ wrapping_sub(wrapping_add(head, i), tail) = wrapping_sub(head, tail) + i
              /\ wrapping_sub(wrapping_add(head, i), tail) < N
          BY <1>1, <4>1, WritePosition
        <4>3. wrapping_add(head, i) # w
          BY <1>2, <1>3, <3>2, <4>1, <4>2
        <4>4. slot(wrapping_add(head, i)) # slot(w)
          BY <1>1, <1>3, <4>2, <4>3, WindowDistinct
        <4>5. slots[slot(wrapping_add(head, i))] = Value(pvals[p][i])
          BY <1>1, <4>1 DEF QueueInv, WriterInv
        <4> QED BY <1>1, <1>3, <1>4, <4>2, <4>4, <4>5, SlotType
      <3> QED BY <3>1, <3>2
    <2>3. pvals[p] \in Records
      BY <1>1 DEF QueueInv, WriterInv
    <2>4. pi'[p] = n
      BY <1>1, <1>6
    <2> HIDE DEF n, w, x
    <2> QED BY <1>6, <2>1, <2>2, <2>3, <2>4 DEF WriterInv
  <1> QED BY <1>7, <1>8, <1>9 DEF QueueInv

\* Writing the length keeps it: the slot at head is none of the values'.
LEMMA WriteLenQueue ==
    ASSUME IndInv, QueueInv, NEW p \in Producers, WriteLen(p), UNCHANGED <<queue, starts>>
    PROVE  QueueInv'
  <1> DEFINE x == Len_(Len(pvals[p]))
  <1>1. /\ ppc[p] = "write" /\ pi[p] = Len(pvals[p]) /\ phead[p] = head
        /\ head \in Usize /\ tail \in Usize /\ slots \in [0 .. N - 1 -> Slot]
        /\ Len(pvals[p]) \in Nat
    <2>1. ppc[p] = "write" /\ pi[p] = Len(pvals[p])
      BY DEF WriteLen
    <2>2. phead[p] = head
      BY <2>1 DEF IndInv, ProducerInv
    <2> QED BY <2>1, <2>2 DEF IndInv, TypeOK
  <1>2. /\ wrapping_sub(head, tail) \in Nat
        /\ wrapping_sub(head, tail) + Len(pvals[p]) < N
    BY <1>1, WritePosition, SubType
  <1>3. wrapping_sub(head, tail) >= wrapping_sub(head, tail) /\ wrapping_sub(head, tail) < N
    BY <1>1, <1>2, Sizes
  <1>4. x \in Slot
    <2>1. Len(pvals[p]) \in 0 .. N
      BY <1>1, <1>2, Sizes
    <2> QED BY <2>1, SlotKinds
  <1>5. slots' = [slots EXCEPT ![slot(head)] = x]
    BY <1>1 DEF WriteLen
  <1>6. /\ ppc' = [ppc EXCEPT ![p] = "publish"]
        /\ UNCHANGED <<head, tail, pvals, pi, cpc, clen, ci, cout>>
    BY DEF WriteLen, consVars
  <1>7. ChainInv' /\ ReaderInv'
    <2>1. ChainInv'
      BY <1>6 DEF QueueInv, ChainInv, Offset, Weight
    <2> QED BY <1>6, <2>1, ReaderFrame DEF QueueInv
  <1>8. StoredInv'
    BY <1>1, <1>3, <1>4, <1>5, <1>6, StoredUnderWrite DEF QueueInv
  <1>9. WriterInv'
    <2>1. \A q \in Producers : q # p => ppc'[q] = "idle"
      BY <1>1, <1>6 DEF IndInv, LockInv, TypeOK
    <2>2. ASSUME NEW i \in 1 .. pi[p]
          PROVE  slots'[slot(wrapping_add(head, i))] = Value(pvals[p][i])
      <3>1. i \in Nat /\ i =< Len(pvals[p]) /\ i >= 1
        BY <1>1
      <3>2. /\ wrapping_add(head, i) \in Usize
            /\ wrapping_sub(wrapping_add(head, i), tail) = wrapping_sub(head, tail) + i
            /\ wrapping_sub(wrapping_add(head, i), tail) < N
        BY <1>1, <3>1, WritePosition
      <3>3. wrapping_add(head, i) # head
        BY <1>2, <3>1, <3>2
      <3>4. slot(wrapping_add(head, i)) # slot(head)
        BY <1>1, <1>3, <3>2, <3>3, WindowDistinct
      <3>5. slots[slot(wrapping_add(head, i))] = Value(pvals[p][i])
        BY <1>1 DEF QueueInv, WriterInv
      <3> QED BY <1>1, <1>5, <3>2, <3>4, <3>5, SlotType
    <2>3. pvals[p] \in Records
      BY <1>1 DEF QueueInv, WriterInv
    <2> HIDE DEF x
    <2> QED BY <1>6, <2>1, <2>2, <2>3 DEF WriterInv
  <1> QED BY <1>7, <1>8, <1>9 DEF QueueInv

\* The steps of a consumer that only look keep the queue invariant.
LEMMA ConsumerLooks ==
    ASSUME IndInv, QueueInv, NEW c \in Consumers, UNCHANGED <<queue, starts>>,
           \/ ConsumerTryLock(c) \/ ConsumerLoadHead(c) \/ ConsumerLoadTail(c)
           \/ (\E outLen \in OutLens : PopSlice(c, outLen))
           \/ ConsumerReloadHead(c) \/ ConsumerDrop(c)
    PROVE  QueueInv'
  <1>1. UNCHANGED <<slots, head, tail, ppc, pvals, pi>>
    BY DEF ConsumerTryLock, ConsumerLoadHead, ConsumerLoadTail, PopSlice,
           ConsumerReloadHead, ConsumerDrop, bufVars, prodVars
  <1>2. ChainInv' /\ StoredInv' /\ WriterInv'
    BY <1>1, QueueFrame, WriterFrame DEF QueueInv
  <1>3. ReaderInv'
    <2>1. /\ UNCHANGED <<clen, ci, cout>>
          /\ \A d \in Consumers : cpc'[d] = "read" => cpc[d] = "read"
      BY DEF ConsumerTryLock, ConsumerLoadHead, ConsumerLoadTail, PopSlice,
             ConsumerReloadHead, ConsumerDrop, bufVars, IndInv, TypeOK
    <2> QED BY <2>1 DEF QueueInv, ReaderInv
  <1> QED BY <1>2, <1>3 DEF QueueInv

\* The oldest record starts at tail.
LEMMA OldestRecord ==
    ASSUME IndInv, QueueInv, NEW c \in Consumers, cpc[c] \in {"read_len", "read"}
    PROVE  /\ queue # <<>> /\ 1 \in 1 .. Len(queue) /\ starts[1] = tail /\ ctail[c] = tail
           /\ queue[1] \in Seq(Values) /\ Len(queue[1]) \in Nat /\ Len(queue[1]) < N
           /\ slots[slot(tail)] = Len_(Len(queue[1]))
           /\ \A i \in 1 .. Len(queue[1]) :
                slots[slot(wrapping_add(tail, i))] = Value(queue[1][i])
  <1>1. /\ ctail[c] = tail /\ chead[c] # tail
        /\ wrapping_sub(chead[c], tail) =< wrapping_sub(head, tail)
    BY DEF IndInv, ConsumerInv
  <1>2. head \in Usize /\ tail \in Usize /\ chead[c] \in Usize
    BY DEF IndInv, TypeOK
  <1>3. wrapping_sub(head, tail) # 0
    BY <1>1, <1>2, SubSelf, SubEqual, SubType
  <1>4. queue # <<>>
    BY <1>2, <1>3, SubSelf DEF QueueInv, ChainInv
  <1>5. 1 \in 1 .. Len(queue) /\ starts[1] = tail
    BY <1>4 DEF QueueInv, ChainInv
  <1>6. queue[1] \in Seq(Values) /\ Len(queue[1]) \in Nat /\ Len(queue[1]) < N
    BY <1>5, RecordPlace, Sizes DEF QueueInv, Weight
  <1> QED BY <1>1, <1>4, <1>5, <1>6 DEF QueueInv, StoredInv

\* Reading the length finds that of the oldest record.
LEMMA ReadLenQueue ==
    ASSUME IndInv, QueueInv, NEW c \in Consumers, ReadLen(c), UNCHANGED <<queue, starts>>
    PROVE  QueueInv'
  <1>1. cpc[c] = "read_len" /\ ci[c] = 0
    <2>1. cpc[c] = "read_len"
      BY DEF ReadLen
    <2> QED BY <2>1 DEF IndInv, ConsumerInv
  <1>2. /\ queue # <<>> /\ slots[slot(ReadIndex(c))] = Len_(Len(queue[1]))
    BY <1>1, OldestRecord DEF ReadIndex
  <1>3. UNCHANGED <<slots, head, tail, ppc, pvals, pi, ci, cout>>
    BY DEF ReadLen, bufVars, prodVars
  <1>4. ChainInv' /\ StoredInv' /\ WriterInv'
    BY <1>3, QueueFrame, WriterFrame DEF QueueInv
  <1>5. cpc'[c] = "read" => clen'[c] = Len(queue[1])
    BY <1>2, SlotKinds DEF ReadLen, IndInv, TypeOK
  <1>6. \A d \in Consumers : d # c => cpc'[d] = cpc[d] /\ clen'[d] = clen[d]
    BY DEF ReadLen, IndInv, TypeOK
  <1>7. ReaderInv'
    BY <1>1, <1>2, <1>3, <1>5, <1>6 DEF QueueInv, ReaderInv
  <1> QED BY <1>4, <1>7 DEF QueueInv

\* Reading a value finds that of the oldest record.
LEMMA ReadValueQueue ==
    ASSUME IndInv, QueueInv, NEW c \in Consumers, ReadValue(c), UNCHANGED <<queue, starts>>
    PROVE  QueueInv'
  <1>1. cpc[c] = "read" /\ ci[c] < clen[c]
    BY DEF ReadValue
  <1>2. /\ queue # <<>> /\ ctail[c] = tail /\ clen[c] = Len(queue[1])
        /\ Len(queue[1]) \in Nat /\ Len(queue[1]) < N /\ queue[1] \in Seq(Values)
        /\ \A i \in 1 .. Len(queue[1]) :
             slots[slot(wrapping_add(tail, i))] = Value(queue[1][i])
    BY <1>1, OldestRecord DEF QueueInv, ReaderInv
  <1>3. /\ tail \in Usize /\ ci \in [Consumers -> Nat]
        /\ cout \in [Consumers -> Seq(Values)] /\ cpc \in [Consumers -> ConsumerPC]
    BY DEF IndInv, TypeOK
  <1>4. ci[c] + 1 \in 1 .. Len(queue[1]) /\ ci[c] \in Nat
    BY <1>1, <1>2, <1>3
  <1>5. slots[slot(ReadIndex(c))] = Value(queue[1][ci[c] + 1])
    <2>1. ReadIndex(c) = wrapping_add(tail, ci[c] + 1)
      BY <1>1, <1>2, <1>3, <1>4, AddAdd, Sizes DEF ReadIndex
    <2> QED BY <1>2, <1>4, <2>1
  <1>6. /\ cpc' = cpc
        /\ cout' = [cout EXCEPT ![c] = Append(@, queue[1][ci[c] + 1])]
        /\ ci' = [ci EXCEPT ![c] = @ + 1]
        /\ UNCHANGED <<slots, head, tail, ppc, pvals, pi, clen>>
    BY <1>3, <1>5, SlotKinds DEF ReadValue, bufVars, prodVars
  <1>7. ChainInv' /\ StoredInv' /\ WriterInv'
    BY <1>6, QueueFrame, WriterFrame DEF QueueInv
  <1>8. ReaderInv'
    <2>1. ci[c] = Len(cout[c]) /\ \A i \in 1 .. ci[c] : cout[c][i] = queue[1][i]
      BY <1>1 DEF QueueInv, ReaderInv
    <2>2. /\ ci'[c] = ci[c] + 1 /\ cout'[c] = Append(cout[c], queue[1][ci[c] + 1])
          /\ cout[c] \in Seq(Values)
      BY <1>3, <1>6
    <2>3. Len(cout'[c]) = ci'[c]
      BY <2>1, <2>2
    <2>4. \A i \in 1 .. ci'[c] : cout'[c][i] = queue[1][i]
      BY <1>4, <2>1, <2>2
    <2>5. \A d \in Consumers : d # c => ci'[d] = ci[d] /\ cout'[d] = cout[d]
      BY <1>3, <1>6
    <2> QED BY <1>2, <1>6, <2>3, <2>4, <2>5 DEF QueueInv, ReaderInv
  <1> QED BY <1>7, <1>8 DEF QueueInv

\* The store of head puts the slice that was written at the end of the queue.
LEMMA PublishQueue ==
    ASSUME IndInv, QueueInv, NEW p \in Producers, Publish(p),
           queue' = Append(queue, pvals[p]), starts' = Append(starts, phead[p])
    PROVE  /\ QueueInv'
           /\ pvals[p] \in Records
           /\ wrapping_sub(head', tail') = wrapping_sub(head, tail) + Len(pvals[p]) + 1
           /\ wrapping_sub(head', tail') =< N
           /\ UNCHANGED popped
  <1> DEFINE r == pvals[p]
             h == wrapping_add(head, Len(r) + 1)
             D == wrapping_sub(head, tail)
             m == Len(queue)
             Off(k) == wrapping_sub(starts'[k], tail)
             Wgt(k) == Len(queue'[k]) + 1
  <1>1. ppc[p] = "publish" /\ phead[p] = head /\ slots[slot(head)] = Len_(Len(r))
        /\ pi[p] = Len(r)
    <2>1. ppc[p] = "publish"
      BY DEF Publish
    <2> QED BY <2>1 DEF IndInv, ProducerInv
  <1>2. /\ r \in Records /\ r \in Seq(Values) /\ Len(r) \in Nat
        /\ \A i \in 1 .. Len(r) : slots[slot(wrapping_add(head, i))] = Value(r[i])
    BY <1>1, RecordsAssumption DEF QueueInv, WriterInv
  <1>3. head \in Usize /\ tail \in Usize
    BY DEF IndInv, TypeOK
  <1>4. D \in Nat /\ D + Len(r) + 1 =< N
    <2>1. D \in Nat /\ D + Len(r) < N
      BY <1>1, <1>2, <1>3, WritePosition, SubType
    <2> QED BY <1>2, <2>1, Sizes
  <1>5. h \in Usize /\ wrapping_sub(h, tail) = D + (Len(r) + 1)
    <2>1. Len(r) + 1 \in Nat /\ D + (Len(r) + 1) < UsizeMod
      <3> HIDE DEF r, D
      <3> QED BY <1>2, <1>4, Sizes
    <2> QED BY <1>3, <2>1, AddDist
  <1>6. /\ head' = h
        /\ ppc' = [ppc EXCEPT ![p] = "ready"]
        /\ UNCHANGED <<slots, tail, cpc, clen, ci, cout, popped>>
    <2>1. Len(r) \in Nat /\ Len(r) + 1 < UsizeMod
      <3> HIDE DEF r, D
      <3> QED BY <1>2, <1>4, Sizes
    <2>2. wrapping_add(wrapping_add(phead[p], 1), Len(r)) = h
      BY <1>1, <1>3, <2>1, AddAdd
    <2> QED BY <2>2 DEF Publish, consVars
  <1>7. /\ queue \in Seq(Records) /\ starts \in Seq(Usize) /\ Len(starts) = m /\ m \in Nat
        /\ queue = <<>> => head = tail
        /\ queue # <<>> => starts[1] = tail /\ wrapping_add(starts[m], Weight(m)) = head
        /\ \A k \in 1 .. m - 1 : starts[k + 1] = wrapping_add(starts[k], Weight(k))
        /\ \A k \in 1 .. m :
             Offset(k) \in Nat /\ Weight(k) \in Nat /\ Offset(k) + Weight(k) =< D
        /\ \A j, k \in 1 .. m : j < k => Offset(j) + Weight(j) =< Offset(k)
    <2>1. /\ queue \in Seq(Records) /\ starts \in Seq(Usize) /\ Len(starts) = m
          /\ queue = <<>> => head = tail
          /\ queue # <<>> => /\ starts[1] = tail
                             /\ wrapping_add(starts[m], Weight(m)) = head
          /\ \A k \in 1 .. m - 1 : starts[k + 1] = wrapping_add(starts[k], Weight(k))
          /\ \A j, k \in 1 .. m : j < k => Offset(j) + Weight(j) =< Offset(k)
      BY DEF QueueInv, ChainInv
    <2>2. m \in Nat
      BY <2>1
    <2>3. \A k \in 1 .. m :
            Offset(k) \in Nat /\ Weight(k) \in Nat /\ Offset(k) + Weight(k) =< D
      BY RecordPlace DEF QueueInv
    <2> QED BY <2>1, <2>2, <2>3
  <1>8. /\ Len(queue') = m + 1 /\ Len(starts') = m + 1 /\ queue' # <<>>
        /\ queue' \in Seq(Records) /\ starts' \in Seq(Usize)
        /\ queue'[m + 1] = r /\ starts'[m + 1] = head
        /\ \A k \in 1 .. m : queue'[k] = queue[k] /\ starts'[k] = starts[k]
    BY <1>1, <1>2, <1>3, <1>7
  <1>9. /\ Off(m + 1) = D /\ Wgt(m + 1) = Len(r) + 1
        /\ \A k \in 1 .. m : Off(k) = Offset(k) /\ Wgt(k) = Weight(k)
    BY <1>8 DEF Offset, Weight
  <1>10. 1 .. m + 1 = (1 .. m) \cup {m + 1} /\ m + 1 \notin 1 .. m
    BY <1>7
  <1> HIDE DEF r, D, h, m, Off, Wgt
  <1>11. ChainInv'
    <2>1. starts'[1] = tail
      <3>1. CASE m = 0
        BY <1>7, <1>8, <3>1 DEF m
      <3>2. CASE m # 0
        BY <1>7, <1>8, <3>2 DEF m
      <3> QED BY <3>1, <3>2
    <2>2. wrapping_add(starts'[m + 1], Wgt(m + 1)) = h
      BY <1>8, <1>9 DEF h
    <2>3. ASSUME NEW k \in 1 .. m
          PROVE  starts'[k + 1] = wrapping_add(starts'[k], Wgt(k))
      <3>1. CASE k = m
        <4>1. queue # <<>>
          BY <1>7, <3>1 DEF m
        <4> QED BY <1>7, <1>8, <1>9, <3>1, <4>1
      <3>2. CASE k # m
        BY <1>7, <1>8, <1>9, <3>2
      <3> QED BY <3>1, <3>2
    <2>a. Len(r) \in Nat
      BY <1>2
    <2>b. \A k \in 1 .. m : Off(k) \in Nat /\ Wgt(k) \in Nat /\ Off(k) + Wgt(k) =< D
      BY <1>7, <1>9
    <2>4. ASSUME NEW k \in 1 .. m + 1
          PROVE  Off(k) + Wgt(k) =< wrapping_sub(h, tail)
      <3>1. CASE k = m + 1
        BY <1>4, <1>5, <1>9, <2>a, <3>1
      <3>2. CASE k \in 1 .. m
        BY ONLY <1>4, <1>5, <2>a, <2>b, <3>2
      <3> QED BY <1>10, <3>1, <3>2
    <2>5. ASSUME NEW j \in 1 .. m + 1, NEW k \in 1 .. m + 1, j < k
          PROVE  Off(j) + Wgt(j) =< Off(k)
      <3>1. j \in 1 .. m
        BY <1>7, <2>5
      <3>2. CASE k = m + 1
        BY <1>9, <2>b, <3>1, <3>2
      <3>3. CASE k \in 1 .. m
        <4>1. Offset(j) + Weight(j) =< Offset(k)
          BY ONLY <1>7, <2>5, <3>1, <3>3
        <4> QED BY <1>9, <3>1, <3>3, <4>1
      <3> QED BY <1>10, <3>2, <3>3
    <2>6. (m + 1) - 1 = m
      BY <1>7
    <2> QED BY <1>6, <1>8, <2>1, <2>2, <2>3, <2>4, <2>5, <2>6
           DEF ChainInv, Offset, Weight, Off, Wgt
  <1>12. StoredInv'
    <2>1. \A k \in 1 .. m :
            /\ slots[slot(starts[k])] = Len_(Len(queue[k]))
            /\ \A i \in 1 .. Len(queue[k]) :
                 slots[slot(wrapping_add(starts[k], i))] = Value(queue[k][i])
      BY DEF QueueInv, StoredInv, m
    <2>2. slots[slot(head)] = Len_(Len(r))
      BY <1>1 DEF r
    <2> QED BY <1>2, <1>6, <1>8, <1>10, <2>1, <2>2 DEF StoredInv
  <1>13. WriterInv'
    <2>1. \A q \in Producers : ppc'[q] \notin {"reload", "write", "publish"}
      BY <1>1, <1>6 DEF IndInv, LockInv, TypeOK
    <2> QED BY <2>1 DEF WriterInv
  <1>14. ReaderInv'
    <2>1. queue # <<>> => queue'[1] = queue[1]
      BY <1>7, <1>8 DEF m
    <2> QED BY <1>6, <1>8, <2>1 DEF QueueInv, ReaderInv
  <1> QED BY <1>2, <1>4, <1>5, <1>6, <1>11, <1>12, <1>13, <1>14 DEF QueueInv, r, D

\* The store of tail takes the oldest record, which is what was copied out.
LEMMA FinishPopQueue ==
    ASSUME IndInv, QueueInv, NEW c \in Consumers, FinishPop(c),
           queue' = Tail(queue), starts' = Tail(starts)
    PROVE  /\ QueueInv'
           /\ queue # <<>> /\ popped' = Head(queue)
           /\ wrapping_sub(head', tail') = wrapping_sub(head, tail) - (Len(Head(queue)) + 1)
  <1> DEFINE n == clen[c] + 1
             t == wrapping_add(tail, n)
             D == wrapping_sub(head, tail)
             m == Len(queue)
             Off(k) == wrapping_sub(starts'[k], t)
             Wgt(k) == Len(queue'[k]) + 1
  <1>1. cpc[c] = "read" /\ ci[c] = clen[c]
    BY DEF FinishPop
  <1>2. /\ queue # <<>> /\ 1 \in 1 .. m /\ starts[1] = tail /\ ctail[c] = tail
        /\ queue[1] \in Seq(Values) /\ Len(queue[1]) \in Nat
        /\ clen[c] = Len(queue[1]) /\ n = Weight(1) /\ n \in Nat /\ n >= 1
    BY <1>1, OldestRecord DEF QueueInv, ReaderInv, Weight
  <1>3. head \in Usize /\ tail \in Usize /\ cout[c] \in Seq(Values)
    BY DEF IndInv, TypeOK
  <1>4. D \in Nat /\ D =< N /\ n =< D
    BY <1>2, RecordPlace DEF QueueInv
  <1>5. n \in 0 .. UsizeMod - 1
    BY <1>2, <1>4, Sizes
  <1>6. \A i \in Usize : n =< wrapping_sub(i, tail) =>
                           wrapping_sub(i, t) = wrapping_sub(i, tail) - n
    BY <1>3, <1>5, ShiftDist
  <1>7. t \in Usize /\ wrapping_sub(head, t) = D - n
    BY <1>3, <1>4, <1>5, ShiftDist
  <1>8. /\ tail' = t
        /\ cpc' = [cpc EXCEPT ![c] = "ready"]
        /\ popped' = cout[c]
        /\ ci' = [ci EXCEPT ![c] = 0] /\ cout' = [cout EXCEPT ![c] = <<>>]
        /\ UNCHANGED <<slots, head, ppc, pvals, pi>>
    <2>1. wrapping_add(wrapping_add(ctail[c], 1), clen[c]) = t
      BY <1>2, <1>3, <1>4, AddAdd, Sizes
    <2> QED BY <2>1 DEF FinishPop, prodVars
  <1>9. popped' = queue[1]
    <2>1. Len(cout[c]) = Len(queue[1])
      BY <1>1, <1>2 DEF QueueInv, ReaderInv
    <2>2. \A i \in 1 .. Len(queue[1]) : cout[c][i] = queue[1][i]
      BY <1>1, <1>2 DEF QueueInv, ReaderInv
    <2> QED BY <1>2, <1>3, <1>8, <2>1, <2>2
  <1>10. /\ queue \in Seq(Records) /\ starts \in Seq(Usize) /\ Len(starts) = m /\ m \in Nat
         /\ m >= 1 /\ wrapping_add(starts[m], Weight(m)) = head
         /\ \A k \in 1 .. m - 1 : starts[k + 1] = wrapping_add(starts[k], Weight(k))
         /\ \A k \in 1 .. m :
             Offset(k) \in Nat /\ Weight(k) \in Nat /\ Offset(k) + Weight(k) =< D
         /\ \A j, k \in 1 .. m : j < k => Offset(j) + Weight(j) =< Offset(k)
    <2>1. /\ queue \in Seq(Records) /\ starts \in Seq(Usize) /\ Len(starts) = m
          /\ wrapping_add(starts[m], Weight(m)) = head
          /\ \A k \in 1 .. m - 1 : starts[k + 1] = wrapping_add(starts[k], Weight(k))
          /\ \A j, k \in 1 .. m : j < k => Offset(j) + Weight(j) =< Offset(k)
      BY <1>2 DEF QueueInv, ChainInv
    <2>2. m \in Nat /\ m >= 1
      BY <1>2, <2>1
    <2>3. \A k \in 1 .. m :
            Offset(k) \in Nat /\ Weight(k) \in Nat /\ Offset(k) + Weight(k) =< D
      BY RecordPlace DEF QueueInv
    <2> QED BY <2>1, <2>2, <2>3
  <1>11. /\ Len(queue') = m - 1 /\ Len(starts') = m - 1
         /\ queue' \in Seq(Records) /\ starts' \in Seq(Usize)
         /\ \A k \in 1 .. m - 1 : queue'[k] = queue[k + 1] /\ starts'[k] = starts[k + 1]
    BY <1>2, <1>10
  <1>12. \A k \in 1 .. m - 1 : /\ k + 1 \in 1 .. m /\ n =< Offset(k + 1)
                               /\ Off(k) = Offset(k + 1) - n
                               /\ Wgt(k) = Weight(k + 1)
    <2> SUFFICES ASSUME NEW k \in 1 .. m - 1
                 PROVE  /\ k + 1 \in 1 .. m /\ n =< Offset(k + 1)
                        /\ Off(k) = Offset(k + 1) - n
                        /\ Wgt(k) = Weight(k + 1)
      OBVIOUS
    <2> HIDE DEF n, m, D, t
    <2>1. k + 1 \in 1 .. m /\ 1 < k + 1
      BY <1>10
    <2>2. Offset(1) + n =< Offset(k + 1)
      BY <1>2, <1>10, <2>1
    <2>3. n =< Offset(k + 1)
      BY <1>2, <1>10, <2>1, <2>2
    <2>4. starts[k + 1] \in Usize
      BY <1>10, <2>1
    <2>5. wrapping_sub(starts[k + 1], t) = Offset(k + 1) - n
      BY <1>6, <2>3, <2>4 DEF Offset
    <2>6. starts'[k] = starts[k + 1] /\ queue'[k] = queue[k + 1]
      BY <1>11
    <2> QED BY <2>1, <2>3, <2>5, <2>6 DEF Weight
  <1> HIDE DEF n, D, t, m, Off, Wgt
  <1>13. ChainInv'
    <2>1. CASE m = 1
      <3>1. queue' = <<>> /\ starts' = <<>>
        BY <1>11, <2>1
      <3>2. head = t
        BY <1>2, <1>10, <2>1 DEF t
      <3>3. Len(queue') = 0 /\ Len(starts') = 0 /\ 1 .. 0 = {} /\ 1 .. 0 - 1 = {}
        BY <1>11, <2>1
      <3> QED BY ONLY <1>8, <1>11, <3>1, <3>2, <3>3 DEF ChainInv
    <2>2. CASE m # 1
      <3>1. m - 1 \in 1 .. m - 1 /\ 1 \in 1 .. m - 1 /\ (m - 1) + 1 = m
        BY <1>10, <2>2
      <3>q. queue' # <<>>
        BY <1>11, <3>1
      <3>2. starts'[1] = t
        BY <1>2, <1>10, <1>11, <3>1 DEF t
      <3>3. wrapping_add(starts'[m - 1], Wgt(m - 1)) = head
        BY <1>10, <1>11, <1>12, <3>1
      <3>4. \A k \in 1 .. (m - 1) - 1 : starts'[k + 1] = wrapping_add(starts'[k], Wgt(k))
        <4>1. ASSUME NEW k \in 1 .. (m - 1) - 1
              PROVE  starts'[k + 1] = wrapping_add(starts'[k], Wgt(k))
          <5>1. k \in 1 .. m - 1 /\ k + 1 \in 1 .. m - 1
            BY <1>10
          <5> QED BY <1>10, <1>11, <1>12, <5>1
        <4> QED BY <4>1
      <3>5. \A k \in 1 .. m - 1 : Off(k) + Wgt(k) =< wrapping_sub(head, t)
        <4> SUFFICES ASSUME NEW k \in 1 .. m - 1
                     PROVE  Off(k) + Wgt(k) =< wrapping_sub(head, t)
          OBVIOUS
        <4>1. /\ Offset(k + 1) \in Nat /\ Weight(k + 1) \in Nat
              /\ Offset(k + 1) + Weight(k + 1) =< D
          BY <1>10, <1>12
        <4>2. Off(k) = Offset(k + 1) - n /\ Wgt(k) = Weight(k + 1)
          BY <1>12
        <4> QED BY ONLY <1>2, <1>4, <1>7, <4>1, <4>2
      <3>6. \A j, k \in 1 .. m - 1 : j < k => Off(j) + Wgt(j) =< Off(k)
        <4> SUFFICES ASSUME NEW j \in 1 .. m - 1, NEW k \in 1 .. m - 1, j < k
                     PROVE  Off(j) + Wgt(j) =< Off(k)
          OBVIOUS
        <4>1. j + 1 \in 1 .. m /\ k + 1 \in 1 .. m /\ j + 1 < k + 1
          BY <1>10
        <4>2. /\ Offset(j + 1) \in Nat /\ Weight(j + 1) \in Nat /\ Offset(k + 1) \in Nat
              /\ Offset(j + 1) + Weight(j + 1) =< Offset(k + 1)
          BY <1>10, <4>1
        <4>3. /\ Off(j) = Offset(j + 1) - n /\ Wgt(j) = Weight(j + 1)
              /\ Off(k) = Offset(k + 1) - n
          BY <1>12
        <4> QED BY ONLY <1>2, <4>2, <4>3
      <3> QED BY <1>8, <1>11, <3>1, <3>q, <3>2, <3>3, <3>4, <3>5, <3>6
           DEF ChainInv, Offset, Weight, Off, Wgt
    <2> QED BY <2>1, <2>2
  <1>14. StoredInv'
    <2>1. ASSUME NEW k \in 1 .. m - 1
          PROVE  /\ slots[slot(starts'[k])] = Len_(Len(queue'[k]))
                 /\ \A i \in 1 .. Len(queue'[k]) :
                      slots[slot(wrapping_add(starts'[k], i))] = Value(queue'[k][i])
      <3>1. k + 1 \in 1 .. Len(queue)
        BY <1>12 DEF m
      <3>2. /\ slots[slot(starts[k + 1])] = Len_(Len(queue[k + 1]))
            /\ \A i \in 1 .. Len(queue[k + 1]) :
                 slots[slot(wrapping_add(starts[k + 1], i))] = Value(queue[k + 1][i])
        BY ONLY QueueInv, <3>1 DEF QueueInv, StoredInv
      <3>3. starts'[k] = starts[k + 1] /\ queue'[k] = queue[k + 1]
        BY <1>11
      <3> QED BY ONLY <3>2, <3>3
    <2>2. Len(queue') = m - 1 /\ slots' = slots
      BY <1>8, <1>11
    <2> QED BY ONLY <2>1, <2>2 DEF StoredInv
  <1>15. WriterInv'
    BY <1>8, WriterFrame DEF QueueInv
  <1>16. ReaderInv'
    <2>1. \A d \in Consumers : cpc'[d] # "read"
      BY <1>1, <1>8 DEF IndInv, LockInv, TypeOK
    <2>2. \A d \in Consumers : Len(cout'[d]) = ci'[d]
      BY <1>8 DEF QueueInv, ReaderInv, IndInv, TypeOK
    <2> QED BY <2>1, <2>2 DEF ReaderInv
  <1>17. Head(queue) = queue[1] /\ Len(Head(queue)) + 1 = n
    BY <1>2, <1>10 DEF n
  <1> QED BY <1>2, <1>7, <1>8, <1>9, <1>13, <1>14, <1>15, <1>16, <1>17 DEF QueueInv, D

-----------------------------------------------------------------------------
\* A buffer with its history is a buffer, and nothing is in it at first.
LEMMA QueuedInitInv == QueuedInit => IndInv /\ QueueInv
  <1> SUFFICES ASSUME QueuedInit PROVE IndInv /\ QueueInv
    OBVIOUS
  <1>1. IndInv
    BY InitInv DEF QueuedInit
  <1>2. Len(queue) = 0 /\ Len(starts) = 0 /\ queue \in Seq(Records) /\ starts \in Seq(Usize)
    BY DEF QueuedInit
  <1>3. ChainInv /\ StoredInv
    BY <1>2 DEF QueuedInit, Init, ChainInv, StoredInv
  <1>4. WriterInv /\ ReaderInv
    BY DEF QueuedInit, Init, WriterInv, ReaderInv
  <1> QED BY <1>1, <1>3, <1>4 DEF QueueInv

\* Local steps neither hand records over nor change what is in the slots of one.
LEMMA LocalQueue ==
    ASSUME IndInv, QueueInv, UNCHANGED <<queue, starts>>,
           \/ \E p \in Producers : ProducerLocal(p)
           \/ \E c \in Consumers : ConsumerLocal(c)
    PROVE  QueueInv' /\ UNCHANGED <<head, tail, popped>>
  <1>1. ASSUME NEW p \in Producers, ProducerLocal(p)
        PROVE  QueueInv' /\ UNCHANGED <<head, tail, popped>>
    <2>1. QueueInv'
      BY <1>1, ProducerLooks, WriteValueQueue, WriteLenQueue DEF ProducerLocal
    <2>2. UNCHANGED <<head, tail, popped>>
      BY <1>1 DEF ProducerLocal, ProducerTryLock, ProducerLoadHead, ProducerLoadTail,
         PushSlice, ProducerReloadTail, WriteValue, WriteLen, ProducerDrop, bufVars, consVars
    <2> QED BY <2>1, <2>2
  <1>2. ASSUME NEW c \in Consumers, ConsumerLocal(c)
        PROVE  QueueInv' /\ UNCHANGED <<head, tail, popped>>
    <2>1. QueueInv'
      BY <1>2, ConsumerLooks, ReadLenQueue, ReadValueQueue DEF ConsumerLocal
    <2>2. UNCHANGED <<head, tail, popped>>
      BY <1>2 DEF ConsumerLocal, ConsumerTryLock, ConsumerLoadHead, ConsumerLoadTail,
         PopSlice, ConsumerReloadHead, ReadLen, ReadValue, ConsumerDrop, bufVars, prodVars
    <2> QED BY <2>1, <2>2
  <1> QED BY <1>1, <1>2

\* Every step keeps both invariants and is a push, a pop or nothing to the
\* queue.
LEMMA QueuedNextInv ==
    ASSUME IndInv, QueueInv, [QueuedNext]_<<vars, queue, starts>>
    PROVE  /\ IndInv' /\ QueueInv'
           /\ [Promise!QueueNext]_<<queue, wrapping_sub(head, tail), popped>>
  <1>0. [Next]_vars
    BY DEF QueuedNext, Next, ProducerStep, ConsumerStep
  <1>1. IndInv'
    BY <1>0, NextInv
  <1>2. CASE UNCHANGED <<vars, queue, starts>>
    <2>1. UNCHANGED <<slots, head, tail, ppc, pvals, pi, cpc, clen, ci, cout, queue, starts,
                      popped>>
      BY <1>2 DEF vars, bufVars, prodVars, consVars
    <2> QED BY <1>1, <2>1, QueueFrame, WriterFrame, ReaderFrame DEF QueueInv
  <1>3. ASSUME NEW p \in Producers, Publish(p),
               queue' = Append(queue, pvals[p]), starts' = Append(starts, phead[p])
        PROVE  QueueInv' /\ Promise!QueueNext
    <2>1. QueueInv' /\ pvals[p] \in Records
      BY <1>3, PublishQueue
    <2>2. Promise!Push(pvals[p])
      BY <1>3, PublishQueue DEF Promise!Push
    <2> QED BY <2>1, <2>2 DEF Promise!QueueNext
  <1>4. ASSUME NEW c \in Consumers, FinishPop(c),
               queue' = Tail(queue), starts' = Tail(starts)
        PROVE  QueueInv' /\ Promise!QueueNext
    BY <1>4, FinishPopQueue DEF Promise!Pop, Promise!QueueNext
  <1>5. CASE /\ \/ \E p \in Producers : ProducerLocal(p)
                \/ \E c \in Consumers : ConsumerLocal(c)
             /\ UNCHANGED <<queue, starts>>
    <2>1. QueueInv' /\ UNCHANGED <<head, tail, popped>>
      BY <1>5, LocalQueue
    <2>2. UNCHANGED <<queue, wrapping_sub(head, tail), popped>>
      BY <1>5, <2>1
    <2> QED BY <1>1, <2>1, <2>2
  <1> QED BY <1>1, <1>2, <1>3, <1>4, <1>5 DEF QueuedNext

\* The buffer is a bounded first-in first-out queue of whole records: every
\* pop_slice delivers the oldest slice that push_slice accepted, entire, and
\* none is lost, repeated, torn or reordered, for any number of slots and width
\* of the indices, any records, and any threads and signal handlers.
THEOREM RefinesRecordQueue == QueuedSpec => ImplementsRecordQueue
  <1>1. QueuedInit => Promise!QueueInit
    <2>1. QueuedInit => wrapping_sub(head, tail) = 0
      BY SubSelf, Sizes DEF QueuedInit, Init, Usize
    <2> QED BY <2>1 DEF QueuedInit, Init, Promise!QueueInit
  <1>2. QueuedSpec => Promise!QueueSpec
    BY <1>1, QueuedInitInv, QueuedNextInv, PTL DEF QueuedSpec, Promise!QueueSpec
  <1> QED BY <1>2 DEF ImplementsRecordQueue

\* A buffer with its history is a buffer: what is proved of one holds of the
\* other.
THEOREM HistoryAddsNothing == QueuedSpec => Spec
  <1>1. QueuedInit => Init
    BY DEF QueuedInit
  <1>2. [QueuedNext]_<<vars, queue, starts>> => [Next]_vars
    BY DEF QueuedNext, Next, ProducerStep, ConsumerStep
  <1> QED BY <1>1, <1>2, PTL DEF QueuedSpec, Spec
=============================================================================
