-------------------------- MODULE FrameWalkProofs --------------------------
(***************************************************************************)
(* Proofs about FrameWalk, for any memory of the interrupted thread, any   *)
(* limits and any version of Python from 3.10 on: a stack that is recorded *)
(* is the whole stack, and one that is dropped has the reason it is        *)
(* dropped for.                                                            *)
(***************************************************************************)
EXTENDS FrameWalk, FiniteSetTheorems, SequenceTheorems, TLAPS

Frames == DOMAIN mem.frames

-----------------------------------------------------------------------------
(***************************************************************************)
(* Reads                                                                   *)
(***************************************************************************)

\* No read fails, or the words have an error.
LEMMA FirstErrorFacts ==
    ASSUME NEW words
    PROVE  /\ FirstError(words) \in {"none", "Read", "Invalid"}
           /\ FirstError(words) = "none" => \A i \in DOMAIN words : words[i] \notin Failures
BY DEF FirstError, ReadError

\* The first word of a sequence that begins with it.
LEMMA FirstWord ==
    ASSUME NEW x, NEW S, NEW u \in Seq(S)
    PROVE  1 \in DOMAIN (<<x>> \o u) /\ (<<x>> \o u)[1] = x
<1>1. u \in Seq(S \cup {x}) /\ <<x>> \in Seq(S \cup {x})
  OBVIOUS
<1> QED BY <1>1

\* Two words between two sequences.
Between(u, x, y, v) == u \o (<<x, y>> \o v)

\* Both are in the whole.
LEMMA MiddleWords ==
    ASSUME NEW S, NEW u \in Seq(S), NEW x \in S, NEW y \in S, NEW v \in Seq(S)
    PROVE  \E i, j \in DOMAIN Between(u, x, y, v) :
             Between(u, x, y, v)[i] = x /\ Between(u, x, y, v)[j] = y
<1>1. <<x, y>> \in Seq(S) /\ Len(<<x, y>>) = 2
  OBVIOUS
<1> DEFINE w == <<x, y>> \o v
<1>2. w \in Seq(S) /\ Len(w) = 2 + Len(v) /\ w[1] = x /\ w[2] = y
  BY <1>1
<1> HIDE DEF w
<1>3. u \o w \in Seq(S) /\ Len(u \o w) = Len(u) + Len(w) /\ Len(u) \in Nat
      /\ Len(v) \in Nat
  BY <1>2
<1>4. (u \o w)[Len(u) + 1] = x /\ (u \o w)[Len(u) + 2] = y
  BY <1>2, <1>3
<1>5. Len(u) + 1 \in DOMAIN (u \o w) /\ Len(u) + 2 \in DOMAIN (u \o w)
  BY <1>2, <1>3
<1> QED BY <1>4, <1>5 DEF w, Between

\* What an iteration reads of a frame: its link first, its executable and its
\* instruction unless the frame is skipped.
LEMMA ReadsFacts ==
    ASSUME NEW f
    PROVE  /\ \E i \in DOMAIN Reads(f) : Reads(f)[i] = Prev(f)
           /\ ~Skipped(f) =>
                \E i, j \in DOMAIN Reads(f) : /\ Reads(f)[i] = mem.frames[f].executable
                                              /\ Reads(f)[j] = mem.frames[f].instr
<1> DEFINE r == mem.frames[f]
<1> DEFINE a == IF HasOwner THEN <<r.owner>> ELSE <<>>
<1> DEFINE c == IF CodeRead(f) /\ Code(f) # 0 THEN <<mem.types[Code(f)]>> ELSE <<>>
<1> DEFINE b == IF Skipped(f) THEN <<>> ELSE <<r.executable, r.instr>> \o c
<1> DEFINE S == {r.previous, r.owner, r.executable, r.instr, mem.types[Code(f)]}
<1>1. Reads(f) = (<<r.previous>> \o a) \o b
  BY Zenon DEF Reads
<1>2. a \in Seq(S) /\ c \in Seq(S)
  <2>1. <<>> \in Seq(S) /\ <<r.owner>> \in Seq(S) /\ <<mem.types[Code(f)]>> \in Seq(S)
    OBVIOUS
  <2> QED BY <2>1, Zenon
<1>3. b \in Seq(S)
  <2>1. <<r.executable, r.instr>> \in Seq(S)
    OBVIOUS
  <2> HIDE DEF c, S
  <2> QED BY <1>2, <2>1
<1>4. r.previous \in S /\ r.executable \in S /\ r.instr \in S
  OBVIOUS
<1>5. ~Skipped(f) => b = <<r.executable, r.instr>> \o c
  BY Zenon
<1> DEFINE d == <<r.previous>> \o a
<1> HIDE DEF a, b, c, S
<1>6. d \in Seq(S) /\ 1 \in DOMAIN d /\ d[1] = r.previous
  <2>1. <<r.previous>> \in Seq(S)
    BY <1>4
  <2> QED BY <1>2, <2>1, FirstWord
<1> HIDE DEF d
<1>7. 1 \in DOMAIN Reads(f) /\ Reads(f)[1] = Prev(f)
  BY <1>1, <1>3, <1>6 DEF d, Prev
<1>8. ASSUME ~Skipped(f)
      PROVE  \E i, j \in DOMAIN Reads(f) : /\ Reads(f)[i] = r.executable
                                           /\ Reads(f)[j] = r.instr
  <2>1. Reads(f) = d \o (<<r.executable, r.instr>> \o c)
    BY <1>1, <1>5, <1>8, Zenon DEF d
  <2> DEFINE x == r.executable
  <2> DEFINE y == r.instr
  <2>2. x \in S /\ y \in S /\ d \in Seq(S) /\ c \in Seq(S)
    BY <1>2, <1>4, <1>6
  <2>3. Reads(f) = Between(d, x, y, c)
    BY <2>1, Zenon DEF Between
  <2> HIDE DEF x, y
  <2>4. \E i, j \in DOMAIN Reads(f) : Reads(f)[i] = x /\ Reads(f)[j] = y
    BY <2>2, <2>3, MiddleWords
  <2> QED BY <2>4, Zenon DEF x, y
<1> QED BY <1>7, <1>8

\* A frame that can be walked over has a link that could be read.
LEMMA LinkRead ==
    ASSUME NEW f, FrameError(f) = "none"
    PROVE  Prev(f) \notin Failures
<1>1. FirstError(Reads(f)) = "none"
  BY DEF FrameError
<1> QED BY <1>1, FirstErrorFacts, ReadsFacts

\* One that is written has an executable and an instruction that could be.
LEMMA InstrRead ==
    ASSUME NEW f, FrameError(f) = "none", ~Skipped(f)
    PROVE  mem.frames[f].executable \notin Failures /\ mem.frames[f].instr \notin Failures
<1>1. FirstError(Reads(f)) = "none"
  BY DEF FrameError
<1> QED BY <1>1, FirstErrorFacts, ReadsFacts

\* Why a frame can drop a stack.
LEMMA FrameErrorFacts ==
    ASSUME NEW f
    PROVE  FrameError(f) \in {"none", "Read", "Invalid", "InvalidCodeType"}
BY FirstErrorFacts, Zenon DEF FrameError

-----------------------------------------------------------------------------
(***************************************************************************)
(* The chain                                                               *)
(***************************************************************************)

\* What g reaches: it is in every closed set of frames that g is in.
Reaches(g, f) == \A T \in SUBSET Frames : g \in T /\ Closed(T) => f \in T

\* The set of frames that f reaches is closed, and least.
LEMMA CallersFacts ==
    ASSUME mem \in Memories, NEW f \in Frames
    PROVE  /\ Callers(f) \subseteq Frames /\ f \in Callers(f) /\ Closed(Callers(f))
           /\ \A g \in Frames : g \in Callers(f) <=> Reaches(f, g)
<1> DEFINE Least(S) == /\ f \in S /\ Closed(S)
                       /\ \A T \in SUBSET S : f \in T /\ Closed(T) => S \subseteq T
<1> DEFINE R == {g \in Frames : Reaches(f, g)}
<1>1. Closed(Frames)
  BY MemoryAssumption DEF Closed, Prev, Frames
<1>2. f \in R /\ R \subseteq Frames
  BY DEF Reaches
<1>3. Closed(R)
  <2> SUFFICES ASSUME NEW g \in R, Prev(g) \notin Failures \cup {0}
               PROVE  Prev(g) \in R
    BY Zenon DEF Closed
  <2>1. Prev(g) \in Frames
    BY <1>1 DEF Closed
  <2>2. ASSUME NEW T \in SUBSET Frames, f \in T, Closed(T) PROVE Prev(g) \in T
    BY <2>2 DEF Reaches, Closed
  <2> QED BY <2>1, <2>2 DEF Reaches
<1>4. \A T \in SUBSET R : f \in T /\ Closed(T) => R \subseteq T
  BY DEF Reaches
<1>5. Least(R)
  BY <1>2, <1>3, <1>4
<1> DEFINE C == CHOOSE S \in SUBSET Frames : Least(S)
<1>6. C \in SUBSET Frames /\ Least(C)
  BY <1>2, <1>5, Zenon
<1>7. Callers(f) = C
  BY Zenon DEF Callers, Frames
<1> HIDE DEF C
<1>8. ASSUME NEW g \in C PROVE Reaches(f, g)
  <2> SUFFICES ASSUME NEW T \in SUBSET Frames, f \in T, Closed(T) PROVE g \in T
    BY DEF Reaches
  <2>1. f \in C \cap T /\ C \cap T \in SUBSET C
    BY <1>6
  <2>2. Closed(C \cap T)
    BY <1>6 DEF Closed
  <2>3. C \subseteq C \cap T
    BY <1>6, <2>1, <2>2, Zenon
  <2> QED BY <1>8, <2>3
<1>9. ASSUME NEW g \in Frames, Reaches(f, g) PROVE g \in C
  BY <1>6, <1>9 DEF Reaches
<1> HIDE DEF Least, R
<1>10. f \in C /\ Closed(C)
  BY <1>6 DEF Least
<1> QED BY <1>6, <1>7, <1>8, <1>9, <1>10
-----------------------------------------------------------------------------
(***************************************************************************)
(* The invariant                                                           *)
(***************************************************************************)

\* The walk goes round: the frame it is at was visited, and so was the caller of
\* every frame that was.
Rounds(W) == frame \in W /\ \A f \in W : Prev(f) \in W

\* W is what the walk has visited, each frame without an error: from the current
\* frame on every caller, the last of which it is at now.
Follows(W) ==
    /\ IF W = {} THEN frame = Top ELSE Top \in W
    /\ \A f \in W : Prev(f) \in W \cup {frame}
    /\ W # {} => \E f \in W : Prev(f) = frame
    /\ \A f \in W : Reaches(Top, f) /\ FrameError(f) = "none"
    /\ frame # 0 => Reaches(Top, frame)

\* Each is counted, once unless the walk goes round.
Counted(W) ==
    /\ Cardinality(W) =< visited
    /\ ~Rounds(W) => Cardinality(W) = visited /\ frame \notin W /\ IsInjective(pushed)

\* Those that are visible are in the slice, each before its callers.
Written(W) ==
    /\ Range(pushed) = {f \in W : ~Skipped(f)}
    /\ \A i, j \in DOMAIN pushed : i < j => Reaches(pushed[i], pushed[j])
    /\ frame # 0 => \A i \in DOMAIN pushed : Reaches(pushed[i], frame)

Walked == /\ Entered
          /\ \E W \in SUBSET Frames : Follows(W) /\ Counted(W) /\ Written(W)

\* The whole stack of the thread is in the slice.
Whole ==
    /\ Entered /\ ~Loops /\ Cardinality(Chain) =< MaxFrames
    /\ \A f \in Chain : FrameError(f) = "none"
    /\ IsInjective(pushed) /\ Range(pushed) = Visible
    /\ \A i, j \in DOMAIN pushed : i < j => pushed[j] \in Callers(pushed[i])

\* What py-spy gets is what the frames of the slice hold.
Handed ==
    /\ DOMAIN raw = DOMAIN pushed
    /\ \A i \in DOMAIN raw :
         /\ mem.types[raw[i].code] = CodeType /\ raw[i].lasti \in Offsets
         /\ LastLine /\ Py311 => /\ raw[i].lasti >= 0
                                 /\ raw[i].code + raw[i].lasti = Instr(pushed[i])
         /\ LastLine /\ ~Py311 => raw[i].lasti = Instr(pushed[i])

WalkInv ==
    /\ mem \in Memories /\ TypeOK /\ pushed \in Seq(Frames)
    /\ at = "entry" => pushed = <<>> /\ visited = 0
    /\ at = "walk" => Walked
    /\ at = "ring" \/ result = "ok" => Whole
    /\ result = "ok" => Handed
    /\ DroppedForAReason
-----------------------------------------------------------------------------
(***************************************************************************)
(* Its steps                                                               *)
(***************************************************************************)

\* Memory does not change, nor what it holds.
LEMMA SameMemory ==
    ASSUME mem' = mem
    PROVE  /\ Top' = Top /\ Entered' = Entered /\ Frames' = Frames /\ Chain' = Chain
           /\ \A f : /\ Prev(f)' = Prev(f) /\ Callers(f)' = Callers(f)
                    /\ FrameError(f)' = FrameError(f) /\ Skipped(f)' = Skipped(f)
           /\ \A f, g : Reaches(g, f)' <=> Reaches(g, f)
<1>1. Top' = Top /\ Frames' = Frames
  BY DEF Top, Frames
<1>2. Entered' = Entered
  BY DEF Entered, FirstError, ReadError
<1>3. ASSUME NEW f PROVE Prev(f)' = Prev(f)
  BY DEF Prev
<1>4. ASSUME NEW f PROVE Callers(f)' = Callers(f)
  BY DEF Callers, Closed, Prev
<1>5. ASSUME NEW f PROVE FrameError(f)' = FrameError(f)
  BY DEF FrameError, FirstError, Reads, Skipped, Code, CodeRead, ReadError,
         HasOwner, SKIP_OWNERS, TagModulus
<1>6. ASSUME NEW f PROVE Skipped(f)' = Skipped(f)
  BY DEF Skipped, HasOwner, SKIP_OWNERS
<1>7. ASSUME NEW f, NEW g PROVE Reaches(g, f)' <=> Reaches(g, f)
  BY DEF Reaches, Closed, Prev, Frames
<1>8. Chain' = Chain
  BY DEF Chain, Entered, Top, Callers, Closed, Prev, FirstError, ReadError
<1> QED BY <1>1, <1>2, <1>3, <1>4, <1>5, <1>6, <1>7, <1>8

\* The caller of a frame that is reached is reached.
LEMMA ReachesNext ==
    ASSUME NEW g, NEW f \in Frames, Reaches(g, f), Prev(f) \notin Failures \cup {0}
    PROVE  Reaches(g, Prev(f))
BY DEF Reaches, Closed

\* What an iteration that visits a frame knows of it.
LEMMA VisitFacts ==
    ASSUME WalkInv, Visit
    PROVE  /\ Walked /\ frame \in Frames /\ FrameError(frame) = "none"
           /\ frame' = Prev(frame)
           /\ Prev(frame) \in Frames \cup {0} /\ visited \in Nat /\ visited < MaxFrames
           /\ Skipped(frame) \/ Len(pushed) < room
<1>1. Walked /\ frame \in Frames /\ visited \in 0 .. MaxFrames /\ frame' = Prev(frame)
  BY DEF WalkInv, Visit, TypeOK, Frames
<1>2. FrameError(frame) = "none" /\ ~(visited >= MaxFrames)
      /\ (Skipped(frame) \/ ~(Len(pushed) >= room))
  BY FrameErrorFacts DEF Visit, StackError
<1>3. Prev(frame) \in {0} \cup Failures \cup Frames
  BY <1>1, MemoryAssumption DEF WalkInv, Frames, Prev
<1>4. Prev(frame) \in Frames \cup {0}
  BY <1>2, <1>3, LinkRead
<1>5. visited \in Nat /\ visited < MaxFrames
  BY <1>1, <1>2, BoundsAssumption
<1>6. Len(pushed) \in Nat /\ room \in Nat
  BY BoundsAssumption, LenProperties DEF WalkInv, TypeOK
<1> QED BY <1>1, <1>2, <1>4, <1>5, <1>6

\* The visited frames with one more.
LEMMA FollowsStep ==
    ASSUME WalkInv, Visit, mem' = mem, NEW W \in SUBSET Frames, Follows(W),
           NEW V, V = W \cup {frame}
    PROVE  Follows(V)'
<1>1. frame \in Frames /\ FrameError(frame) = "none" /\ frame # 0 /\ frame' = Prev(frame)
      /\ Prev(frame) \in Frames \cup {0}
  BY VisitFacts DEF Visit
<1> DEFINE n == Prev(frame)
<1>2. Top \in V /\ \A f \in V : Prev(f) \in V \cup {n}
  BY DEF Follows
<1>3. \E f \in V : Prev(f) = n
  OBVIOUS
<1>4. \A f \in V : Reaches(Top, f) /\ FrameError(f) = "none"
  BY <1>1 DEF Follows
<1>5. n # 0 => Reaches(Top, n)
  <2>1. n # 0 => n \notin Failures \cup {0}
    BY <1>1, LinkRead
  <2> QED BY <1>1, <2>1, ReachesNext DEF Follows
<1>6. frame' = n
  BY <1>1
<1> HIDE DEF n
<1> QED BY <1>2, <1>3, <1>4, <1>5, <1>6, SameMemory DEF Follows

\* What a visit does to the slice.
Writes == IF Skipped(frame) THEN pushed' = pushed ELSE pushed' = Append(pushed, frame)

\* The slice is a sequence, whatever else it is.
LEMMA PushedFacts ==
    ASSUME WalkInv
    PROVE  /\ Len(pushed) \in Nat /\ DOMAIN pushed = 1 .. Len(pushed)
           /\ Range(pushed) = {pushed[i] : i \in 1 .. Len(pushed)}
<1>1. pushed \in Seq(Frames)
  BY DEF WalkInv
<1>2. Len(pushed) \in Nat /\ DOMAIN pushed = 1 .. Len(pushed)
  BY <1>1, LenProperties
<1> QED BY <1>2, Zenon DEF Range

\* The slice with one more frame.
LEMMA AppendFacts ==
    ASSUME WalkInv, frame \in Frames, pushed' = Append(pushed, frame)
    PROVE  /\ pushed' \in Seq(Frames) /\ DOMAIN pushed' = 1 .. Len(pushed) + 1
           /\ pushed'[Len(pushed) + 1] = frame /\ Len(pushed') = Len(pushed) + 1
           /\ \A i \in 1 .. Len(pushed) : pushed'[i] = pushed[i]
           /\ Range(pushed') = Range(pushed) \cup {frame}
<1>1. pushed \in Seq(Frames)
  BY DEF WalkInv
<1>2. /\ pushed' \in Seq(Frames) /\ Len(pushed') = Len(pushed) + 1
      /\ pushed'[Len(pushed) + 1] = frame
      /\ \A i \in 1 .. Len(pushed) : pushed'[i] = pushed[i]
  BY <1>1, AppendProperties
<1>3. DOMAIN pushed' = 1 .. Len(pushed) + 1
  BY <1>2, LenProperties
<1>4. Range(pushed') = {pushed'[i] : i \in 1 .. Len(pushed) + 1}
  BY <1>3, Zenon DEF Range
<1>5. Range(pushed') = Range(pushed) \cup {frame}
  BY <1>2, <1>4, PushedFacts
<1> QED BY <1>2, <1>3, <1>5

\* One more frame is counted.
LEMMA CountedStep ==
    ASSUME WalkInv, Visit, mem' = mem, visited' = visited + 1, Writes,
           NEW W \in SUBSET Frames, Follows(W), Counted(W), Written(W),
           NEW V, V = W \cup {frame}
    PROVE  Counted(V)'
<1>1. /\ frame \in Frames /\ frame' = Prev(frame) /\ visited \in Nat /\ mem \in Memories
  BY VisitFacts DEF WalkInv
<1>2. IsFiniteSet(W) /\ Cardinality(W) \in Nat
  <2>1. IsFiniteSet(Frames)
    BY <1>1, MemoryAssumption DEF Frames
  <2> QED BY <2>1, FS_Subset, FS_CardinalityType
<1>3. Cardinality(V) = IF frame \in W THEN Cardinality(W) ELSE Cardinality(W) + 1
  BY <1>2, FS_AddElement
<1>4. Cardinality(V) =< visited'
  BY <1>1, <1>2, <1>3 DEF Counted
<1>5. CASE frame \in W
  <2>1. Rounds(W) /\ V = W
    BY <1>5 DEF Counted
  <2>2. Rounds(V)'
    BY <1>1, <2>1, SameMemory DEF Rounds
  <2> QED BY <1>4, <2>2 DEF Counted
<1>6. CASE frame \notin W
  <2>1. Cardinality(V) = visited' /\ IsInjective(pushed)
    BY <1>1, <1>2, <1>3, <1>6 DEF Counted, Rounds
  <2>2. IsInjective(pushed)'
    <3>1. CASE Skipped(frame)
      BY <2>1, <3>1 DEF Writes, IsInjective
    <3>2. CASE ~Skipped(frame)
      <4>1. \A i \in 1 .. Len(pushed) : pushed[i] # frame
        BY <1>6, PushedFacts DEF Written
      <4>2. pushed' = Append(pushed, frame)
        BY <3>2 DEF Writes
      <4>3. \A i, j \in 1 .. Len(pushed) : pushed[i] = pushed[j] => i = j
        BY <2>1, PushedFacts DEF IsInjective
      <4>4. \A i, j \in 1 .. Len(pushed) + 1 : pushed'[i] = pushed'[j] => i = j
        BY <1>1, <4>1, <4>2, <4>3, AppendFacts, PushedFacts
      <4> QED BY <1>1, <4>2, <4>4, AppendFacts DEF IsInjective
    <3> QED BY <3>1, <3>2
  <2>3. ASSUME frame' \in V PROVE Rounds(V)'
    BY <1>1, <2>3, SameMemory DEF Rounds, Follows
  <2> QED BY <1>4, <2>1, <2>2, <2>3 DEF Counted
<1> QED BY <1>5, <1>6

\* One more frame is written, or left out.
LEMMA WrittenStep ==
    ASSUME WalkInv, Visit, mem' = mem, Writes,
           NEW W \in SUBSET Frames, Follows(W), Written(W),
           NEW V, V = W \cup {frame}
    PROVE  Written(V)'
<1>1. /\ frame \in Frames /\ frame # 0 /\ frame' = Prev(frame)
      /\ FrameError(frame) = "none"
  BY VisitFacts DEF Visit
<1> DEFINE n == Prev(frame)
<1>2. n # 0 => \A g : Reaches(g, frame) => Reaches(g, n)
  BY <1>1, LinkRead, VisitFacts, ReachesNext
<1>3. Reaches(frame, frame)
  BY DEF Reaches
<1>4. CASE Skipped(frame)
  <2>1. pushed' = pushed
    BY <1>4 DEF Writes
  <2>2. Range(pushed) = {f \in V : ~Skipped(f)}
    BY <1>4 DEF Written
  <2>3. n # 0 => \A i \in DOMAIN pushed : Reaches(pushed[i], n)
    BY <1>1, <1>2 DEF Written
  <2> HIDE DEF n
  <2> QED BY <1>1, <2>1, <2>2, <2>3, SameMemory DEF Written, n
<1>5. CASE ~Skipped(frame)
  <2>1. pushed' = Append(pushed, frame)
    BY <1>5 DEF Writes
  <2>2. Range(pushed') = {f \in V : ~Skipped(f)}
    BY <1>1, <1>5, <2>1, AppendFacts DEF Written
  <2>3. \A i, j \in DOMAIN pushed' : i < j => Reaches(pushed'[i], pushed'[j])
    BY <1>1, <2>1, AppendFacts, PushedFacts DEF Written
  <2>4. \A i \in DOMAIN pushed' : Reaches(pushed'[i], frame)
    BY <1>1, <1>3, <2>1, AppendFacts, PushedFacts DEF Written
  <2>5. n # 0 => \A i \in DOMAIN pushed' : Reaches(pushed'[i], n)
    BY <1>2, <2>4
  <2> HIDE DEF n
  <2> QED BY <1>1, <2>2, <2>3, <2>5, SameMemory DEF Written, n
<1> QED BY <1>4, <1>5

-----------------------------------------------------------------------------
(***************************************************************************)
(* The end of a walk                                                       *)
(***************************************************************************)

\* The current frame, when there is one.
LEMMA TopFacts ==
    ASSUME mem \in Memories, Entered
    PROVE  Top \in Frames \cup {0} /\ (Top # 0 => Top \in Frames /\ Chain = Callers(Top))
<1>1. /\ mem.current \in Seq(Nat \cup Failures) /\ Len(mem.current) \in {1, 2}
      /\ Last(mem.current) \in {0} \cup Failures \cup Frames
  BY MemoryAssumption DEF Frames
<1>2. Len(mem.current) \in DOMAIN mem.current
  BY <1>1, LenProperties
<1>3. Last(mem.current) \notin Failures
  BY <1>2, FirstErrorFacts DEF Entered, Last
<1> QED BY <1>1, <1>3, Zenon DEF Top, Chain

\* The chain is finite, and holds what the walk has visited and is at.
LEMMA VisitedInChain ==
    ASSUME WalkInv, Entered, NEW W \in SUBSET Frames, Follows(W), frame \in Frames \cup {0}
    PROVE  /\ IsFiniteSet(Chain) /\ Cardinality(Chain) \in Nat /\ W \subseteq Chain
           /\ frame # 0 => frame \in Chain
<1>1. mem \in Memories /\ IsFiniteSet(Frames) /\ 0 \notin Frames
  BY MemoryAssumption DEF WalkInv, Frames
<1>2. CASE Top = 0
  <2>1. Chain = {}
    BY <1>2 DEF Chain
  <2>2. Closed({}) /\ {} \in SUBSET Frames
    BY DEF Closed
  <2>3. frame = 0 /\ W = {}
    BY <1>1, <1>2 DEF Follows, Reaches
  <2> QED BY <2>1, <2>3, FS_EmptySet
<1>3. CASE Top # 0
  <2>1. Top \in Frames /\ Chain = Callers(Top)
    BY <1>1, <1>3, TopFacts
  <2>2. Chain \in SUBSET Frames /\ \A g \in Frames : g \in Chain <=> Reaches(Top, g)
    BY <1>1, <2>1, CallersFacts
  <2>3. IsFiniteSet(Chain) /\ Cardinality(Chain) \in Nat
    BY <1>1, <2>2, FS_Subset, FS_CardinalityType
  <2> QED BY <2>2, <2>3 DEF Follows
<1> QED BY <1>2, <1>3

\* At the end of the chain all of it is in the slice.
LEMMA WholeAtEnd ==
    ASSUME WalkInv, Walked, frame = 0
    PROVE  Whole
<1>1. /\ mem \in Memories /\ IsFiniteSet(Frames) /\ 0 \notin Frames
      /\ Frames \cap Failures = {} /\ visited =< MaxFrames /\ visited \in Nat
  BY MemoryAssumption DEF WalkInv, Frames, TypeOK
<1>2. PICK W \in SUBSET Frames : Follows(W) /\ Counted(W) /\ Written(W)
  BY Zenon DEF Walked
<1>3. Entered
  BY DEF Walked
<1>4. IsFiniteSet(Chain) /\ Cardinality(Chain) \in Nat /\ W \subseteq Chain
  BY <1>2, <1>3, VisitedInChain
<1>5. Chain \subseteq W
  <2>1. CASE Top = 0
    BY <2>1 DEF Chain
  <2>2. CASE Top # 0
    <3>1. Top \in W /\ Closed(W)
      BY <1>2, <2>2 DEF Follows, Closed
    <3>2. /\ Top \in Frames /\ Chain = Callers(Top)
      BY <1>1, <1>3, <2>2, TopFacts
    <3>3. Chain \subseteq Frames /\ \A g \in Frames : g \in Chain <=> Reaches(Top, g)
      BY <1>1, <3>2, CallersFacts
    <3> QED BY <3>1, <3>3 DEF Reaches
  <2> QED BY <2>1, <2>2
<1>6. Chain = W
  BY <1>4, <1>5
<1>7. ~Loops
  BY <1>1, <1>2, <1>6 DEF Loops, Follows
<1>8. Cardinality(Chain) =< MaxFrames
  BY <1>1, <1>2, <1>4, <1>6, BoundsAssumption DEF Counted
<1>9. IsInjective(pushed)
  BY <1>1, <1>2 DEF Counted, Rounds
<1>10. Range(pushed) = Visible
  BY <1>2, <1>6 DEF Written, Visible
<1>11. \A i, j \in DOMAIN pushed : i < j => pushed[j] \in Callers(pushed[i])
  <2>1. \A i \in DOMAIN pushed : pushed[i] \in Frames
    BY PushedFacts DEF WalkInv
  <2> QED BY <1>1, <1>2, <2>1, CallersFacts DEF Written
<1>12. \A f \in Chain : FrameError(f) = "none"
  BY <1>2, <1>6 DEF Follows
<1> QED BY <1>3, <1>7, <1>8, <1>9, <1>10, <1>11, <1>12 DEF Whole

\* The slice has as many frames as it is long, when none is there twice.
LEMMA PushedCard ==
    ASSUME WalkInv, IsInjective(pushed)
    PROVE  IsFiniteSet(Range(pushed)) /\ Cardinality(Range(pushed)) = Len(pushed)
<1>1. Len(pushed) \in Nat /\ DOMAIN pushed = 1 .. Len(pushed)
  BY PushedFacts
<1>2. pushed \in [1 .. Len(pushed) -> Range(pushed)]
  BY <1>1, LenProperties DEF WalkInv, Range
<1>3. pushed \in Bijection(1 .. Len(pushed), Range(pushed))
  BY <1>1, <1>2 DEF Bijection, Injection, Surjection, IsInjective, Range
<1>4. ExistsBijection(1 .. Len(pushed), Range(pushed))
  BY <1>3 DEF ExistsBijection
<1>5. IsFiniteSet(1 .. Len(pushed)) /\ Cardinality(1 .. Len(pushed)) = Len(pushed)
  <2>1. Cardinality(1 .. Len(pushed)) = IF 1 > Len(pushed) THEN 0 ELSE Len(pushed) - 1 + 1
    BY <1>1, FS_Interval
  <2> QED BY <1>1, <2>1, FS_Interval
<1> QED BY <1>4, <1>5, FS_Bijection

\* A walk that is given up is given up for what the chain is.
LEMMA GivenUp ==
    ASSUME WalkInv, Walked, frame # 0, StackError # "none"
    PROVE  \/ \E f \in Chain : StackError = FrameError(f)
           \/ /\ StackError = "Truncated"
              /\ \/ Loops \/ Cardinality(Chain) > MaxFrames
                 \/ Cardinality(Visible) > room
<1>1. /\ mem \in Memories /\ IsFiniteSet(Frames) /\ 0 \notin Frames
      /\ frame \in Frames /\ visited =< MaxFrames /\ visited \in Nat /\ room \in Nat
      /\ MaxFrames \in Nat
  BY MemoryAssumption, BoundsAssumption DEF WalkInv, Frames, TypeOK
<1>2. PICK W \in SUBSET Frames : Follows(W) /\ Counted(W) /\ Written(W)
  BY Zenon DEF Walked
<1>3. Entered
  BY DEF Walked
<1>4. /\ IsFiniteSet(Chain) /\ Cardinality(Chain) \in Nat /\ W \subseteq Chain
      /\ frame \in Chain
  BY <1>1, <1>2, <1>3, VisitedInChain
<1>5. CASE FrameError(frame) = StackError
  BY <1>4, <1>5
<1>6. CASE FrameError(frame) # StackError
  <2>1. StackError = "Truncated"
    BY <1>6 DEF StackError
  <2>2. CASE Rounds(W)
    <3>1. Top \in W /\ Closed(W) /\ Top \in Frames
      <4>1. frame \in W /\ W # {} /\ \A f \in W : Prev(f) \in W
        BY <2>2 DEF Rounds
      <4> QED BY <1>2, <4>1 DEF Follows, Closed
    <3>2. Chain = Callers(Top)
      BY <1>1, <1>3, <3>1, TopFacts
    <3>3. Chain \subseteq Frames /\ \A g \in Frames : g \in Chain <=> Reaches(Top, g)
      BY <1>1, <3>1, <3>2, CallersFacts
    <3>4. Chain = W
      BY <1>4, <3>1, <3>3 DEF Reaches
    <3>5. Loops
      BY <2>2, <3>4 DEF Loops, Rounds
    <3> QED BY <2>1, <3>5
  <2>3. CASE ~Rounds(W) /\ visited >= MaxFrames
    <3>1. IsFiniteSet(W) /\ Cardinality(W) = visited /\ frame \notin W
      BY <1>1, <1>2, <2>3, FS_Subset DEF Counted
    <3>2. Cardinality(W \cup {frame}) = visited + 1
      BY <3>1, FS_AddElement
    <3>3. Cardinality(W \cup {frame}) =< Cardinality(Chain)
      BY <1>4, FS_Subset
    <3>4. Cardinality(Chain) > MaxFrames
      BY <1>1, <1>4, <2>3, <3>2, <3>3
    <3> QED BY <2>1, <3>4
  <2>4. CASE ~Rounds(W) /\ ~(visited >= MaxFrames)
    <3>1. ~Skipped(frame) /\ Len(pushed) >= room
      BY <1>6, <2>1, <2>4 DEF StackError
    <3>2. IsInjective(pushed) /\ frame \notin W
      BY <1>2, <2>4 DEF Counted
    <3>3. /\ IsFiniteSet(Range(pushed)) /\ Cardinality(Range(pushed)) = Len(pushed)
          /\ Len(pushed) \in Nat
      BY <3>2, PushedCard, PushedFacts
    <3>4. frame \notin Range(pushed) /\ Range(pushed) \cup {frame} \subseteq Visible
      BY <1>2, <1>4, <3>1, <3>2 DEF Written, Visible
    <3>5. Cardinality(Range(pushed) \cup {frame}) = Len(pushed) + 1
      BY <3>3, <3>4, FS_AddElement
    <3>6. IsFiniteSet(Visible) /\ Cardinality(Visible) \in Nat
      <4>1. Visible \in SUBSET Chain
        BY DEF Visible
      <4> QED BY <1>4, <4>1, FS_Subset, FS_CardinalityType
    <3>7. Cardinality(Range(pushed) \cup {frame}) =< Cardinality(Visible)
      BY <3>4, <3>6, FS_Subset
    <3>8. Cardinality(Visible) > room
      BY <1>1, <3>1, <3>3, <3>5, <3>6, <3>7
    <3> QED BY <2>1, <3>8
  <2> QED BY <2>2, <2>3, <2>4
<1> QED BY <1>5, <1>6

-----------------------------------------------------------------------------
(***************************************************************************)
(* The actions                                                             *)
(***************************************************************************)

\* The whole stack stays in the slice.
LEMMA WholeStays == ASSUME Whole, UNCHANGED <<mem, pushed>> PROVE Whole'
<1>1. Loops' = Loops
  BY SameMemory DEF Loops
<1>2. Visible' = Visible
  BY SameMemory DEF Visible
<1> QED BY <1>1, <1>2, SameMemory DEF Whole

\* The first step is at the current frame, and has visited nothing.
LEMMA EnterStep == WalkInv /\ Enter => WalkInv'
<1> SUFFICES ASSUME WalkInv, Enter PROVE WalkInv'
  OBVIOUS
<1>1. /\ at = "entry" /\ UNCHANGED <<mem, room, visited, pushed, raw>>
      /\ pushed = <<>> /\ visited = 0 /\ mem \in Memories /\ result = "none"
  BY DEF Enter, WalkInv, TypeOK
<1>2. Frames' = Frames /\ Top' = Top /\ Entered' = Entered /\ frame \in {0} \cup Frames
  BY <1>1, SameMemory DEF WalkInv, TypeOK, Frames
<1>3. CASE mem.tstate = 0
  <2>1. at' = "done" /\ result' = "NoThreadState" /\ frame' = frame
    BY <1>1, <1>3 DEF Enter, Drop
  <2>2. TypeOK' /\ (pushed \in Seq(Frames))'
    BY <1>1, <1>2, <2>1 DEF WalkInv, TypeOK, Reasons, Frames
  <2>3. DroppedForAReason'
    BY <1>1, <1>3, <2>1 DEF DroppedForAReason
  <2> QED BY <1>1, <2>1, <2>2, <2>3 DEF WalkInv
<1>4. CASE mem.tstate # 0 /\ FirstError(mem.current) # "none"
  <2>1. at' = "done" /\ result' = FirstError(mem.current) /\ frame' = frame
    BY <1>1, <1>4 DEF Enter, Drop
  <2>2. result' \in {"Read", "Invalid"}
    BY <1>4, <2>1, FirstErrorFacts
  <2>3. TypeOK' /\ (pushed \in Seq(Frames))'
    BY <1>1, <1>2, <2>1, <2>2 DEF WalkInv, TypeOK, Reasons, Frames
  <2>4. result' = FirstError(mem.current)' /\ mem'.tstate # 0
    BY <1>1, <1>4, <2>1 DEF FirstError, ReadError
  <2>5. DroppedForAReason'
    BY <2>4 DEF DroppedForAReason
  <2> QED BY <1>1, <2>1, <2>2, <2>3, <2>5 DEF WalkInv
<1>5. CASE mem.tstate # 0 /\ FirstError(mem.current) = "none"
  <2>1. at' = "walk" /\ frame' = Top /\ result' = "none" /\ Entered
    BY <1>1, <1>5 DEF Enter, Top, Entered
  <2>2. Top \in Frames \cup {0}
    BY <1>1, <2>1, TopFacts
  <2>3. TypeOK' /\ (pushed \in Seq(Frames))'
    BY <1>1, <1>2, <2>1, <2>2 DEF WalkInv, TypeOK, Reasons, Frames
  <2>4. Follows({})'
    BY <1>2, <2>1 DEF Follows, Reaches
  <2>5. Counted({})' /\ Written({})'
    BY <1>1, FS_EmptySet DEF Counted, Written, Rounds, IsInjective, Range
  <2>6. Walked'
    BY <1>2, <2>1, <2>4, <2>5 DEF Walked
  <2>7. DroppedForAReason'
    BY <2>1 DEF DroppedForAReason
  <2> QED BY <1>1, <2>1, <2>3, <2>6, <2>7 DEF WalkInv
<1> QED BY <1>3, <1>4, <1>5

\* A visit, of either kind.
LEMMA VisitStep == WalkInv /\ (VisitSkipped \/ VisitFrame) => WalkInv'
<1> SUFFICES ASSUME WalkInv, VisitSkipped \/ VisitFrame PROVE WalkInv'
  OBVIOUS
<1>1. /\ Visit /\ visited' = visited + 1 /\ Writes
      /\ UNCHANGED <<mem, room, at, raw, result>> /\ at = "walk"
  BY Zenon DEF VisitSkipped, VisitFrame, Visit, Writes
<1>2. /\ Walked /\ frame \in Frames /\ frame' \in Frames \cup {0} /\ visited \in Nat
      /\ visited < MaxFrames /\ (Skipped(frame) \/ Len(pushed) < room)
  BY <1>1, VisitFacts
<1>3. PICK W \in SUBSET Frames : Follows(W) /\ Counted(W) /\ Written(W)
  BY <1>2, Zenon DEF Walked
<1>4. PICK V : V = W \cup {frame}
  OBVIOUS
<1>5. Follows(V)' /\ Counted(V)' /\ Written(V)'
  BY <1>1, <1>3, <1>4, FollowsStep, CountedStep, WrittenStep
<1>6. Walked'
  BY <1>1, <1>2, <1>3, <1>4, <1>5, SameMemory DEF Walked
<1>7. result = "none" /\ room \in Nat
  BY <1>1, BoundsAssumption DEF WalkInv, TypeOK
<1>8. (pushed \in Seq(Frames))' /\ Len(pushed') =< room /\ Range(pushed') \subseteq Frames
  <2>1. CASE Skipped(frame)
    BY <1>1, <2>1, SameMemory DEF WalkInv, TypeOK, Writes, Frames
  <2>2. CASE ~Skipped(frame)
    <3>1. /\ pushed' \in Seq(Frames) /\ Len(pushed') = Len(pushed) + 1
          /\ Range(pushed') = Range(pushed) \cup {frame} /\ Len(pushed) \in Nat
      BY <1>1, <1>2, <2>2, AppendFacts, PushedFacts DEF Writes
    <3>2. Range(pushed) \subseteq Frames
      BY DEF WalkInv, TypeOK, Frames
    <3> QED BY <1>1, <1>2, <1>7, <2>2, <3>1, <3>2, SameMemory
  <2> QED BY <2>1, <2>2
<1>9. TypeOK'
  <2>1. visited' \in 0 .. MaxFrames
    BY <1>1, <1>2, BoundsAssumption
  <2> QED BY <1>1, <1>2, <1>8, <2>1, SameMemory DEF WalkInv, TypeOK, Frames
<1>10. DroppedForAReason'
  BY <1>1 DEF DroppedForAReason
<1> QED BY <1>1, <1>6, <1>7, <1>8, <1>9, <1>10 DEF WalkInv

\* A stack that is dropped has the reason it is dropped for.
LEMMA VisitFailsStep == WalkInv /\ VisitFails => WalkInv'
<1> SUFFICES ASSUME WalkInv, VisitFails PROVE WalkInv'
  OBVIOUS
<1>1. /\ at = "walk" /\ frame # 0 /\ StackError # "none" /\ at' = "done"
      /\ result' = StackError /\ UNCHANGED <<mem, room, frame, visited, pushed, raw>>
  BY DEF VisitFails, Drop
<1>2. StackError \in {"Read", "Invalid", "InvalidCodeType", "Truncated"}
  BY <1>1, FrameErrorFacts DEF StackError
<1>3. Walked
  BY <1>1 DEF WalkInv
<1>4. \/ \E f \in Chain : result' = FrameError(f)
      \/ /\ result' = "Truncated"
         /\ Loops \/ Cardinality(Chain) > MaxFrames \/ Cardinality(Visible) > room
  BY <1>1, <1>3, GivenUp
<1>5. Loops' = Loops /\ Visible' = Visible
  BY <1>1, SameMemory DEF Loops, Visible
<1>6. DroppedForAReason'
  BY <1>1, <1>4, <1>5, SameMemory DEF DroppedForAReason
<1>7. TypeOK'
  BY <1>1, <1>2 DEF WalkInv, TypeOK, Reasons
<1>8. (pushed \in Seq(Frames))' /\ mem' \in Memories
  BY <1>1, SameMemory DEF WalkInv
<1> QED BY <1>1, <1>2, <1>6, <1>7, <1>8 DEF WalkInv

\* The stack that goes to the ring is whole.
LEMMA WalkEndsStep == WalkInv /\ WalkEnds => WalkInv'
<1> SUFFICES ASSUME WalkInv, WalkEnds PROVE WalkInv'
  OBVIOUS
<1>1. /\ at = "walk" /\ frame = 0 /\ at' = "ring"
      /\ UNCHANGED <<mem, room, frame, visited, pushed, raw, result>> /\ result = "none"
  BY DEF WalkEnds, WalkInv, TypeOK
<1>2. Whole
  BY <1>1, WholeAtEnd DEF WalkInv
<1>3. Whole'
  BY <1>1, <1>2, WholeStays
<1>4. TypeOK' /\ DroppedForAReason'
  BY <1>1 DEF WalkInv, TypeOK, DroppedForAReason
<1>5. (pushed \in Seq(Frames))' /\ mem' \in Memories
  BY <1>1, SameMemory DEF WalkInv
<1> QED BY <1>1, <1>3, <1>4, <1>5 DEF WalkInv

\* An offset that does not fail is inside i32, and from 3.11 on it leads from the
\* code object to the instruction.
LEMMA OffsetFacts ==
    ASSUME mem \in Memories, NEW f \in Frames, FrameError(f) = "none", ~Skipped(f),
           ~OffsetFails(f)
    PROVE  /\ instruction_offset(f) \in Offsets
           /\ Py311 => /\ instruction_offset(f) >= 0
                       /\ Code(f) + instruction_offset(f) = Instr(f)
           /\ ~Py311 => instruction_offset(f) = Instr(f)
<1>1. instruction_offset(f) \in Offsets /\ (Py311 => ~(Instr(f) < Code(f)))
  BY Zenon DEF OffsetFails
<1>2. CASE Py311
  <2>1. Instr(f) \in Nat /\ mem.frames[f].executable \in Nat
    BY <1>2, InstrRead, MemoryAssumption DEF Instr, Frames, Py311
  <2>2. Code(f) \in Int
    BY <2>1 DEF Code, TagModulus
  <2>3. instruction_offset(f) = Instr(f) - Code(f)
    BY <1>2 DEF instruction_offset
  <2> QED BY <1>1, <1>2, <2>1, <2>2, <2>3
<1>3. CASE ~Py311
  BY <1>1, <1>3 DEF instruction_offset
<1> QED BY <1>2, <1>3

\* py-spy gets the code objects of the stack.
LEMMA ResolveStep == WalkInv /\ Resolve => WalkInv'
<1> SUFFICES ASSUME WalkInv, Resolve PROVE WalkInv'
  OBVIOUS
<1>1. /\ at = "ring" /\ at' = "done" /\ Whole /\ mem \in Memories
      /\ UNCHANGED <<mem, room, frame, visited, pushed>>
      /\ result' \in {"ok", "resolve_error"}
  BY DEF Resolve, WalkInv
<1>2. Whole'
  BY <1>1, WholeStays
<1>3. TypeOK' /\ DroppedForAReason'
  BY <1>1 DEF WalkInv, TypeOK, Reasons, DroppedForAReason
<1>4. (pushed \in Seq(Frames))' /\ mem' \in Memories
  BY <1>1, SameMemory DEF WalkInv
<1>5. ASSUME result' = "ok" PROVE Handed'
  <2>1. /\ raw' = [i \in DOMAIN pushed |-> RawFrame(pushed[i])]
        /\ LastLine => \A i \in DOMAIN pushed : ~OffsetFails(pushed[i])
    BY <1>5 DEF Resolve
  <2>2. DOMAIN raw' = DOMAIN pushed'
    BY <1>1, <2>1
  <2> SUFFICES ASSUME NEW i \in DOMAIN pushed
               PROVE  /\ mem.types[raw'[i].code] = CodeType /\ raw'[i].lasti \in Offsets
                      /\ LastLine /\ Py311 =>
                           /\ raw'[i].lasti >= 0
                           /\ raw'[i].code + raw'[i].lasti = Instr(pushed[i])
                      /\ LastLine /\ ~Py311 => raw'[i].lasti = Instr(pushed[i])
    BY <1>1, <2>2 DEF Handed, Instr, Py311
  <2> DEFINE f == pushed[i]
  <2>3. f \in Frames /\ f \in Visible
    BY <1>1, PushedFacts DEF Whole, WalkInv
  <2>4. raw'[i].code = Code(f)
        /\ raw'[i].lasti = IF LastLine THEN instruction_offset(f) ELSE 0
    BY <2>1 DEF RawFrame
  <2>5. FrameError(f) = "none" /\ ~Skipped(f)
    BY <1>1, <2>3 DEF Whole, Visible
  <2>6. mem.types[Code(f)] = CodeType
    BY <2>5 DEF FrameError
  <2> HIDE DEF f
  <2>7. CASE LastLine
    <3>1. ~OffsetFails(f)
      BY <2>1, <2>7 DEF f
    <3>2. raw'[i].lasti = instruction_offset(f)
      BY <2>4, <2>7
    <3> QED BY <1>1, <2>3, <2>4, <2>5, <2>6, <2>7, <3>1, <3>2, OffsetFacts DEF f
  <2>8. CASE ~LastLine
    BY <2>4, <2>6, <2>8, BoundsAssumption DEF Offsets
  <2> QED BY <2>7, <2>8
<1> QED BY <1>1, <1>2, <1>3, <1>4, <1>5 DEF WalkInv

-----------------------------------------------------------------------------
(***************************************************************************)
(* What it gives                                                           *)
(***************************************************************************)

\* The invariant holds at first.
LEMMA WalkInit == Init => WalkInv
<1> SUFFICES ASSUME Init PROVE WalkInv
  OBVIOUS
<1>1. TypeOK
  BY BoundsAssumption DEF Init, TypeOK, Range
<1>2. DroppedForAReason
  BY DEF Init, DroppedForAReason
<1> QED BY <1>1, <1>2 DEF Init, WalkInv

\* So it holds in every state.
LEMMA WalkInvariant == Spec => []WalkInv
<1>1. WalkInv /\ Next => WalkInv'
  BY EnterStep, VisitStep, VisitFailsStep, WalkEndsStep, ResolveStep DEF Next
<1>2. WalkInv /\ UNCHANGED vars => WalkInv'
  <2> SUFFICES ASSUME WalkInv, UNCHANGED vars PROVE WalkInv'
    OBVIOUS
  <2>1. UNCHANGED <<mem, room, at, frame, visited, pushed, raw, result>>
    BY DEF vars
  <2>2. Walked => Walked'
    BY <2>1, SameMemory DEF Walked, Follows, Counted, Written, Rounds
  <2>3. Whole => Whole'
    BY <2>1, WholeStays
  <2>4. Handed => Handed'
    BY <2>1 DEF Handed, Instr, Py311
  <2>5. Loops' = Loops /\ Visible' = Visible
    BY <2>1, SameMemory DEF Loops, Visible
  <2>6. FirstError(mem.current)' = FirstError(mem.current)
    BY <2>1 DEF FirstError, ReadError
  <2>7. DroppedForAReason'
    BY <2>1, <2>5, <2>6, SameMemory DEF WalkInv, DroppedForAReason
  <2>8. TypeOK' /\ (pushed \in Seq(Frames))'
    BY <2>1, SameMemory DEF WalkInv, TypeOK
  <2> QED BY <2>1, <2>2, <2>3, <2>4, <2>7, <2>8 DEF WalkInv
<1> QED BY WalkInit, <1>1, <1>2, PTL DEF Spec

\* Every variable has its type; the walk stays inside the slice and MAX_FRAMES.
THEOREM WalkTypes == Spec => []TypeOK
<1>1. WalkInv => TypeOK
  BY DEF WalkInv
<1> QED BY <1>1, WalkInvariant, PTL

\* A stack that reaches the ring is the whole stack of the thread, innermost
\* frame first, and what py-spy gets are its code objects (walk, "Never publish a
\* partial stack"; resolve_stack).
THEOREM StackComplete == Spec => []CompleteStack
<1>1. WalkInv => CompleteStack
  BY DEF WalkInv, Whole, Handed, CompleteStack
<1> QED BY <1>1, WalkInvariant, PTL

\* A stack is dropped only for a reason it has: a chain that can be read, ends
\* and fits is recorded, of exactly MAX_FRAMES frames or to the end of the slice.
THEOREM DropsJustified == Spec => []DroppedForAReason
<1>1. WalkInv => DroppedForAReason
  BY DEF WalkInv
<1> QED BY <1>1, WalkInvariant, PTL
=============================================================================
