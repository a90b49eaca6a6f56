---------------------------- MODULE FfikitProofs ----------------------------
(***************************************************************************)
(* Proofs about Ffikit and the agent it starts, for any number of Python   *)
(* threads, calls, samples and queued sessions.                            *)
(*                                                                         *)
(* Of PyroscopeAgent: the types; and, for one agent on its own, that no    *)
(* sample is counted twice or lost, that stop() flushes, and that the time *)
(* ranges of its sessions do not overlap.                                  *)
(*                                                                         *)
(* Of Ffikit: the calls are accounted for, an agent that is off has        *)
(* nothing running, fork() is warned about, no sample of an earlier agent  *)
(* is uploaded, at_exit leaves no agent behind, and the whole implements   *)
(* Lifecycle.                                                              *)
(***************************************************************************)
EXTENDS Ffikit, SequenceTheorems, FiniteSetTheorems, TLAPS

USE DEF agentVars, cpuVars, profVars, pyVars, mainVars, sessVars, histVars

-----------------------------------------------------------------------------
(***************************************************************************)
(* The samples of a sequence of sessions                                   *)
(***************************************************************************)

\* A sample of a sequence is in one of its sessions.
LEMMA SamplesMember ==
    ASSUME NEW ss \in Seq(Signal), NEW x
    PROVE  x \in Samples(ss) <=> \E i \in 1 .. Len(ss) : ss[i] # Kill /\ x \in ss[i].data
BY DEF Samples

\* An empty channel holds no sample.
LEMMA SamplesEmpty == Samples(<< >>) = {}
BY DEF Samples

\* A channel with one element holds its samples, if it is a session.
LEMMA SamplesOne ==
    ASSUME NEW s \in Signal
    PROVE  Samples(<<s>>) = IF s = Kill THEN {} ELSE s.data
<1>1. <<s>> \in Seq(Signal) /\ Len(<<s>>) = 1 /\ <<s>>[1] = s
  OBVIOUS
<1>2. ASSUME NEW x PROVE x \in Samples(<<s>>) <=> s # Kill /\ x \in s.data
  <2>1. x \in Samples(<<s>>) <=> \E i \in 1 .. 1 : <<s>>[i] # Kill /\ x \in <<s>>[i].data
    BY <1>1, SamplesMember
  <2>2. \A i \in 1 .. 1 : i = 1
    OBVIOUS
  <2> QED BY <1>1, <2>1, <2>2
<1> QED BY <1>2

\* Sending adds the samples of the session.
LEMMA SamplesAppend ==
    ASSUME NEW ss \in Seq(Signal), NEW s \in Signal
    PROVE  Samples(Append(ss, s)) = Samples(ss) \cup Samples(<<s>>)
<1>1. Append(ss, s) \in Seq(Signal) /\ Len(Append(ss, s)) = Len(ss) + 1
  OBVIOUS
<1>2. \A i \in 1 .. Len(ss) : Append(ss, s)[i] = ss[i]
  OBVIOUS
<1>3. Append(ss, s)[Len(ss) + 1] = s
  OBVIOUS
<1> DEFINE more == Append(ss, s)
<1>4. ASSUME NEW x PROVE x \in Samples(more) <=> x \in Samples(ss) \/ x \in Samples(<<s>>)
  <2>1. x \in Samples(<<s>>) <=> s # Kill /\ x \in s.data
    BY SamplesOne
  <2>2. x \in Samples(ss) <=> \E i \in 1 .. Len(ss) : ss[i] # Kill /\ x \in ss[i].data
    BY SamplesMember
  <2>3. x \in Samples(more) <=>
          \E i \in 1 .. Len(more) : more[i] # Kill /\ x \in more[i].data
    BY <1>1, SamplesMember
  <2>4. \A i : i \in 1 .. Len(more) <=> i \in 1 .. Len(ss) \/ i = Len(ss) + 1
    BY <1>1
  <2> HIDE DEF more
  <2> QED BY <1>2, <1>3, <2>1, <2>2, <2>3, <2>4 DEF more
<1> QED BY <1>4

\* Receiving splits the samples between the session received and the rest.
LEMMA SamplesHeadTail ==
    ASSUME NEW ss \in Seq(Signal), ss # << >>
    PROVE  Samples(ss) = Samples(<<Head(ss)>>) \cup Samples(Tail(ss))
<1>1. /\ Tail(ss) \in Seq(Signal) /\ Len(Tail(ss)) = Len(ss) - 1
      /\ Head(ss) = ss[1] /\ Len(ss) > 0 /\ Head(ss) \in Signal
  OBVIOUS
<1>2. \A i \in 1 .. Len(ss) - 1 : Tail(ss)[i] = ss[i + 1]
  OBVIOUS
<1>4. ASSUME NEW x
      PROVE  x \in Samples(ss) <=> x \in Samples(<<Head(ss)>>) \/ x \in Samples(Tail(ss))
  <2>1. ASSUME x \in Samples(ss)
        PROVE  x \in Samples(<<Head(ss)>>) \/ x \in Samples(Tail(ss))
    <3>1. PICK i \in 1 .. Len(ss) : ss[i] # Kill /\ x \in ss[i].data
      BY <2>1, SamplesMember
    <3>2. CASE i = 1
      BY <3>1, <3>2, <1>1, SamplesOne
    <3>3. CASE i > 1
      <4>1. i - 1 \in 1 .. Len(ss) - 1 /\ Tail(ss)[i - 1] = ss[i]
        BY <3>3, <1>1, <1>2
      <4> QED BY <4>1, <3>1, <1>1, SamplesMember
    <3> QED BY <3>2, <3>3
  <2>2. ASSUME x \in Samples(<<Head(ss)>>) PROVE x \in Samples(ss)
    BY <2>2, <1>1, SamplesMember, SamplesOne
  <2>3. ASSUME x \in Samples(Tail(ss)) PROVE x \in Samples(ss)
    <3>1. PICK i \in 1 .. Len(ss) - 1 : Tail(ss)[i] # Kill /\ x \in Tail(ss)[i].data
      BY <2>3, <1>1, SamplesMember
    <3> QED BY <3>1, <1>1, <1>2, SamplesMember
  <2> QED BY <2>1, <2>2, <2>3
<1> QED BY <1>4

\* What is in a session is a sample.
LEMMA SamplesTyped ==
    ASSUME NEW ss \in Seq(Signal)
    PROVE  Samples(ss) \subseteq Sample
<1>1. ASSUME NEW x \in Samples(ss) PROVE x \in Sample
  <2>1. PICK i \in 1 .. Len(ss) : ss[i] # Kill /\ x \in ss[i].data
    BY SamplesMember
  <2>2. ss[i] \in SessionType
    BY <2>1 DEF Signal
  <2> QED BY <2>1, <2>2 DEF SessionType
<1> QED BY <1>1

\* The stream is what was uploaded, then the upload that goes on, then the queue.
LEMMA StreamShape ==
    ASSUME SessionTypeOK
    PROVE  /\ Stream \in Seq(Signal)
           /\ Len(Stream) = Len(attempted) + 1 + Len(chan)
           /\ \A i \in 1 .. Len(attempted) : Stream[i] = attempted[i]
           /\ Stream[Len(attempted) + 1] = cur
           /\ \A i \in 1 .. Len(chan) : Stream[Len(attempted) + 1 + i] = chan[i]
<1>1. attempted \in Seq(Signal) /\ chan \in Seq(Signal) /\ cur \in Signal
  BY DEF SessionTypeOK, Signal
<1> DEFINE up == attempted \o <<cur>>
<1>2. up \in Seq(Signal) /\ Len(up) = Len(attempted) + 1
  BY <1>1
<1>3. /\ \A i \in 1 .. Len(attempted) : up[i] = attempted[i]
      /\ up[Len(attempted) + 1] = cur
  BY <1>1
<1>4. Stream = up \o chan
  BY DEF Stream
<1> HIDE DEF up
<1>5. Stream \in Seq(Signal) /\ Len(Stream) = Len(up) + Len(chan)
  BY <1>1, <1>2, <1>4, ConcatProperties
<1>6. /\ \A i \in 1 .. Len(up) : Stream[i] = up[i]
      /\ \A i \in 1 .. Len(chan) : Stream[Len(up) + i] = chan[i]
  BY <1>1, <1>2, <1>4, ConcatProperties
<1> QED BY <1>1, <1>2, <1>3, <1>5, <1>6

\* Its samples are theirs.
LEMMA SamplesOfStream ==
    ASSUME SessionTypeOK
    PROVE  Samples(Stream) = Samples(attempted) \cup Samples(<<cur>>) \cup Samples(chan)
<1>1. attempted \in Seq(Signal) /\ chan \in Seq(Signal) /\ cur \in Signal
  BY DEF SessionTypeOK, Signal
<1>2. ASSUME NEW x \in Samples(Stream)
      PROVE  x \in Samples(attempted) \/ x \in Samples(<<cur>>) \/ x \in Samples(chan)
  <2>1. PICK i \in 1 .. Len(Stream) : Stream[i] # Kill /\ x \in Stream[i].data
    BY StreamShape, SamplesMember
  <2>2. CASE i \in 1 .. Len(attempted)
    BY <2>1, <2>2, <1>1, StreamShape, SamplesMember
  <2>3. CASE i = Len(attempted) + 1
    BY <2>1, <2>3, <1>1, StreamShape, SamplesOne
  <2>4. CASE i > Len(attempted) + 1
    <3>1. i - Len(attempted) - 1 \in 1 .. Len(chan)
      BY <2>4, <1>1, StreamShape
    <3>2. Stream[i] = chan[i - Len(attempted) - 1]
      <4> DEFINE k == i - Len(attempted) - 1
      <4>1. k \in 1 .. Len(chan) /\ i = Len(attempted) + 1 + k
        BY <3>1, <1>1, <2>1
      <4> HIDE DEF k
      <4>2. Stream[i] = chan[k]
        BY <4>1, StreamShape
      <4> QED BY <4>2 DEF k
    <3> QED BY <3>1, <3>2, <2>1, <1>1, SamplesMember
  <2> QED BY <2>2, <2>3, <2>4, <1>1
<1>3. ASSUME NEW x \in Samples(attempted) PROVE x \in Samples(Stream)
  BY <1>1, <1>3, StreamShape, SamplesMember
<1>4. ASSUME NEW x \in Samples(<<cur>>) PROVE x \in Samples(Stream)
  BY <1>1, <1>4, StreamShape, SamplesMember, SamplesOne
<1>5. ASSUME NEW x \in Samples(chan) PROVE x \in Samples(Stream)
  <2>1. PICK i \in 1 .. Len(chan) : chan[i] # Kill /\ x \in chan[i].data
    BY <1>1, <1>5, SamplesMember
  <2>2. Stream[Len(attempted) + 1 + i] = chan[i]
    BY StreamShape
  <2>3. Len(attempted) + 1 + i \in 1 .. Len(Stream)
    BY <1>1, StreamShape
  <2> QED BY <2>1, <2>2, <2>3, StreamShape, SamplesMember
<1> QED BY <1>2, <1>3, <1>4, <1>5

-----------------------------------------------------------------------------
(***************************************************************************)
(* The invariant of an agent, whoever starts and stops it                  *)
(***************************************************************************)

\* A join of stop() that has returned: the thread is gone, and stays so.
StopOrder ==
    /\ stop \notin {"idle", "join_main"} => main = "done"
    /\ stop \in {"kill", "join_session", "stopped"} => sampler \in {"none", "done"}
    /\ stop = "stopped" => ~SessionAlive

\* The session thread has a session in hand exactly while it uploads; a channel
\* without receiver is empty; Kill is the last element, sent after the main
\* thread has ended.
Handover ==
    /\ session = "push" <=> cur # Kill
    /\ ~SessionAlive => chan = << >>
    /\ \A i \in 1 .. Len(chan) :
         chan[i] = Kill => i = Len(chan) /\ stop \in {"join_session", "stopped"}

\* Between two snapshots, two traces and two agents nothing is in hand.
AtRest ==
    /\ main \notin {"cpu", "send"} => batch = {}
    /\ sampler # "record" => inHand = {}
    /\ main \in {"none", "start"} => attempted = << >> /\ chan = << >> /\ cur = Kill
    /\ main = "none" => sampler = "none" /\ session = "none" /\ buffer = {}

CoreInv == TypeOK /\ StopOrder /\ Handover /\ AtRest

\* What an agent does, in any environment.
AgentStep ==
    \/ BuildAndStart \/ StopBegin \/ Background
    \/ \E c \in Pythons : AcquireGil(c) \/ ReleaseGil(c)

\* A new agent has its types.
LEMMA StartTypes ==
    ASSUME TypeOK, BuildAndStart
    PROVE  TypeOK'
<1>a. /\ terminated' \in BOOLEAN /\ final' \in BOOLEAN /\ mainErr' \in BOOLEAN
      /\ steppedBack' \in BOOLEAN
  BY Zenon DEF BuildAndStart
<1>1. SamplingTypeOK'
  BY CpuAssumption DEF TypeOK, SamplingTypeOK, Sample, BuildAndStart, Buffered
<1>2. MainTypeOK'
  BY <1>a DEF TypeOK, MainTypeOK, RangeType, NoRange, BuildAndStart
<1>3. SessionTypeOK'
  BY BoundsAssumption DEF TypeOK, SessionTypeOK, Signal, BuildAndStart
<1>4. StopTypeOK'
  BY <1>a DEF TypeOK, StopTypeOK, BuildAndStart
<1> QED BY <1>1, <1>2, <1>3, <1>4 DEF TypeOK

\* lap() gives a range, or its error ends the main thread.
LEMMA WakeTypes ==
    ASSUME TypeOK, MainWake
    PROVE  MainTypeOK'
<1>a. terminated' \in BOOLEAN /\ final' \in BOOLEAN /\ mainErr' \in BOOLEAN 
  BY Zenon DEF MainWake, TypeOK, MainTypeOK
<1>b. main' \in {"memory", "cpu", "done"} /\ batch' = batch /\ now' = now
  BY Zenon DEF MainWake
<1>c. sw \in Int /\ now \in Int /\ range \in RangeType
  BY BoundsAssumption DEF TypeOK, MainTypeOK
<1>d. sw' \in Int /\ range' \in RangeType
  <2>1. CASE LapFails(sw)
    BY <1>c, <2>1 DEF MainWake
  <2>2. CASE ~LapFails(sw)
     <3>1. range' = TimeRange(sw, now) /\ sw' = now
       BY <2>2 DEF MainWake
     <3>2. TimeRange(sw, now) \in RangeType
       BY <1>c DEF TimeRange, RangeType
     <3> QED BY <3>1, <3>2, <1>c
  <2> QED BY <2>1, <2>2
<1> QED BY <1>a, <1>b, <1>d DEF TypeOK, MainTypeOK

\* The memory flush adds at most one sample of the live heap.
LEMMA FlushTypes ==
    ASSUME TypeOK, MemFlush
    PROVE  SamplingTypeOK' /\ MainTypeOK'
<1>a. PICK heap \in {{}, {taken + 1}} :
                 /\ heap # {} => memHooks /\ taken < MaxSamples
                 /\ taken' = taken + Cardinality(heap)
                 /\ batch' = batch \cup memBuf \cup heap
  BY Zenon DEF MemFlush
<1>b. taken \in 0 .. MaxSamples /\ MaxSamples \in Nat
  BY BoundsAssumption DEF TypeOK, SamplingTypeOK
<1>c. taken' \in 0 .. MaxSamples /\ heap \subseteq Sample
  <2>1. CASE heap = {}
    BY <1>a, <1>b, <2>1, FS_EmptySet
  <2>2. CASE heap = {taken + 1}
    <3>1. Cardinality(heap) = 1
      BY <2>2, FS_Singleton
    <3> QED BY <1>a, <1>b, <2>2, <3>1 DEF Sample
  <2> QED BY <2>1, <2>2
<1>d. batch' \subseteq Sample
  BY <1>a, <1>c DEF TypeOK, MainTypeOK, SamplingTypeOK
<1>1. SamplingTypeOK'
  BY <1>c DEF TypeOK, SamplingTypeOK, MemFlush, Sample
<1>2. MainTypeOK'
  BY <1>d DEF TypeOK, MainTypeOK, MemFlush, Sample
<1> QED BY <1>1, <1>2

\* The report takes the samples of the CPU profiler.
LEMMA ReportTypes ==
    ASSUME TypeOK, CpuReport
    PROVE  SamplingTypeOK' /\ MainTypeOK'
<1>a. batch' \subseteq Sample /\ main' \in {"send", "done", "wait"}
  BY DEF CpuReport, EndSnapshot, TypeOK, SamplingTypeOK, MainTypeOK
<1>b. buffer' \subseteq Sample /\ stackBuf' \subseteq Sample
  BY DEF CpuReport, TypeOK, SamplingTypeOK
<1>1. SamplingTypeOK'
  BY <1>b DEF TypeOK, SamplingTypeOK, CpuReport, Sample
<1>2. MainTypeOK'
  BY <1>a DEF TypeOK, MainTypeOK, CpuReport, Sample
<1> QED BY <1>1, <1>2

\* The queue takes no more than its capacity.
LEMMA SendTypes ==
    ASSUME TypeOK, SendSession
    PROVE  MainTypeOK' /\ SessionTypeOK'
<1>a. mainErr' \in BOOLEAN
  BY Zenon DEF SendSession, TypeOK, MainTypeOK
<1>b. batch' = {} /\ main' \in {"done", "wait"}
  BY DEF SendSession, EndSnapshot
<1>c. Session(range, batch) \in Signal
  BY DEF TypeOK, MainTypeOK, RangeType, Session, Signal, SessionType
<1>d. chan' \in Seq(Signal) /\ Len(chan') =< ChanCap
  <2>1. CASE chan' = chan
    BY <2>1 DEF TypeOK, SessionTypeOK
  <2>2. CASE chan' = Append(chan, Session(range, batch)) /\ Len(chan) < ChanCap
    BY <2>2, <1>c, BoundsAssumption DEF TypeOK, SessionTypeOK
  <2> QED BY <2>1, <2>2 DEF SendSession
<1>1. MainTypeOK'
  BY <1>a, <1>b DEF TypeOK, MainTypeOK, SendSession
<1>2. SessionTypeOK'
  BY <1>d DEF TypeOK, SessionTypeOK, SendSession
<1> QED BY <1>1, <1>2

\* What is received is a session or Kill.
LEMMA RecvTypes ==
    ASSUME TypeOK, SessionRecv
    PROVE  SessionTypeOK'
<1>a. chan # <<>> /\ chan \in Seq(Signal) /\ Len(chan) =< ChanCap
  BY DEF TypeOK, SessionTypeOK, SessionRecv
<1>b. chan' \in Seq(Signal) /\ Len(chan') =< ChanCap /\ cur' \in Signal
  <2>1. CASE chan' = <<>> /\ cur' = cur
    BY <2>1, BoundsAssumption DEF TypeOK, SessionTypeOK
  <2>2. CASE chan' = Tail(chan) /\ cur' = Head(chan)
    BY <2>2, <1>a, BoundsAssumption
  <2> QED BY <2>1, <2>2 DEF SessionRecv
<1> QED BY <1>b DEF TypeOK, SessionTypeOK, SessionRecv

\* Kill waits for room in the queue as well.
LEMMA KillTypes ==
    ASSUME TypeOK, StopSendKill
    PROVE  SessionTypeOK'
<1>a. chan' \in Seq(Signal) /\ Len(chan') =< ChanCap
  <2>1. CASE chan' = chan
    BY <2>1 DEF TypeOK, SessionTypeOK
  <2>2. CASE chan' = Append(chan, Kill) /\ Len(chan) < ChanCap
    BY <2>2, BoundsAssumption DEF TypeOK, SessionTypeOK, Signal
  <2> QED BY <2>1, <2>2 DEF StopSendKill
<1> QED BY <1>a DEF TypeOK, SessionTypeOK, StopSendKill

\* An upload is of a session.
LEMMA PushTypes ==
    ASSUME TypeOK, Handover, SessionPush
    PROVE  SessionTypeOK'
<1>1. cur \in SessionType /\ Kill \in Signal
  BY DEF TypeOK, SessionTypeOK, Handover, SessionPush, Signal
<1>2. attempted' \in Seq(SessionType)
  <2>1. attempted \in Seq(SessionType)
    BY DEF TypeOK, SessionTypeOK
  <2> QED BY <1>1, <2>1 DEF SessionPush
<1>3. chan' \in Seq(Signal) /\ Len(chan') =< ChanCap
  <2>1. chan \in Seq(Signal) /\ Len(chan) =< ChanCap
    BY DEF TypeOK, SessionTypeOK
  <2>2. chan' = << >> \/ chan' = chan
    BY DEF SessionPush
  <2>3. CASE chan' = << >>
    BY <2>3, BoundsAssumption
  <2>4. CASE chan' = chan
    BY <2>1, <2>4
  <2> QED BY <2>2, <2>3, <2>4
<1> QED BY <1>1, <1>2, <1>3 DEF TypeOK, SessionTypeOK, SessionPush

\* What stop() finds recorded is samples.
LEMMA StopTypes ==
    ASSUME TypeOK, StopBegin
    PROVE  TypeOK'
<1>1. Samples(Stream) \subseteq Sample
  BY StreamShape, SamplesTyped DEF TypeOK
<1>2. atStop' \subseteq Sample
  BY <1>1 DEF TypeOK, SamplingTypeOK, MainTypeOK, StopBegin
<1>3. terminated' \in BOOLEAN
  BY Zenon DEF StopBegin
<1>4. SamplingTypeOK'
  BY DEF TypeOK, SamplingTypeOK, StopBegin
<1>5. MainTypeOK'
  BY <1>3 DEF TypeOK, MainTypeOK, StopBegin
<1>6. SessionTypeOK'
  BY DEF TypeOK, SessionTypeOK, StopBegin
<1>7. StopTypeOK'
  BY <1>2 DEF TypeOK, StopTypeOK, StopBegin
<1> QED BY <1>4, <1>5, <1>6, <1>7 DEF TypeOK

\* shutdown_thread clears the flag of the sampler.
LEMMA BackendTypes ==
    ASSUME TypeOK, StopBackend
    PROVE  TypeOK'
<1>1. running' \in BOOLEAN
  BY Zenon DEF StopBackend
<1>2. SamplingTypeOK'
  BY <1>1 DEF TypeOK, SamplingTypeOK, StopBackend
<1>3. MainTypeOK' /\ SessionTypeOK' /\ StopTypeOK'
  BY DEF TypeOK, MainTypeOK, SessionTypeOK, StopTypeOK, StopBackend
<1> QED BY <1>2, <1>3 DEF TypeOK

\* Every step of an agent, and of the threads around it, keeps the types.
LEMMA TypesStep ==
    ASSUME CoreInv, AgentStep
    PROVE  TypeOK'
<1> USE BoundsAssumption DEF CoreInv, TypeOK, Sample
<1>1. CASE BuildAndStart
  BY <1>1, StartTypes
<1>2. CASE SamplerStart
  BY <1>2 DEF SamplerStart, SamplingTypeOK, MainTypeOK, SessionTypeOK, StopTypeOK
<1>3. CASE SamplerTake
  BY <1>3 DEF SamplerTake, SamplingTypeOK, MainTypeOK, SessionTypeOK, StopTypeOK
<1>4. CASE SamplerRecord
  BY <1>4 DEF SamplerRecord, SamplingTypeOK, MainTypeOK, SessionTypeOK, StopTypeOK
<1>5. CASE SamplerEnd
  BY <1>5 DEF SamplerEnd, SamplingTypeOK, MainTypeOK, SessionTypeOK, StopTypeOK
<1>6. CASE MemSample
  BY <1>6 DEF MemSample, SamplingTypeOK, MainTypeOK, SessionTypeOK, StopTypeOK
<1>7. CASE StackSample
  BY <1>7 DEF StackSample, SamplingTypeOK, MainTypeOK, SessionTypeOK, StopTypeOK
<1>8. CASE ClockStep
  BY <1>8 DEF ClockStep, SamplingTypeOK, MainTypeOK, SessionTypeOK, StopTypeOK
<1>9. CASE MainStart
  BY <1>9 DEF MainStart, SamplingTypeOK, MainTypeOK, SessionTypeOK, StopTypeOK
<1>10. CASE MainWake
  <2>1. MainTypeOK'
    BY <1>10, WakeTypes
  <2>2. SamplingTypeOK' /\ SessionTypeOK' /\ StopTypeOK'
    BY <1>10 DEF MainWake, SamplingTypeOK, SessionTypeOK, StopTypeOK
  <2> QED BY <2>1, <2>2
<1>11. CASE MemAttach
  BY <1>11 DEF MemAttach, SamplingTypeOK, MainTypeOK, SessionTypeOK, StopTypeOK
<1>12. CASE MemAttachRefused
  BY <1>12 DEF MemAttachRefused, SamplingTypeOK, MainTypeOK, SessionTypeOK, StopTypeOK
<1>13. CASE MemFlush
  <2>1. SamplingTypeOK' /\ MainTypeOK'
    BY <1>13, FlushTypes
  <2>2. SessionTypeOK' /\ StopTypeOK'
    BY <1>13 DEF MemFlush, SessionTypeOK, StopTypeOK
  <2> QED BY <2>1, <2>2
<1>14. CASE CpuReport
  <2>1. SamplingTypeOK' /\ MainTypeOK'
    BY <1>14, ReportTypes
  <2>2. SessionTypeOK' /\ StopTypeOK'
    BY <1>14 DEF CpuReport, SessionTypeOK, StopTypeOK
  <2> QED BY <2>1, <2>2
<1>15. CASE SendSession
  <2>1. MainTypeOK' /\ SessionTypeOK'
    BY <1>15, SendTypes
  <2>2. SamplingTypeOK' /\ StopTypeOK'
    BY <1>15 DEF SendSession, SamplingTypeOK, StopTypeOK
  <2> QED BY <2>1, <2>2
<1>16. CASE SessionRecv
  <2>1. SessionTypeOK'
    BY <1>16, RecvTypes
  <2>2. SamplingTypeOK' /\ MainTypeOK' /\ StopTypeOK'
    BY <1>16 DEF SessionRecv, SamplingTypeOK, MainTypeOK, StopTypeOK
  <2> QED BY <2>1, <2>2
<1>17. CASE SessionPush
  <2>1. SessionTypeOK'
    BY <1>17, PushTypes
  <2>2. SamplingTypeOK' /\ MainTypeOK' /\ StopTypeOK'
    BY <1>17 DEF SessionPush, SamplingTypeOK, MainTypeOK, StopTypeOK
  <2> QED BY <2>1, <2>2
<1>18. CASE StopBegin
  BY <1>18, StopTypes
<1>19. CASE StopJoinMain
  BY <1>19 DEF StopJoinMain, SamplingTypeOK, MainTypeOK, SessionTypeOK, StopTypeOK
<1>20. CASE StopBackend
  BY <1>20, BackendTypes
<1>21. CASE StopJoinSampler
  BY <1>21 DEF StopJoinSampler, SamplingTypeOK, MainTypeOK, SessionTypeOK, StopTypeOK
<1>22. CASE StopSendKill
  <2>1. SessionTypeOK'
    BY <1>22, KillTypes
  <2>2. SamplingTypeOK' /\ MainTypeOK' /\ StopTypeOK'
    BY <1>22 DEF StopSendKill, SamplingTypeOK, MainTypeOK, StopTypeOK
  <2> QED BY <2>1, <2>2
<1>23. CASE StopJoinSession
  BY <1>23 DEF StopJoinSession, SamplingTypeOK, MainTypeOK, SessionTypeOK, StopTypeOK
<1>24. CASE \E c \in Pythons : AcquireGil(c) \/ ReleaseGil(c)
  <2>1. gil' \in Pythons \cup {"free", "snapshot"}
    BY <1>24 DEF AcquireGil, ReleaseGil
  <2>2. UNCHANGED <<taken, cpuVars, profVars, finalizing, now, terminated, mainVars,
                    sessVars, stop, histVars>>
    BY <1>24 DEF AcquireGil, ReleaseGil
  <2> QED BY <2>1, <2>2 DEF SamplingTypeOK, MainTypeOK, SessionTypeOK, StopTypeOK
<1> QED
  BY <1>1, <1>2, <1>3, <1>4, <1>5, <1>6, <1>7, <1>8, <1>9, <1>10, <1>11, <1>12,
      <1>13, <1>14, <1>15, <1>16, <1>17, <1>18, <1>19, <1>20, <1>21, <1>22,
      <1>23, <1>24
  DEF AgentStep, Background, AgentThreads, SamplerThread, MainThread, SessionThread,
      Joiner

\* A session is queued while the main thread runs, so Kill is not in the queue.
LEMMA SendHandover ==
    ASSUME CoreInv, SendSession
    PROVE  Handover'
<1>1. /\ cur' = cur /\ session' = session /\ stop' = stop /\ chan \in Seq(Signal)
      /\ session = "push" <=> cur # Kill
      /\ stop \notin {"join_session", "stopped"}
  BY DEF CoreInv, TypeOK, SessionTypeOK, StopOrder, Handover, SendSession
<1>2. CASE ~SessionAlive
  BY <1>1, <1>2 DEF CoreInv, Handover, SessionAlive, SendSession
<1>3. CASE SessionAlive
  <2> DEFINE s == Session(range, batch)
  <2>1. chan' = Append(chan, s) /\ s # Kill
    BY <1>3 DEF SendSession, Session, Kill
  <2>2. \A i \in 1 .. Len(chan) : chan[i] # Kill
    BY <1>1 DEF CoreInv, Handover
  <2> HIDE DEF s
  <2>3. \A i \in 1 .. Len(chan') : chan'[i] # Kill
    BY <2>1, <2>2, <1>1
  <2> QED BY <1>1, <1>3, <2>3 DEF Handover, SessionAlive
<1> QED BY <1>2, <1>3

\* What is received goes into the hand of the session thread, or ends it.
LEMMA RecvHandover ==
    ASSUME CoreInv, SessionRecv
    PROVE  Handover'
<1>1. /\ chan \in Seq(Signal) /\ chan # << >> /\ stop' = stop
      /\ session = "recv" /\ cur = Kill
      /\ \A i \in 1 .. Len(chan) :
           chan[i] = Kill => i = Len(chan) /\ stop \in {"join_session", "stopped"}
  BY DEF CoreInv, TypeOK, SessionTypeOK, Handover, SessionRecv
<1>2. CASE Head(chan) = Kill
  <2>1. session' = "done" /\ chan' = << >> /\ cur' = cur
    BY <1>2 DEF SessionRecv
  <2> QED BY <1>1, <2>1 DEF Handover, SessionAlive
<1>3. CASE Head(chan) # Kill
  <2>1. session' = "push" /\ chan' = Tail(chan) /\ cur' # Kill
    BY <1>3 DEF SessionRecv
  <2>2. \A i \in 1 .. Len(chan') : chan'[i] = chan[i + 1] /\ i + 1 \in 1 .. Len(chan)
                                   /\ Len(chan') = Len(chan) - 1
    BY <1>1, <2>1
  <2>3. \A i \in 1 .. Len(chan') :
           chan'[i] = Kill => i = Len(chan') /\ stop \in {"join_session", "stopped"}
    BY <1>1, <2>2
  <2> QED BY <1>1, <2>1, <2>3 DEF Handover, SessionAlive
<1> QED BY <1>2, <1>3

\* stop() queues one Kill, behind every session.
LEMMA KillHandover ==
    ASSUME CoreInv, StopSendKill
    PROVE  Handover'
<1>1. /\ cur' = cur /\ session' = session /\ stop = "kill" /\ stop' = "join_session"
      /\ chan \in Seq(Signal)
      /\ session = "push" <=> cur # Kill
      /\ \A i \in 1 .. Len(chan) : chan[i] # Kill
  BY DEF CoreInv, TypeOK, SessionTypeOK, Handover, StopSendKill
<1>2. CASE ~SessionAlive
  BY <1>1, <1>2 DEF CoreInv, Handover, SessionAlive, StopSendKill
<1>3. CASE SessionAlive
  <2>1. chan' = Append(chan, Kill)
    BY <1>3 DEF StopSendKill
  <2>2. \A i \in 1 .. Len(chan') : chan'[i] = Kill => i = Len(chan')
    BY <2>1, <1>1
  <2> QED BY <1>1, <1>3, <2>2 DEF Handover, SessionAlive
<1> QED BY <1>2, <1>3

\* The rest of the invariant, for every step.
LEMMA RestStep ==
    ASSUME CoreInv, AgentStep
    PROVE  StopOrder' /\ Handover' /\ AtRest'
<1> USE CpuAssumption DEF CoreInv, StopOrder, SessionAlive, AtRest
<1>1. CASE BuildAndStart
  BY <1>1 DEF BuildAndStart, Buffered, Handover
<1>2. CASE SamplerStart
  BY <1>2 DEF SamplerStart, Handover
<1>3. CASE SamplerTake
  BY <1>3 DEF SamplerTake, Handover
<1>4. CASE SamplerRecord
  BY <1>4 DEF SamplerRecord, Handover
<1>5. CASE SamplerEnd
  BY <1>5 DEF SamplerEnd, Handover
<1>6. CASE MemSample
  BY <1>6 DEF MemSample, Handover
<1>7. CASE StackSample
  BY <1>7 DEF StackSample, Handover
<1>8. CASE ClockStep
  BY <1>8 DEF ClockStep, Handover
<1>9. CASE MainStart
  BY <1>9 DEF MainStart, Handover
<1>10. CASE MainWake
  BY <1>10 DEF MainWake, Handover
<1>11. CASE MemAttach
  BY <1>11 DEF MemAttach, Handover
<1>12. CASE MemAttachRefused
  BY <1>12 DEF MemAttachRefused, Handover
<1>13. CASE MemFlush
  BY <1>13 DEF MemFlush, Handover
<1>14. CASE CpuReport
  BY <1>14 DEF CpuReport, EndSnapshot, Buffered, Handover
<1>15. CASE SendSession
  <2>1. Handover'
    BY <1>15, SendHandover
  <2>2. StopOrder' /\ AtRest'
    BY <1>15 DEF SendSession, EndSnapshot, Handover
  <2> QED BY <2>1, <2>2
<1>16. CASE SessionRecv
  <2>1. Handover'
    BY <1>16, RecvHandover
  <2>2. StopOrder' /\ AtRest'
    BY <1>16 DEF SessionRecv, Handover
  <2> QED BY <2>1, <2>2
<1>17. CASE SessionPush
  BY <1>17 DEF SessionPush, Handover
<1>18. CASE StopBegin
  BY <1>18 DEF StopBegin, Handover
<1>19. CASE StopJoinMain
  BY <1>19 DEF StopJoinMain, Handover
<1>20. CASE StopBackend
  BY <1>20 DEF StopBackend, Handover
<1>21. CASE StopJoinSampler
  BY <1>21 DEF StopJoinSampler, Handover
<1>22. CASE StopSendKill
  <2>1. Handover'
    BY <1>22, KillHandover
  <2>2. StopOrder' /\ AtRest'
    BY <1>22 DEF StopSendKill, Handover
  <2> QED BY <2>1, <2>2
<1>23. CASE StopJoinSession
  BY <1>23 DEF StopJoinSession, Handover
<1>24. CASE \E c \in Pythons : AcquireGil(c) \/ ReleaseGil(c)
  BY <1>24 DEF AcquireGil, ReleaseGil, Handover
<1> QED
  BY <1>1, <1>2, <1>3, <1>4, <1>5, <1>6, <1>7, <1>8, <1>9, <1>10, <1>11, <1>12,
      <1>13, <1>14, <1>15, <1>16, <1>17, <1>18, <1>19, <1>20, <1>21, <1>22,
      <1>23, <1>24
  DEF AgentStep, Background, AgentThreads, SamplerThread, MainThread, SessionThread,
      Joiner

\* So the invariant is inductive for an agent, whatever starts and stops it.
LEMMA CoreStep ==
    ASSUME CoreInv, AgentStep
    PROVE  CoreInv'
BY TypesStep, RestStep DEF CoreInv

\* Before there is an agent.
LEMMA CoreInit ==
    ASSUME NEW m \in BOOLEAN, NEW k \in BOOLEAN, AgentInit(m, k)
    PROVE  CoreInv
<1> USE BoundsAssumption DEF AgentInit, NoRange
<1>1. SamplingTypeOK
  <2>1. running \in BOOLEAN /\ finalizing \in BOOLEAN /\ memHooks = m /\ stackOn = k
    BY Zenon
  <2> QED BY <2>1 DEF SamplingTypeOK
<1>2. /\ terminated \in BOOLEAN /\ final \in BOOLEAN /\ mainErr \in BOOLEAN
      /\ steppedBack \in BOOLEAN
  BY Zenon
<1>3. MainTypeOK
  BY <1>2 DEF MainTypeOK, RangeType
<1>4. SessionTypeOK
  BY DEF SessionTypeOK, Signal
<1>5. StopTypeOK
  BY <1>2 DEF StopTypeOK
<1>6. StopOrder /\ Handover /\ AtRest
  BY DEF StopOrder, Handover, AtRest, SessionAlive
<1> QED BY <1>1, <1>3, <1>4, <1>5, <1>6 DEF CoreInv, TypeOK

-----------------------------------------------------------------------------
(***************************************************************************)
(* The samples in the stream                                               *)
(***************************************************************************)

\* The samples that were sent.
InStream == Samples(attempted) \cup Samples(<<cur>>) \cup Samples(chan)

\* Nothing moves in the stream.
LEMMA StreamStill ==
    ASSUME UNCHANGED <<attempted, cur, chan>> PROVE InStream' = InStream
BY DEF InStream

\* A batch is sent, unless the receiver is gone.
LEMMA SendStream ==
    ASSUME CoreInv, SendSession
    PROVE  InStream' = IF SessionAlive THEN InStream \cup batch ELSE InStream
<1>1. /\ chan \in Seq(Signal) /\ Session(range, batch) \in Signal
      /\ Session(range, batch) # Kill
  BY DEF CoreInv, TypeOK, SessionTypeOK, MainTypeOK, RangeType, Session, Signal,
         SessionType, Kill
<1>2. attempted' = attempted /\ cur' = cur
  BY DEF SendSession
<1>3. CASE ~SessionAlive
  BY <1>2, <1>3 DEF SendSession, InStream
<1>4. CASE SessionAlive
  <2>1. chan' = Append(chan, Session(range, batch))
    BY <1>4 DEF SendSession
  <2>2. Samples(<<Session(range, batch)>>) = batch
    BY <1>1, SamplesOne DEF Session
  <2>3. Samples(chan') = Samples(chan) \cup batch
    BY <1>1, <2>1, <2>2, SamplesAppend
  <2> QED BY <1>2, <1>4, <2>3 DEF InStream
<1> QED BY <1>3, <1>4

\* Receiving keeps the stream as it is.
LEMMA RecvStream ==
    ASSUME CoreInv, SessionRecv
    PROVE  InStream' = InStream
<1>1. /\ chan \in Seq(Signal) /\ chan # << >> /\ cur = Kill /\ attempted' = attempted
      /\ \A i \in 1 .. Len(chan) : chan[i] = Kill => i = Len(chan)
  BY DEF CoreInv, TypeOK, SessionTypeOK, Handover, SessionRecv
<1>2. Samples(chan) = Samples(<<Head(chan)>>) \cup Samples(Tail(chan))
  BY <1>1, SamplesHeadTail
<1>3. Samples(<<Kill>>) = {}
  BY SamplesOne DEF Signal
<1>4. CASE Head(chan) = Kill
  <2>a. Len(chan) \in Nat \ {0} /\ chan \in Seq(Signal)
    BY <1>1, EmptySeq
  <2>b. chan[1] = Kill
    BY <1>4, <2>a
  <2>d. 1 \in 1 .. Len(chan)
    BY <2>a
  <2>0. Len(chan) = 1
    BY <1>1, <2>b, <2>d, Zenon
  <2>c. Tail(chan) \in Seq(Signal) /\ Len(Tail(chan)) = 0
    BY <1>1, <2>0, HeadTailProperties
  <2>1. Tail(chan) = << >>
    BY <2>c, EmptySeq
  <2>2. chan' = << >> /\ cur' = cur
    BY <1>4 DEF SessionRecv
  <2> QED BY <1>1, <1>2, <1>3, <1>4, <2>1, <2>2, SamplesEmpty DEF InStream
<1>5. CASE Head(chan) # Kill
  <2>1. chan' = Tail(chan) /\ cur' = Head(chan)
    BY <1>5 DEF SessionRecv
  <2> QED BY <1>1, <1>2, <1>3, <2>1 DEF InStream
<1> QED BY <1>4, <1>5

\* An upload keeps it too; a panic drops what is in it.
LEMMA PushStream ==
    ASSUME CoreInv, SessionPush
    PROVE  /\ InStream' \subseteq InStream
           /\ session' # "panicked" => InStream' = InStream
<1>1. cur' = Kill /\ Samples(<<Kill>>) = {}
  BY SamplesOne DEF Signal, SessionPush
<1>2. CASE url = "no_base"
  <2>1. session' = "panicked" /\ chan' = << >> /\ attempted' = attempted
    BY <1>2 DEF SessionPush
  <2> QED BY <1>1, <2>1, SamplesEmpty DEF InStream
<1>3. CASE url # "no_base"
  <2>1. attempted' = Append(attempted, cur) /\ chan' = chan
    BY <1>3 DEF SessionPush
  <2>2. attempted \in Seq(Signal) /\ cur \in Signal
    BY DEF CoreInv, TypeOK, SessionTypeOK, Signal
  <2>3. Samples(attempted') = Samples(attempted) \cup Samples(<<cur>>)
    BY <2>1, <2>2, SamplesAppend
  <2> QED BY <1>1, <2>1, <2>3 DEF InStream
<1> QED BY <1>2, <1>3

\* Kill carries no sample.
LEMMA KillStream ==
    ASSUME CoreInv, StopSendKill
    PROVE  InStream' = InStream
<1>1. chan \in Seq(Signal) /\ attempted' = attempted /\ cur' = cur
  BY DEF CoreInv, TypeOK, SessionTypeOK, StopSendKill
<1>2. Kill \in Signal /\ Samples(<<Kill>>) = {}
  BY SamplesOne DEF Signal
<1>3. CASE chan' = Append(chan, Kill)
  <2>1. Samples(chan') = Samples(chan)
    BY <1>1, <1>2, <1>3, SamplesAppend
  <2> QED BY <1>1, <2>1 DEF InStream
<1>4. CASE chan' = chan
  BY <1>1, <1>4 DEF InStream
<1> QED BY <1>3, <1>4 DEF StopSendKill

\* A new agent has sent nothing.
LEMMA StartStream ==
    ASSUME BuildAndStart
    PROVE  InStream' = {}
<1>1. Samples(<<Kill>>) = {}
  BY SamplesOne DEF Signal
<1> QED BY <1>1, SamplesEmpty DEF BuildAndStart, InStream

-----------------------------------------------------------------------------
(***************************************************************************)
(* One agent on its own: each sample is in one place, and gets through     *)
(***************************************************************************)

\* A sample is in one place at most: in the hand of the sampler, in a buffer,
\* in the batch of the snapshot, or in the stream.
Placed ==
    /\ inHand \cup buffer \cup memBuf \cup stackBuf \cup batch \cup InStream
         \subseteq 1 .. taken
    /\ inHand \cap (buffer \cup memBuf \cup stackBuf \cup batch \cup InStream) = {}
    /\ buffer \cap (memBuf \cup stackBuf \cup batch \cup InStream) = {}
    /\ memBuf \cap (stackBuf \cup batch \cup InStream) = {}
    /\ stackBuf \cap (batch \cup InStream) = {}
    /\ batch \cap InStream = {}

\* And in one place at least, unless a thread of the agent ended with an error.
Kept ==
    ~mainErr /\ session # "panicked" =>
      1 .. taken \subseteq
        inHand \cup buffer \cup memBuf \cup stackBuf \cup batch \cup InStream

\* The snapshots still to come take the memory samples, and the CPU samples.
MemToCome == \/ main \in {"start", "wait", "memory", "flush"}
             \/ main \in {"cpu", "send"} /\ ~final
CpuToCome == \/ main \in {"start", "wait", "memory", "flush", "cpu"}
             \/ main = "send" /\ ~final

\* The main thread ends with the snapshot after Disconnected, or an error.
Ending ==
    /\ terminated <=> stop # "idle"
    /\ final => terminated
    /\ main \in {"none", "start", "wait"} => ~final
    /\ main = "none" => ~terminated /\ ~mainErr
    /\ main = "done" /\ ~mainErr => final

\* What stop() found recorded was sent, or a snapshot to come takes it.
Flushed ==
    stop # "idle" /\ ~mainErr /\ session # "panicked" =>
      atStop \subseteq InStream \cup batch \cup (IF MemToCome THEN memBuf ELSE {})
                                \cup (IF CpuToCome THEN buffer ELSE {})

\* The stack profiler is off, the interpreter runs on, and without memory
\* profiling there is no memory sample.
AloneOnly ==
    /\ Buffered /\ ~stackOn /\ stackBuf = {} /\ ~finalizing
    /\ ~MemEnabled => ~memHooks /\ memBuf = {}

SamplesPart == Placed /\ Kept /\ Ending /\ Flushed /\ AloneOnly
SamplesInv == CoreInv /\ SamplesPart

\* The steps that leave the stream as it is, one by one.
QuietStep ==
    \/ SamplerThread \/ MemSample \/ ClockStep
    \/ MainStart \/ MainWake \/ MemAttach \/ CpuReport
    \/ StopJoinMain \/ StopBackend \/ StopJoinSampler \/ StopJoinSession

\* They keep each sample in its place, or move it on to the next.
LEMMA SamplesQuiet ==
    ASSUME SamplesInv, QuietStep
    PROVE  SamplesPart'
<1> USE BoundsAssumption, SwitchAssumption
    DEF SamplesInv, SamplesPart, CoreInv, TypeOK, SamplingTypeOK, MainTypeOK, AtRest,
        StopOrder, Placed, Kept, Ending, Flushed, AloneOnly, MemToCome, CpuToCome,
        Buffered
<1>1. CASE SamplerStart
  <2>1. InStream' = InStream
    BY <1>1, StreamStill DEF SamplerStart
  <2> QED BY <1>1, <2>1 DEF SamplerStart
<1>2. CASE SamplerTake
  <2>1. InStream' = InStream
    BY <1>2, StreamStill DEF SamplerTake
  <2> QED BY <1>2, <2>1 DEF SamplerTake
<1>3. CASE SamplerRecord
  <2>1. InStream' = InStream
    BY <1>3, StreamStill DEF SamplerRecord
  <2> QED BY <1>3, <2>1 DEF SamplerRecord
<1>4. CASE SamplerEnd
  <2>1. InStream' = InStream
    BY <1>4, StreamStill DEF SamplerEnd
  <2> QED BY <1>4, <2>1 DEF SamplerEnd
<1>5. CASE MemSample
  <2>1. InStream' = InStream
    BY <1>5, StreamStill DEF MemSample
  <2> QED BY <1>5, <2>1 DEF MemSample
<1>6. CASE ClockStep
  <2>1. InStream' = InStream
    BY <1>6, StreamStill DEF ClockStep
  <2> QED BY <1>6, <2>1 DEF ClockStep
<1>7. CASE MainStart
  <2>1. InStream' = InStream
    BY <1>7, StreamStill DEF MainStart
  <2> QED BY <1>7, <2>1 DEF MainStart
<1>8. CASE MainWake
  <2>1. InStream' = InStream
    BY <1>8, StreamStill DEF MainWake
  <2> QED BY <1>8, <2>1 DEF MainWake, LapFails
<1>9. CASE MemAttach
  <2>1. InStream' = InStream
    BY <1>9, StreamStill DEF MemAttach
  <2> QED BY <1>9, <2>1 DEF MemAttach
<1>10. CASE CpuReport
  <2>1. InStream' = InStream
    BY <1>10, StreamStill DEF CpuReport
  <2> QED BY <1>10, <2>1 DEF CpuReport, EndSnapshot
<1>11. CASE StopJoinMain
  <2>1. InStream' = InStream
    BY <1>11, StreamStill DEF StopJoinMain
  <2> QED BY <1>11, <2>1 DEF StopJoinMain
<1>12. CASE StopBackend
  <2>1. InStream' = InStream
    BY <1>12, StreamStill DEF StopBackend
  <2> QED BY <1>12, <2>1 DEF StopBackend
<1>13. CASE StopJoinSampler
  <2>1. InStream' = InStream
    BY <1>13, StreamStill DEF StopJoinSampler
  <2> QED BY <1>13, <2>1 DEF StopJoinSampler
<1>14. CASE StopJoinSession
  <2>1. InStream' = InStream
    BY <1>14, StreamStill DEF StopJoinSession
  <2> QED BY <1>14, <2>1 DEF StopJoinSession, SessionAlive
<1> QED
  BY <1>1, <1>2, <1>3, <1>4, <1>5, <1>6, <1>7, <1>8, <1>9, <1>10, <1>11, <1>12,
      <1>13, <1>14
  DEF QuietStep, SamplerThread

\* The steps that send, receive and upload, stop() and the memory flush.
LEMMA SamplesFlow ==
    ASSUME SamplesInv,
           MemFlush \/ SendSession \/ SessionRecv \/ SessionPush \/ StopSendKill
    PROVE  SamplesPart'
<1> USE BoundsAssumption, SwitchAssumption
    DEF SamplesInv, SamplesPart, CoreInv, TypeOK, SamplingTypeOK, MainTypeOK, AtRest,
        StopOrder, Placed, Kept, Ending, Flushed, AloneOnly, MemToCome, CpuToCome,
        Buffered
<1>1. CASE MemFlush
  <2>1. InStream' = InStream
    BY <1>1, StreamStill DEF MemFlush
  <2>2. PICK heap \in {{}, {taken + 1}} :
               /\ batch' = batch \cup memBuf \cup heap
               /\ taken' = taken + Cardinality(heap)
    BY <1>1, Zenon DEF MemFlush
  <2>3. \/ heap = {} /\ taken' = taken
        \/ heap = {taken + 1} /\ taken' = taken + 1
    <3>1. taken \in Int
      OBVIOUS
    <3>2. CASE heap = {}
      BY <2>2, <3>1, <3>2, FS_EmptySet
    <3>3. CASE heap = {taken + 1}
      <4>1. Cardinality(heap) = 1
        BY <3>3, FS_Singleton
      <4> QED BY <2>2, <3>3, <4>1
    <3> QED BY <3>2, <3>3
  <2>4. Placed' /\ Kept'
    BY <1>1, <2>1, <2>2, <2>3 DEF MemFlush
  <2>5. Ending' /\ AloneOnly'
    BY <1>1 DEF MemFlush
  <2>6. Flushed'
    BY <1>1, <2>1, <2>2 DEF MemFlush
  <2> QED BY <2>4, <2>5, <2>6
<1>2. CASE SendSession
  <2>1. InStream' = IF SessionAlive THEN InStream \cup batch ELSE InStream
    BY <1>2, SendStream
  <2>2. Placed' /\ Kept'
    BY <1>2, <2>1 DEF SendSession, EndSnapshot
  <2>3. Ending' /\ AloneOnly'
    BY <1>2 DEF SendSession, EndSnapshot
  <2>4. Flushed'
    BY <1>2, <2>1 DEF SendSession, EndSnapshot
  <2> QED BY <2>2, <2>3, <2>4
<1>3. CASE SessionRecv
  BY <1>3, RecvStream DEF SessionRecv
<1>4. CASE SessionPush
  BY <1>4, PushStream DEF SessionPush
<1>5. CASE StopSendKill
  BY <1>5, KillStream DEF StopSendKill
<1> QED BY <1>1, <1>2, <1>3, <1>4, <1>5

\* The agent starts with nothing recorded but memory samples.
LEMMA SamplesStart ==
    ASSUME SamplesInv, StartOnce
    PROVE  SamplesPart'
<1> USE BoundsAssumption
    DEF SamplesInv, SamplesPart, CoreInv, TypeOK, SamplingTypeOK, AtRest
<1>1. InStream' = {} /\ InStream = {}
  <2>1. Samples(<<Kill>>) = {}
    BY SamplesOne DEF Signal
  <2> QED BY <2>1, StartStream, SamplesEmpty DEF StartOnce, InStream
<1>2. Placed' /\ Kept'
  BY <1>1 DEF StartOnce, BuildAndStart, Placed, Kept, Ending
<1>3. Ending' /\ Flushed'
  BY <1>1 DEF StartOnce, BuildAndStart, Ending, Flushed
<1>4. AloneOnly'
  BY DEF StartOnce, BuildAndStart, AloneOnly, Buffered
<1> QED BY <1>2, <1>3, <1>4

\* stop() begins: two snapshots at most will take what is recorded.
LEMMA SamplesStop ==
    ASSUME SamplesInv, StopOnce
    PROVE  SamplesPart'
<1> USE DEF SamplesInv, SamplesPart, CoreInv, StopOnce, StopBegin
<1>1. InStream' = InStream
  BY StreamStill
<1>2. atStop' = InStream \cup batch \cup buffer \cup memBuf \cup stackBuf
  BY SamplesOfStream DEF TypeOK, InStream
<1>3. Placed' /\ Kept'
  BY <1>1 DEF Placed, Kept
<1>4. Ending' /\ AloneOnly'
  BY DEF Ending, AloneOnly, Buffered
<1>5. Flushed'
  BY <1>1, <1>2 DEF TypeOK, MainTypeOK, Ending, AloneOnly, Flushed, MemToCome, CpuToCome
<1> QED BY <1>3, <1>4, <1>5

-----------------------------------------------------------------------------
(***************************************************************************)
(* The order of the stream                                                 *)
(***************************************************************************)

\* Session t comes after s: other samples, and a later time range.
Follows(t, s) == /\ t.data \cap s.data = {}
                 /\ ~steppedBack => s.from + s.dur =< t.from

\* In the stream every session follows every earlier one.
Ordered ==
    /\ \A i, j \in 1 .. Len(attempted) : i < j => Follows(attempted[j], attempted[i])
    /\ cur # Kill => \A i \in 1 .. Len(attempted) : Follows(cur, attempted[i])
    /\ \A j \in 1 .. Len(chan) : chan[j] # Kill =>
         /\ \A i \in 1 .. Len(attempted) : Follows(chan[j], attempted[i])
         /\ cur # Kill => Follows(chan[j], cur)
         /\ \A i \in 1 .. Len(chan) : i < j => Follows(chan[j], chan[i])

\* The sessions sent end by the start of the range that is open: the one of the
\* snapshot in progress, or the one the watch measures.
InSnapshot == main \in {"memory", "flush", "cpu", "send"}
LastEnd == IF InSnapshot THEN range.from ELSE sw
EndsBy(s, t) == s.from >= 0 /\ s.dur >= 0 /\ (~steppedBack => s.from + s.dur =< t)

Clock ==
    /\ main \notin {"none", "start"} /\ ~steppedBack => sw =< now
    /\ InSnapshot => EndsBy(range, sw)
    /\ \A i \in 1 .. Len(attempted) : EndsBy(attempted[i], LastEnd)
    /\ cur # Kill => EndsBy(cur, LastEnd)
    /\ \A i \in 1 .. Len(chan) : chan[i] # Kill => EndsBy(chan[i], LastEnd)

AloneInv == SamplesInv /\ Ordered /\ Clock

\* A session that ends by t ends by any later time.
LEMMA EndsByLater ==
    ASSUME NEW s, s.from \in Int, s.dur \in Int, NEW t \in Int, NEW u \in Int,
           EndsBy(s, t), ~steppedBack => t =< u
    PROVE  EndsBy(s, u)
BY DEF EndsBy

\* The times of a session are numbers.
LEMMA Fields ==
    ASSUME SessionTypeOK
    PROVE  /\ \A i \in 1 .. Len(attempted) :
                attempted[i].from \in Int /\ attempted[i].dur \in Int
           /\ \A i \in 1 .. Len(chan) :
                chan[i] # Kill => chan[i].from \in Int /\ chan[i].dur \in Int
           /\ cur # Kill => cur.from \in Int /\ cur.dur \in Int
<1>1. \A s \in Signal : s # Kill => s.from \in Int /\ s.dur \in Int
  BY DEF SessionType, Signal
<1>2. \A s \in SessionType : s.from \in Int /\ s.dur \in Int
  BY DEF SessionType
<1>3. attempted \in Seq(SessionType) /\ chan \in Seq(Signal) /\ cur \in Signal
  BY DEF SessionTypeOK
<1>4. /\ \A i \in 1 .. Len(attempted) : attempted[i] \in SessionType
      /\ \A i \in 1 .. Len(chan) : chan[i] \in Signal
  BY <1>3
<1> QED BY <1>1, <1>2, <1>3, <1>4

\* The clock moves: forward, or it was set back and nothing is said of it.
LEMMA OrderClock ==
    ASSUME AloneInv, ClockStep
    PROVE  Ordered' /\ Clock'
<1>1. ~steppedBack' => ~steppedBack /\ ~(now' < now)
  BY Zenon DEF ClockStep
<1>2. /\ attempted' = attempted /\ chan' = chan /\ cur' = cur /\ main' = main /\ sw' = sw
      /\ range' = range /\ now' \in Times
  BY DEF ClockStep
<1>3. Ordered'
  BY <1>1, <1>2 DEF AloneInv, Ordered, Follows
<1>4. sw \in Int /\ now \in Int /\ now' \in Int
  BY <1>2, BoundsAssumption DEF AloneInv, SamplesInv, CoreInv, TypeOK, MainTypeOK
<1>5. main \notin {"none", "start"} /\ ~steppedBack' => sw =< now'
  BY <1>1, <1>4 DEF AloneInv, Clock
<1>6. \A s, t : EndsBy(s, t) => EndsBy(s, t)'
  BY <1>1 DEF EndsBy
<1>7. LastEnd' = LastEnd /\ InSnapshot' = InSnapshot
  BY <1>2 DEF LastEnd, InSnapshot
<1>8. Clock'
  BY <1>2, <1>5, <1>1, <1>7 DEF AloneInv, Clock, EndsBy
<1> QED BY <1>3, <1>8

\* lap() closes the range at the present time and opens the next one there.
LEMMA OrderWake ==
    ASSUME AloneInv, MainWake
    PROVE  Clock'
<1>1. /\ attempted' = attempted /\ chan' = chan /\ cur' = cur /\ steppedBack' = steppedBack
      /\ now' = now /\ main = "wait" /\ sw \in Int /\ now \in Int
  BY BoundsAssumption DEF AloneInv, SamplesInv, CoreInv, TypeOK, MainTypeOK, MainWake
<1>2. LastEnd = sw /\ (~steppedBack => sw =< now)
  BY <1>1 DEF AloneInv, Clock, LastEnd, InSnapshot
<1>3. CASE LapFails(sw)
  <2>1. main' = "done" /\ sw' = sw
    BY <1>3 DEF MainWake
  <2>2. LastEnd' = sw /\ ~InSnapshot'
    BY <2>1 DEF LastEnd, InSnapshot
  <2> QED BY <1>1, <1>2, <2>1, <2>2 DEF AloneInv, Clock, EndsBy
<1>4. CASE ~LapFails(sw)
  <2>1. main' \in {"memory", "cpu"} /\ range' = TimeRange(sw, now) /\ sw' = now /\ sw >= 0
    BY <1>1, <1>4 DEF MainWake, LapFails
  <2>2. LastEnd' = sw /\ InSnapshot'
    BY <2>1 DEF LastEnd, InSnapshot, TimeRange
  <2>3. EndsBy(range, sw)'
    BY <1>1, <1>2, <2>1 DEF EndsBy, TimeRange
  <2>4. (main \notin {"none", "start"} /\ ~steppedBack => sw =< now)'
    BY <1>1, <2>1
  <2> QED BY <1>1, <1>2, <2>2, <2>3, <2>4 DEF AloneInv, Clock, EndsBy
<1> QED BY <1>3, <1>4

\* The session that is sent follows every earlier one.
LEMMA OrderSend ==
    ASSUME AloneInv, SendSession
    PROVE  Ordered' /\ Clock'
<1>1. /\ attempted' = attempted /\ cur' = cur /\ steppedBack' = steppedBack
      /\ now' = now /\ sw' = sw /\ range' = range
      /\ chan \in Seq(Signal) /\ attempted \in Seq(Signal)
      /\ cur \in Signal /\ main = "send" /\ SessionTypeOK /\ main' \in {"wait", "done"}
      /\ range.from \in Int /\ range.dur \in Int /\ sw \in Int
  BY DEF AloneInv, SamplesInv, CoreInv, TypeOK, MainTypeOK, RangeType, SessionTypeOK,
         Signal, SendSession, EndSnapshot
<1>2. LastEnd = range.from /\ EndsBy(range, sw) /\ LastEnd' = sw /\ ~InSnapshot'
  BY <1>1 DEF AloneInv, Clock, LastEnd, InSnapshot
<1>3. ~steppedBack => range.from =< sw
  BY <1>1, <1>2 DEF EndsBy
<1>4. /\ \A i \in 1 .. Len(attempted) : EndsBy(attempted[i], range.from)
      /\ cur # Kill => EndsBy(cur, range.from)
      /\ \A i \in 1 .. Len(chan) : chan[i] # Kill => EndsBy(chan[i], range.from)
  BY <1>2 DEF AloneInv, Clock
<1>5. /\ \A i \in 1 .. Len(attempted) : EndsBy(attempted[i], sw)
      /\ cur # Kill => EndsBy(cur, sw)
      /\ \A i \in 1 .. Len(chan) : chan[i] # Kill => EndsBy(chan[i], sw)
  BY <1>1, <1>3, <1>4, Fields, EndsByLater
<1>6. ~steppedBack => sw =< now
  BY <1>1 DEF AloneInv, Clock
<1>7. CASE ~SessionAlive
  <2>1. chan' = chan
    BY <1>7 DEF SendSession
  <2>2. Ordered'
    BY <1>1, <2>1 DEF AloneInv, Ordered, Follows
  <2>3. Clock'
    BY <1>1, <1>2, <1>5, <1>6, <2>1 DEF Clock, EndsBy
  <2> QED BY <2>2, <2>3
<1>8. CASE SessionAlive
  <2> DEFINE s == Session(range, batch)
  <2>1. /\ chan' = Append(chan, s) /\ s # Kill
        /\ s.from = range.from /\ s.dur = range.dur /\ s.data = batch
    BY <1>8 DEF SendSession, Session, Kill
  <2> HIDE DEF s
  <2>2. /\ Len(chan') = Len(chan) + 1
        /\ \A i \in 1 .. Len(chan) : chan'[i] = chan[i]
        /\ chan'[Len(chan) + 1] = s /\ Len(chan) \in Nat
    BY <1>1, <2>1
  <2>3. /\ \A i \in 1 .. Len(attempted) : Follows(s, attempted[i])
        /\ cur # Kill => Follows(s, cur)
        /\ \A i \in 1 .. Len(chan) : Follows(s, chan[i])
    <3>1. batch \cap (Samples(attempted) \cup Samples(<<cur>>) \cup Samples(chan)) = {}
      BY DEF AloneInv, SamplesInv, SamplesPart, Placed, InStream
    <3>2. \A i \in 1 .. Len(chan) : chan[i] # Kill
      BY <1>1 DEF AloneInv, SamplesInv, CoreInv, Handover, StopOrder
    <3>3. \A i \in 1 .. Len(attempted) : attempted[i] # Kill
      BY <1>1 DEF SessionTypeOK, SessionType, Kill
    <3>4. /\ \A i \in 1 .. Len(attempted) : batch \cap attempted[i].data = {}
          /\ cur # Kill => batch \cap cur.data = {}
          /\ \A i \in 1 .. Len(chan) : batch \cap chan[i].data = {}
      BY <1>1, <3>1, <3>2, <3>3, SamplesMember, SamplesOne
    <3> QED BY <1>4, <2>1, <3>2, <3>4 DEF Follows, EndsBy
  <2>4. \A i \in 1 .. Len(chan') : i \in 1 .. Len(chan) \/ i = Len(chan) + 1
    BY <2>2
  <2>5. \A t, u : Follows(t, u)' <=> Follows(t, u)
    BY <1>1 DEF Follows
  <2>6. Ordered'
    <3>1. ASSUME NEW j \in 1 .. Len(chan'), chan'[j] # Kill
          PROVE  /\ \A i \in 1 .. Len(attempted) : Follows(chan'[j], attempted[i])
                 /\ cur # Kill => Follows(chan'[j], cur)
                 /\ \A i \in 1 .. Len(chan') : i < j => Follows(chan'[j], chan'[i])
      <4>1. CASE j \in 1 .. Len(chan)
        <5>1. \A i \in 1 .. Len(chan') : i < j => i \in 1 .. Len(chan) /\ chan'[i] = chan[i]
          BY <4>1, <2>2
        <5> QED BY <4>1, <3>1, <2>2, <5>1 DEF AloneInv, Ordered
      <4>2. CASE j = Len(chan) + 1
        <5>1. \A i \in 1 .. Len(chan') : i < j => i \in 1 .. Len(chan) /\ chan'[i] = chan[i]
          BY <4>2, <2>2
        <5> QED BY <4>2, <2>2, <2>3, <5>1
      <4> QED BY <4>1, <4>2, <2>4
    <3> QED BY <1>1, <3>1 DEF AloneInv, Ordered, Follows
  <2>7. Clock'
    <3>1. EndsBy(s, sw)
      BY <1>2, <2>1 DEF EndsBy
    <3>2. \A i \in 1 .. Len(chan') : chan'[i] # Kill => EndsBy(chan'[i], sw)
      BY <2>2, <2>4, <1>5, <3>1
    <3> QED BY <1>1, <1>2, <1>5, <1>6, <3>2 DEF Clock, EndsBy
  <2> QED BY <2>6, <2>7
<1> QED BY <1>7, <1>8

\* Receiving keeps the order.
LEMMA OrderRecv ==
    ASSUME AloneInv, SessionRecv
    PROVE  Ordered' /\ Clock'
<1>1. /\ attempted' = attempted /\ steppedBack' = steppedBack /\ now' = now /\ sw' = sw
      /\ range' = range /\ main' = main
      /\ chan \in Seq(Signal) /\ chan # << >> /\ cur = Kill
  BY DEF AloneInv, SamplesInv, CoreInv, TypeOK, SessionTypeOK, Handover, SessionRecv
<1>2. LastEnd' = LastEnd /\ InSnapshot' = InSnapshot
  BY <1>1 DEF LastEnd, InSnapshot
<1>3. CASE chan' = << >> /\ cur' = cur
  <2>1. \A i \in 1 .. Len(chan') : FALSE
    BY <1>3
  <2> QED BY <1>1, <1>2, <1>3, <2>1 DEF AloneInv, Ordered, Follows, Clock, EndsBy
<1>4. CASE chan' = Tail(chan) /\ cur' = Head(chan) /\ Head(chan) # Kill
  <2>1. /\ cur' = chan[1] /\ 1 \in 1 .. Len(chan)
        /\ \A i \in 1 .. Len(chan') : chan'[i] = chan[i + 1] /\ i + 1 \in 1 .. Len(chan)
        /\ \A i \in 1 .. Len(chan') : 1 < i + 1
        /\ \A i, j \in 1 .. Len(chan') : i < j => i + 1 < j + 1
    BY <1>1, <1>4
  <2>2. Ordered'
    BY <1>1, <1>4, <2>1 DEF AloneInv, Ordered, Follows
  <2>3. Clock'
    BY <1>1, <1>2, <1>4, <2>1 DEF AloneInv, Clock, EndsBy
  <2> QED BY <2>2, <2>3
<1> QED BY <1>3, <1>4 DEF SessionRecv

\* An upload keeps the order.
LEMMA OrderPush ==
    ASSUME AloneInv, SessionPush
    PROVE  Ordered' /\ Clock'
<1>1. /\ steppedBack' = steppedBack /\ now' = now /\ sw' = sw /\ range' = range
      /\ main' = main
      /\ attempted \in Seq(SessionType) /\ cur' = Kill /\ cur # Kill /\ cur \in SessionType
  BY DEF AloneInv, SamplesInv, CoreInv, TypeOK, SessionTypeOK, Signal, Handover, SessionPush
<1>2. LastEnd' = LastEnd /\ InSnapshot' = InSnapshot
  BY <1>1 DEF LastEnd, InSnapshot
<1>3. CASE chan' = << >> /\ attempted' = attempted
  <2>1. \A i \in 1 .. Len(chan') : FALSE
    BY <1>3
  <2> QED BY <1>1, <1>2, <1>3, <2>1 DEF AloneInv, Ordered, Follows, Clock, EndsBy
<1>4. CASE attempted' = Append(attempted, cur) /\ chan' = chan
  <2>1. /\ Len(attempted) \in Nat /\ Len(attempted') = Len(attempted) + 1
        /\ \A i \in 1 .. Len(attempted) : attempted'[i] = attempted[i]
        /\ attempted'[Len(attempted) + 1] = cur
    BY <1>1, <1>4
  <2>2. \A i \in 1 .. Len(attempted') : i \in 1 .. Len(attempted) \/ i = Len(attempted) + 1
    BY <2>1
  <2>3. \A i, j \in 1 .. Len(attempted') : i < j => Follows(attempted'[j], attempted'[i])
    <3>1. SUFFICES ASSUME NEW i \in 1 .. Len(attempted'),
                          NEW j \in 1 .. Len(attempted'), i < j
                   PROVE  Follows(attempted'[j], attempted'[i])
      OBVIOUS
    <3>2. i \in 1 .. Len(attempted) /\ attempted'[i] = attempted[i]
      BY <2>1, <3>1
    <3>3. CASE j \in 1 .. Len(attempted)
      BY <2>1, <3>1, <3>2, <3>3 DEF AloneInv, Ordered
    <3>4. CASE j = Len(attempted) + 1
      BY <1>1, <2>1, <3>2, <3>4 DEF AloneInv, Ordered
    <3> QED BY <2>2, <3>3, <3>4
  <2>4. \A j \in 1 .. Len(chan) : chan[j] # Kill =>
          \A i \in 1 .. Len(attempted') : Follows(chan[j], attempted'[i])
    BY <1>1, <2>1, <2>2 DEF AloneInv, Ordered
  <2>5. Ordered'
    BY <1>1, <1>4, <2>3, <2>4 DEF AloneInv, Ordered, Follows
  <2>6. \A i \in 1 .. Len(attempted') : EndsBy(attempted'[i], LastEnd)
    BY <1>1, <2>1, <2>2 DEF AloneInv, Clock
  <2>7. Clock'
    BY <1>1, <1>2, <1>4, <2>6 DEF AloneInv, Clock, EndsBy
  <2> QED BY <2>5, <2>7
<1> QED BY <1>3, <1>4 DEF SessionPush

\* Kill is no session.
LEMMA OrderKill ==
    ASSUME AloneInv, StopSendKill
    PROVE  Ordered' /\ Clock'
<1>1. /\ attempted' = attempted /\ cur' = cur /\ steppedBack' = steppedBack
      /\ now' = now /\ main' = main /\ sw' = sw /\ range' = range /\ chan \in Seq(Signal)
  BY DEF AloneInv, SamplesInv, CoreInv, TypeOK, SessionTypeOK, StopSendKill
<1>2. /\ Len(chan') \in Nat
      /\ \A i \in 1 .. Len(chan') :
           chan'[i] # Kill => i \in 1 .. Len(chan) /\ chan'[i] = chan[i]
  <2>1. CASE chan' = chan
    BY <1>1, <2>1
  <2>2. CASE chan' = Append(chan, Kill)
    BY <1>1, <2>2
  <2> QED BY <2>1, <2>2 DEF StopSendKill
<1>5. \A i \in 1 .. Len(chan) : i \in 1 .. Len(chan') /\ chan'[i] = chan[i]
  <2>1. CASE chan' = chan
    BY <1>1, <2>1
  <2>2. CASE chan' = Append(chan, Kill)
    BY <1>1, <2>2
  <2> QED BY <2>1, <2>2 DEF StopSendKill
<1>3. Ordered'
  <2>1. ASSUME NEW i \in 1 .. Len(chan'), NEW j \in 1 .. Len(chan'), chan'[j] # Kill, i < j
        PROVE  Follows(chan'[j], chan'[i])
    <3>1. j \in 1 .. Len(chan) /\ chan'[j] = chan[j] /\ i \in 1 .. Len(chan)
      BY <1>1, <1>2, <2>1
    <3>2. chan'[i] = chan[i]
      BY <1>5, <3>1
    <3>3. Follows(chan[j], chan[i])
      BY <2>1, <3>1 DEF AloneInv, Ordered
    <3> QED BY <3>1, <3>2, <3>3
  <2>2. \A t, u : Follows(t, u)' <=> Follows(t, u)
    BY <1>1 DEF Follows
  <2> QED BY <1>1, <1>2, <2>1, <2>2 DEF AloneInv, Ordered
<1>4. Clock'
  BY <1>1, <1>2 DEF AloneInv, Clock, EndsBy, LastEnd, InSnapshot
<1> QED BY <1>3, <1>4

\* What neither the stream nor the clock of the agent sees.
LEMMA OrderSame ==
    ASSUME AloneInv, UNCHANGED <<attempted, cur, chan, steppedBack>>
    PROVE  Ordered'
BY DEF AloneInv, Ordered, Follows

\* The watch and the ranges, inside a snapshot or outside.
LEMMA ClockSame ==
    ASSUME AloneInv, UNCHANGED <<attempted, cur, chan, steppedBack, now, sw, range>>,
           main' = main \/ (InSnapshot /\ InSnapshot')
    PROVE  Clock'
<1>1. InSnapshot' = InSnapshot /\ LastEnd' = LastEnd
  BY DEF InSnapshot, LastEnd
<1>2. main' \notin {"none", "start"} => main \notin {"none", "start"}
  BY DEF InSnapshot
<1> QED BY <1>1, <1>2 DEF AloneInv, Clock, EndsBy

\* The end of a snapshot: the sessions sent end by the start of the watch too.
LEMMA ClockEnd ==
    ASSUME AloneInv, UNCHANGED <<attempted, cur, chan, steppedBack, now, sw, range>>,
           InSnapshot, main' \in {"wait", "done"}
    PROVE  Clock'
<1>1. SessionTypeOK /\ range.from \in Int /\ range.dur \in Int /\ sw \in Int
  BY DEF AloneInv, SamplesInv, CoreInv, TypeOK, MainTypeOK, RangeType
<1>2. LastEnd = range.from /\ EndsBy(range, sw) /\ LastEnd' = sw /\ ~InSnapshot'
  BY DEF AloneInv, Clock, LastEnd, InSnapshot
<1>3. ~steppedBack => range.from =< sw
  BY <1>1, <1>2 DEF EndsBy
<1>4. /\ \A i \in 1 .. Len(attempted) : EndsBy(attempted[i], range.from)
      /\ cur # Kill => EndsBy(cur, range.from)
      /\ \A i \in 1 .. Len(chan) : chan[i] # Kill => EndsBy(chan[i], range.from)
  BY <1>2 DEF AloneInv, Clock
<1>5. /\ \A i \in 1 .. Len(attempted) : EndsBy(attempted[i], sw)
      /\ cur # Kill => EndsBy(cur, sw)
      /\ \A i \in 1 .. Len(chan) : chan[i] # Kill => EndsBy(chan[i], sw)
  BY <1>1, <1>3, <1>4, Fields, EndsByLater
<1>6. ~steppedBack => sw =< now
  BY DEF AloneInv, Clock, InSnapshot
<1> QED BY <1>2, <1>5, <1>6 DEF Clock, EndsBy

\* The first range starts with the watch: nothing was sent yet.
LEMMA ClockStart ==
    ASSUME AloneInv, MainStart
    PROVE  Clock'
<1>1. attempted' = << >> /\ chan' = << >> /\ cur' = Kill
  BY DEF AloneInv, SamplesInv, CoreInv, AtRest, MainStart
<1>2. now \in Int /\ sw' = now /\ now' = now /\ ~InSnapshot'
  BY BoundsAssumption
  DEF AloneInv, SamplesInv, CoreInv, TypeOK, MainTypeOK, MainStart, InSnapshot
<1> QED BY <1>1, <1>2 DEF Clock

\* The agent begins with no session and no range.
LEMMA OrderStart ==
    ASSUME AloneInv, StartOnce
    PROVE  Ordered' /\ Clock'
<1>1. /\ attempted' = << >> /\ chan' = << >> /\ cur' = Kill /\ main' = "start"
  BY DEF StartOnce, BuildAndStart
<1>2. Ordered'
  BY <1>1 DEF Ordered
<1>3. Clock'
  BY <1>1 DEF Clock, InSnapshot
<1> QED BY <1>2, <1>3

\* The steps that neither send nor receive keep the order.
LEMMA OrderStill ==
    ASSUME AloneInv, QuietStep \/ MemFlush \/ StartOnce \/ StopOnce
    PROVE  Ordered' /\ Clock'
<1>1. CASE SamplerStart
  BY <1>1, OrderSame, ClockSame DEF SamplerStart
<1>2. CASE SamplerTake
  BY <1>2, OrderSame, ClockSame DEF SamplerTake
<1>3. CASE SamplerRecord
  BY <1>3, OrderSame, ClockSame DEF SamplerRecord
<1>4. CASE SamplerEnd
  BY <1>4, OrderSame, ClockSame DEF SamplerEnd
<1>5. CASE MemSample
  BY <1>5, OrderSame, ClockSame DEF MemSample
<1>6. CASE StopJoinMain
  BY <1>6, OrderSame, ClockSame DEF StopJoinMain
<1>7. CASE StopBackend
  BY <1>7, OrderSame, ClockSame DEF StopBackend
<1>8. CASE StopJoinSampler
  BY <1>8, OrderSame, ClockSame DEF StopJoinSampler
<1>9. CASE StopJoinSession
  BY <1>9, OrderSame, ClockSame DEF StopJoinSession
<1>10. CASE StopOnce
  BY <1>10, OrderSame, ClockSame DEF StopOnce, StopBegin
<1>11. CASE MemAttach
  BY <1>11, OrderSame, ClockSame DEF MemAttach, InSnapshot
<1>12. CASE MemFlush
  BY <1>12, OrderSame, ClockSame DEF MemFlush, InSnapshot
<1>13. CASE CpuReport
  <2>1. /\ UNCHANGED <<attempted, cur, chan, steppedBack, now, sw, range>>
        /\ InSnapshot
        /\ InSnapshot' \/ main' \in {"wait", "done"}
    BY <1>13 DEF CpuReport, EndSnapshot, InSnapshot
  <2> QED BY <2>1, OrderSame, ClockSame, ClockEnd
<1>14. CASE MainStart
  BY <1>14, OrderSame, ClockStart DEF MainStart
<1>15. CASE MainWake
  BY <1>15, OrderSame, OrderWake DEF MainWake
<1>16. CASE ClockStep
  BY <1>16, OrderClock
<1>17. CASE StartOnce
  BY <1>17, OrderStart
<1> QED
  BY <1>1, <1>2, <1>3, <1>4, <1>5, <1>6, <1>7, <1>8, <1>9, <1>10, <1>11, <1>12,
      <1>13, <1>14, <1>15, <1>16, <1>17
  DEF QuietStep, SamplerThread

-----------------------------------------------------------------------------
(***************************************************************************)
(* The theorems                                                            *)
(***************************************************************************)

\* Steps that move nothing of the samples: the GIL, and no step at all.
LEMMA SamplesOther ==
    ASSUME SamplesInv,
           UNCHANGED agentVars \/ \E c \in Pythons : AcquireGil(c) \/ ReleaseGil(c)
    PROVE  SamplesPart'
<1>1. UNCHANGED <<taken, cpuVars, profVars, finalizing, now, terminated, mainVars,
                  sessVars, stop, histVars>>
  BY DEF AcquireGil, ReleaseGil
<1>2. InStream' = InStream
  BY <1>1, StreamStill
<1> QED
  BY <1>1, <1>2
  DEF SamplesInv, SamplesPart, Placed, Kept, Ending, Flushed, AloneOnly, MemToCome,
      CpuToCome, Buffered

\* Nor do they disturb the order.
LEMMA OrderOther ==
    ASSUME AloneInv,
           UNCHANGED agentVars \/ \E c \in Pythons : AcquireGil(c) \/ ReleaseGil(c)
    PROVE  Ordered' /\ Clock'
<1>1. UNCHANGED <<attempted, cur, chan, steppedBack, now, sw, range, main>>
  BY DEF AcquireGil, ReleaseGil
<1> QED BY <1>1, OrderSame, ClockSame

\* The invariant holds at first.
LEMMA AloneStart == AloneInit => AloneInv
<1> SUFFICES ASSUME AloneInit PROVE AloneInv
  OBVIOUS
<1>1. AgentInit(MemEnabled, FALSE) /\ Buffered
  BY DEF AloneInit
<1>2. CoreInv
  BY <1>1, CoreInit, SwitchAssumption
<1>3. InStream = {}
  <2>1. Samples(<<Kill>>) = {}
    BY SamplesOne DEF Signal
  <2> QED BY <1>1, <2>1, SamplesEmpty DEF AgentInit, InStream
<1>4. Placed /\ Kept
  BY <1>1, <1>3 DEF AgentInit, Placed, Kept
<1>5. Ending /\ Flushed /\ AloneOnly
  BY <1>1 DEF AgentInit, Ending, Flushed, AloneOnly
<1>6. Ordered /\ Clock
  BY <1>1 DEF AgentInit, Ordered, Clock, InSnapshot
<1> QED BY <1>2, <1>4, <1>5, <1>6 DEF AloneInv, SamplesInv, SamplesPart

\* The steps of an agent on its own, by what they do to the stream.
LEMMA AloneCases ==
    ASSUME [AloneNext]_agentVars
    PROVE  \/ QuietStep \/ StartOnce \/ StopOnce
           \/ MemFlush \/ SendSession \/ SessionRecv \/ SessionPush \/ StopSendKill
           \/ UNCHANGED agentVars \/ \E c \in Pythons : AcquireGil(c) \/ ReleaseGil(c)
BY Zenon DEF AloneNext, AgentThreads, MainThread, SessionThread, Joiner, QuietStep

\* It is inductive.
LEMMA AloneStep == AloneInv /\ [AloneNext]_agentVars => AloneInv'
<1> SUFFICES ASSUME AloneInv, [AloneNext]_agentVars PROVE AloneInv'
  OBVIOUS
<1>1. SamplesInv /\ CoreInv
  BY DEF AloneInv, SamplesInv
<1>2. CoreInv'
  <2>1. CASE UNCHANGED agentVars
    BY <1>1, <2>1
    DEF CoreInv, TypeOK, SamplingTypeOK, MainTypeOK, SessionTypeOK, StopTypeOK,
        StopOrder, SessionAlive, Handover, AtRest
  <2>2. CASE AloneNext
    BY <1>1, <2>2, CoreStep, Zenon
    DEF AloneNext, AgentStep, Background, StartOnce, StopOnce
  <2> QED BY <2>1, <2>2
<1>3. SamplesPart'
  BY <1>1, AloneCases, SamplesQuiet, SamplesFlow, SamplesStart, SamplesStop, SamplesOther
<1>4. Ordered' /\ Clock'
  BY AloneCases, OrderStill, OrderSend, OrderRecv, OrderPush, OrderKill, OrderOther
<1> QED BY <1>2, <1>3, <1>4 DEF AloneInv, SamplesInv

\* So it holds throughout.
LEMMA AloneInvariant == AloneSpec => []AloneInv
BY AloneStart, AloneStep, PTL DEF AloneSpec

\* Every variable of an agent has its type: the session channel never holds more
\* than its capacity, with stop() sending Kill as well (PyroscopeAgent::start,
\* stop, SessionManager).
THEOREM AgentTypes == AloneSpec => []TypeOK
<1>1. AloneInv => TypeOK
  BY DEF AloneInv, SamplesInv, CoreInv
<1> QED BY <1>1, AloneInvariant, PTL

\* Two sessions of the stream are in its order.
LEMMA StreamOrder ==
    ASSUME AloneInv, NEW i \in Sessions, NEW j \in Sessions, i < j
    PROVE  Follows(Stream[j], Stream[i])
<1> DEFINE a == Len(attempted)  c == Len(chan)
<1>1. /\ SessionTypeOK /\ a \in Nat /\ c \in Nat
      /\ i \in 1 .. a + 1 + c /\ j \in 1 .. a + 1 + c
      /\ Stream[i] # Kill /\ Stream[j] # Kill
  BY StreamShape DEF AloneInv, SamplesInv, CoreInv, TypeOK, SessionTypeOK, Sessions
<1>2. /\ \A k \in 1 .. a : Stream[k] = attempted[k]
      /\ Stream[a + 1] = cur
      /\ \A k \in 1 .. c : Stream[a + 1 + k] = chan[k]
  BY <1>1, StreamShape
<1> HIDE DEF a, c
<1>3. CASE j \in 1 .. a
  <2>1. i \in 1 .. a
    BY <1>1, <1>3
  <2> QED BY <1>2, <1>3, <2>1 DEF AloneInv, Ordered, a
<1>4. CASE j = a + 1
  <2>1. i \in 1 .. a
    BY <1>1, <1>4
  <2> QED BY <1>1, <1>2, <1>4, <2>1 DEF AloneInv, Ordered, a
<1>5. CASE j > a + 1
  <2>1. PICK k \in 1 .. c : j = a + 1 + k
    <3>1. j - a - 1 \in 1 .. c /\ j = a + 1 + (j - a - 1)
      BY <1>1, <1>5
    <3> QED BY <3>1
  <2>2. Stream[j] = chan[k]
    BY <1>2, <2>1
  <2>3. CASE i \in 1 .. a
    BY <1>1, <1>2, <2>2, <2>3 DEF AloneInv, Ordered, a, c
  <2>4. CASE i = a + 1
    BY <1>1, <1>2, <2>2, <2>4 DEF AloneInv, Ordered, c
  <2>5. CASE i > a + 1
    <3>1. PICK l \in 1 .. c : i = a + 1 + l /\ l < k
      <4>1. i - a - 1 \in 1 .. c /\ i = a + 1 + (i - a - 1) /\ i - a - 1 < k
        BY <1>1, <2>1, <2>5
      <4> QED BY <4>1
    <3>2. Stream[i] = chan[l]
      BY <1>2, <3>1
    <3> QED BY <1>1, <2>2, <3>1, <3>2 DEF AloneInv, Ordered, c
  <2> QED BY <1>1, <2>3, <2>4, <2>5
<1> QED BY <1>1, <1>3, <1>4, <1>5

\* The samples of the queue, of the upload and of what was uploaded are apart.
LEMMA StreamApart ==
    ASSUME AloneInv
    PROVE  /\ Samples(chan) \cap Samples(<<cur>>) = {}
           /\ Samples(chan) \cap Samples(attempted) = {}
           /\ Samples(<<cur>>) \cap Samples(attempted) = {}
<1>1. /\ attempted \in Seq(Signal) /\ chan \in Seq(Signal) /\ cur \in Signal
  BY DEF AloneInv, SamplesInv, CoreInv, TypeOK, SessionTypeOK, Signal
<1>2. ASSUME NEW x \in Samples(chan)
      PROVE  x \notin Samples(<<cur>>) /\ x \notin Samples(attempted)
  <2>1. PICK j \in 1 .. Len(chan) : chan[j] # Kill /\ x \in chan[j].data
    BY <1>1, SamplesMember
  <2>2. cur # Kill => chan[j].data \cap cur.data = {}
    BY <2>1 DEF AloneInv, Ordered, Follows
  <2>3. \A i \in 1 .. Len(attempted) : chan[j].data \cap attempted[i].data = {}
    BY <2>1 DEF AloneInv, Ordered, Follows
  <2> QED BY <1>1, <2>1, <2>2, <2>3, SamplesMember, SamplesOne
<1>3. ASSUME NEW x \in Samples(<<cur>>)
      PROVE  x \notin Samples(attempted)
  <2>1. cur # Kill /\ x \in cur.data
    BY <1>1, SamplesOne
  <2>2. \A i \in 1 .. Len(attempted) : cur.data \cap attempted[i].data = {}
    BY <2>1 DEF AloneInv, Ordered, Follows
  <2> QED BY <1>1, <2>1, <2>2, SamplesMember
<1> QED BY <1>2, <1>3

\* No sample is counted twice: at any time it is in the hand of the sampler, in
\* one buffer, in the batch of a snapshot, or in one session of the stream
\* (Reporter::report takes the buffer, dump_pprof takes the profile).
THEOREM NoDuplicates == AloneSpec => []NoDuplicateSamples
<1>1. ASSUME AloneInv PROVE NoDuplicateSamples
  <2>1. Placed
    BY <1>1 DEF AloneInv, SamplesInv, SamplesPart
  <2>2. \A i, j \in DOMAIN Places : i # j => Places[i] \cap Places[j] = {}
    <3>1. DOMAIN Places = 1 .. 8
      BY DEF Places
    <3>2. ASSUME NEW i \in 1 .. 8, NEW j \in 1 .. 8, i < j
          PROVE  Places[i] \cap Places[j] = {}
      BY <1>1, <2>1, <3>2, StreamApart DEF Places, Placed, InStream
    <3>3. ASSUME NEW i \in 1 .. 8, NEW j \in 1 .. 8, i # j
          PROVE  Places[i] \cap Places[j] = {}
      <4>1. i < j \/ j < i
        BY <3>3
      <4> QED BY <3>2, <4>1
    <3> QED BY <3>1, <3>3
  <2>3. ASSUME NEW i \in Sessions, NEW j \in Sessions, i # j
        PROVE  Stream[i].data \cap Stream[j].data = {}
    <3>1. i \in Nat /\ j \in Nat
      BY <1>1, StreamShape DEF AloneInv, SamplesInv, CoreInv, TypeOK, Sessions
    <3>2. i < j \/ j < i
      BY <2>3, <3>1
    <3> QED BY <1>1, <3>2, StreamOrder DEF Follows
  <2> QED BY <2>2, <2>3 DEF NoDuplicateSamples
<1> QED BY <1>1, AloneInvariant, PTL

\* No sample is lost on the way to its upload, unless the main thread or the
\* session thread ended with an error.
THEOREM NothingLost == AloneSpec => []NoLostSamples
<1>1. ASSUME AloneInv PROVE NoLostSamples
  <2>1. Placed /\ Kept
    BY <1>1 DEF AloneInv, SamplesInv, SamplesPart
  <2>2. UNION {Places[i] : i \in DOMAIN Places}
          = inHand \cup buffer \cup memBuf \cup stackBuf \cup batch \cup InStream
    <3>1. DOMAIN Places = 1 .. 8
      BY DEF Places
    <3>2. /\ Places[1] = inHand /\ Places[2] = buffer /\ Places[3] = memBuf
          /\ Places[4] = stackBuf /\ Places[5] = batch /\ Places[6] = Samples(chan)
          /\ Places[7] = Samples(<<cur>>) /\ Places[8] = Samples(attempted)
      BY DEF Places
    <3>3. \A i \in 1 .. 8 : i = 1 \/ i = 2 \/ i = 3 \/ i = 4 \/ i = 5 \/ i = 6 \/ i = 7
                            \/ i = 8
      OBVIOUS
    <3>4. \A i \in {1, 2, 3, 4, 5, 6, 7, 8} : i \in 1 .. 8
      OBVIOUS
    <3> QED BY <3>1, <3>2, <3>3, <3>4 DEF InStream
  <2> QED BY <2>1, <2>2 DEF NoLostSamples, Placed, Kept
<1> QED BY <1>1, AloneInvariant, PTL

\* stop() flushes: when it has returned, every sample recorded before it began
\* was in an upload, unless a thread of the agent ended with an error.
THEOREM StopFlushes == AloneSpec => []FlushOnStop
<1>1. ASSUME AloneInv PROVE FlushOnStop
  <2>1. SUFFICES ASSUME stop = "stopped", ~mainErr, session # "panicked"
                 PROVE  atStop \subseteq Samples(attempted)
    BY DEF FlushOnStop
  <2>2. main = "done" /\ ~SessionAlive /\ batch = {} /\ chan = << >> /\ cur = Kill
    BY <1>1, <2>1
    DEF AloneInv, SamplesInv, CoreInv, StopOrder, Handover, AtRest, SessionAlive
  <2>3. ~MemToCome /\ ~CpuToCome
    BY <2>2 DEF MemToCome, CpuToCome
  <2>4. atStop \subseteq InStream
    BY <1>1, <2>1, <2>2, <2>3 DEF AloneInv, SamplesInv, SamplesPart, Flushed
  <2>5. Samples(<<Kill>>) = {}
    BY SamplesOne DEF Signal
  <2> QED BY <2>2, <2>4, <2>5, SamplesEmpty DEF InStream
<1> QED BY <1>1, AloneInvariant, PTL

\* The time ranges of the sessions are not negative, and do not overlap unless
\* the system clock was set back.
THEOREM RangesAreDisjoint == AloneSpec => []RangesDisjoint
<1>1. ASSUME AloneInv PROVE RangesDisjoint
  <2>1. ASSUME NEW i \in Sessions
        PROVE  Stream[i].from >= 0 /\ Stream[i].dur >= 0
    <3> DEFINE a == Len(attempted)  c == Len(chan)
    <3>1. /\ SessionTypeOK /\ a \in Nat /\ c \in Nat /\ i \in 1 .. a + 1 + c
          /\ Stream[i] # Kill
      BY <1>1, StreamShape
      DEF AloneInv, SamplesInv, CoreInv, TypeOK, SessionTypeOK, Sessions
    <3>2. /\ \A k \in 1 .. a : Stream[k] = attempted[k]
          /\ Stream[a + 1] = cur
          /\ \A k \in 1 .. c : Stream[a + 1 + k] = chan[k]
      BY <3>1, StreamShape
    <3> HIDE DEF a, c
    <3>3. CASE i \in 1 .. a
      BY <1>1, <3>2, <3>3 DEF AloneInv, Clock, EndsBy, a
    <3>4. CASE i = a + 1
      BY <1>1, <3>1, <3>2, <3>4 DEF AloneInv, Clock, EndsBy
    <3>5. CASE i > a + 1
      <4>1. PICK k \in 1 .. c : i = a + 1 + k
        <5>1. i - a - 1 \in 1 .. c /\ i = a + 1 + (i - a - 1)
          BY <3>1, <3>5
        <5> QED BY <5>1
      <4> QED BY <1>1, <3>1, <3>2, <4>1 DEF AloneInv, Clock, EndsBy, c
    <3> QED BY <3>1, <3>3, <3>4, <3>5
  <2>2. ASSUME NEW i \in Sessions, NEW j \in Sessions, i < j, ~steppedBack
        PROVE  Stream[i].from + Stream[i].dur =< Stream[j].from
    BY <1>1, <2>2, StreamOrder DEF Follows
  <2> QED BY <2>1, <2>2 DEF RangesDisjoint
<1> QED BY <1>1, AloneInvariant, PTL

USE DEF vars, ffiVars, agentVars, cpuVars, profVars, pyVars, mainVars, sessVars, histVars

-----------------------------------------------------------------------------
(***************************************************************************)
(* The invariant                                                           *)
(***************************************************************************)

Ops == {"none", "run", "stop", "tag", "exit"}
StartSteps == {"memory", "stack", "install", "client", "build", "lock_running", "running"}
StopSteps == {"detach", "stop", "join"}
TeardownSteps == {"stop_memory", "stop_stack", "sampler_stop", "attach", "clear_stack",
                  "lock_idle", "idle"}
Steps == Outside \cup StartSteps \cup StopSteps \cup TeardownSteps

\* Where a thread is without the GIL, or may be.
Detached == PythonCode \cup {"stop", "join", "sampler_stop", "attach"}

FfiTypeOK ==
    /\ state \in {"Idle", "Busy", "Running"}
    /\ op \in [Pythons -> Ops] /\ step \in [Pythons -> Steps]
    /\ configured \in Nat /\ dropped \in Nat

\* state is Busy exactly while a thread is in an operation, and it is one.
OneOwner ==
    /\ state = "Busy" <=> \E c \in Pythons : step[c] \notin Outside
    /\ \A c, d \in Pythons : step[c] \notin Outside /\ step[d] \notin Outside => c = d

\* Which call a place belongs to.
OpOfStep ==
    \A c \in Pythons :
        /\ step[c] \in StartSteps \cup {"set_flag"} => op[c] = "run"
        /\ step[c] \in StopSteps \cup {"clear_flag"} => op[c] \in {"stop", "exit"}
        /\ step[c] \in TeardownSteps => op[c] \in {"run", "stop", "exit"}
        /\ step[c] \in {"lock", "claim"} => op[c] # "none"

\* Native code holds the GIL, so between state = Running and the flag, and
\* between Idle and its reset, no other thread gets to run.
GilHeld ==
    /\ main = "flush" => gil = "snapshot"
    /\ \A c \in Pythons : step[c] \notin Detached => gil = c
FlagSteps ==
    \A c \in Pythons : /\ step[c] = "set_flag" => state = "Running"
                       /\ step[c] = "clear_flag" => state = "Idle"

Calling == FfiTypeOK /\ OneOwner /\ OpOfStep /\ GilHeld /\ FlagSteps

\* AGENT_RUNNING is set from the return of run to the end of stop.
Flag ==
    /\ state = "Running" => AGENT_RUNNING \/ \E c \in Pythons : step[c] = "set_flag"
    /\ \A c \in Owners : op[c] # "run" => AGENT_RUNNING

\* The calls that returned true, and the one that is about to.
AgentUp == state = "Running" \/ \E c \in Owners : op[c] # "run"
Owed == IF \E c \in Pythons : step[c] = "set_flag" THEN 1
        ELSE IF \E c \in Pythons : step[c] = "clear_flag" THEN -1 ELSE 0
Counts == configured + Owed - dropped = IF AgentUp THEN 1 ELSE 0

\* What is gone when: the threads before teardown, and outside an agent; the
\* hooks after memory::stop, the sampler after sampler_stop.
ThreadsGone ==
    main \in {"none", "done"} /\ ~SessionAlive /\ sampler \in {"none", "done"}
AgentOver == main = "none" \/ stop = "stopped"
NoAgentSteps == TeardownSteps \cup {"memory", "stack", "install", "client", "build"}
OffWhen ==
    /\ state = "Idle" => AgentOver /\ ~memHooks /\ ~stackOn
    /\ \A c \in Pythons :
        /\ step[c] \in NoAgentSteps => AgentOver
        /\ step[c] \in (TeardownSteps \ {"stop_memory"}) \cup {"memory"} => ~memHooks
        /\ step[c] \in {"memory", "stack", "attach", "clear_stack", "lock_idle", "idle"}
             => ~stackOn

\* Samples are younger than the claim of the agent they are for, and an agent
\* that is off has left none.
Fresh ==
    /\ born \in 0 .. taken
    /\ \A x \in memBuf \cup stackBuf : x > born
    /\ stop # "stopped" => \A x \in inHand \cup buffer \cup batch \cup InStream : x > born
Cleared ==
    /\ state = "Idle" => memBuf = {} /\ stackBuf = {}
    /\ \A c \in Pythons :
        /\ step[c] \in TeardownSteps \ {"stop_memory"} => memBuf = {}
        /\ step[c] \in {"lock_idle", "idle"} => stackBuf = {}

FfiInv == CoreInv /\ Calling /\ Flag /\ Counts /\ OffWhen /\ Fresh /\ Cleared

\* What a caller does.
CallerStep(c) == \/ \E o \in {"run", "stop", "tag", "exit"} : Call(c, o)
                 \/ Native(c) \/ Finalize(c) \/ SwitchGil(c)

-----------------------------------------------------------------------------
\* Callers keep to their places, one of them in an operation.
LEMMA PlacesStep ==
    ASSUME Calling, NEW c \in Pythons, CallerStep(c)
    PROVE  FfiTypeOK' /\ OneOwner' /\ OpOfStep'
<1> USE DEF Calling, FfiTypeOK, OneOwner, OpOfStep, Steps, Outside, StartSteps,
            StopSteps, TeardownSteps,
            Ops, PythonCode, At, Goto
<1>1. CASE \E o \in {"run", "stop", "tag", "exit"} : Call(c, o)
  BY <1>1 DEF Call
<1>2. CASE LockState(c)
  BY <1>2 DEF LockState
<1>3. CASE RunClaim(c)
  BY <1>3 DEF RunClaim, Return
<1>4. CASE RunMemory(c)
  BY <1>4 DEF RunMemory
<1>5. CASE RunStack(c)
  BY <1>5 DEF RunStack
<1>6. CASE RunInstall(c)
  BY <1>6 DEF RunInstall
<1>7. CASE RunClient(c)
  BY <1>7 DEF RunClient
<1>8. CASE RunBuild(c)
  BY <1>8 DEF RunBuild, BuildAndStart
<1>9. CASE RunRunning(c)
  BY <1>9 DEF RunRunning
<1>10. CASE SetFlag(c)
  BY <1>10 DEF SetFlag, Return
<1>11. CASE StopClaim(c)
  BY <1>11 DEF StopClaim, Return
<1>12. CASE StopDetach(c)
  BY <1>12 DEF StopDetach, ReleaseGil
<1>13. CASE StopAgent(c)
  BY <1>13 DEF StopAgent, StopBegin
<1>14. CASE StopAttach(c)
  BY <1>14 DEF StopAttach, AcquireGil
<1>15. CASE StopMemory(c)
  BY <1>15 DEF StopMemory
<1>16. CASE StopStack(c)
  BY <1>16 DEF StopStack
<1>17. CASE SamplerStop(c)
  BY <1>17 DEF SamplerStop
<1>18. CASE StackAttach(c)
  BY <1>18 DEF StackAttach, AcquireGil
<1>19. CASE ClearStack(c)
  BY <1>19 DEF ClearStack
<1>20. CASE BackToIdle(c)
  BY <1>20 DEF BackToIdle, Return
<1>21. CASE ClearFlag(c)
  BY <1>21 DEF ClearFlag, Return
<1>22. CASE TagThread(c)
  BY <1>22 DEF TagThread, Return
<1>23. CASE Finalize(c)
  BY <1>23 DEF Finalize
<1>24. CASE SwitchGil(c)
  BY <1>24 DEF SwitchGil, AcquireGil, ReleaseGil
<1> QED
  BY <1>1, <1>2, <1>3, <1>4, <1>5, <1>6, <1>7, <1>8, <1>9, <1>10, <1>11, <1>12, <1>13,
      <1>14, <1>15, <1>16, <1>17, <1>18, <1>19, <1>20, <1>21, <1>22, <1>23, <1>24
  DEF CallerStep, Native, RunStep, StopStep, TeardownStep

\* Native code holds the GIL.
LEMMA GilStep ==
    ASSUME Calling, NEW c \in Pythons, CallerStep(c)
    PROVE  GilHeld'
<1> USE PythonsAssumption
    DEF Calling, FfiTypeOK, GilHeld, Detached, PythonCode, At, Goto
<1>1. CASE \E o \in {"run", "stop", "tag", "exit"} : Call(c, o)
  BY <1>1 DEF Call
<1>2. CASE LockState(c)
  BY <1>2 DEF LockState
<1>3. CASE RunClaim(c)
  BY <1>3 DEF RunClaim, Return
<1>4. CASE RunMemory(c)
  BY <1>4 DEF RunMemory
<1>5. CASE RunStack(c)
  BY <1>5 DEF RunStack
<1>6. CASE RunInstall(c)
  BY <1>6 DEF RunInstall
<1>7. CASE RunClient(c)
  BY <1>7 DEF RunClient
<1>8. CASE RunBuild(c)
  BY <1>8 DEF RunBuild, BuildAndStart
<1>9. CASE RunRunning(c)
  BY <1>9 DEF RunRunning
<1>10. CASE SetFlag(c)
  BY <1>10 DEF SetFlag, Return
<1>11. CASE StopClaim(c)
  BY <1>11 DEF StopClaim, Return
<1>12. CASE StopDetach(c)
  BY <1>12 DEF StopDetach, ReleaseGil
<1>13. CASE StopAgent(c)
  BY <1>13 DEF StopAgent, StopBegin
<1>14. CASE StopAttach(c)
  BY <1>14 DEF StopAttach, AcquireGil
<1>15. CASE StopMemory(c)
  BY <1>15 DEF StopMemory
<1>16. CASE StopStack(c)
  BY <1>16 DEF StopStack
<1>17. CASE SamplerStop(c)
  BY <1>17 DEF SamplerStop
<1>18. CASE StackAttach(c)
  BY <1>18 DEF StackAttach, AcquireGil
<1>19. CASE ClearStack(c)
  BY <1>19 DEF ClearStack
<1>20. CASE BackToIdle(c)
  BY <1>20 DEF BackToIdle, Return
<1>21. CASE ClearFlag(c)
  BY <1>21 DEF ClearFlag, Return
<1>22. CASE TagThread(c)
  BY <1>22 DEF TagThread, Return
<1>23. CASE Finalize(c)
  BY <1>23 DEF Finalize
<1>24. CASE SwitchGil(c)
  BY <1>24 DEF SwitchGil, AcquireGil, ReleaseGil
<1> QED
  BY <1>1, <1>2, <1>3, <1>4, <1>5, <1>6, <1>7, <1>8, <1>9, <1>10, <1>11, <1>12, <1>13,
      <1>14, <1>15, <1>16, <1>17, <1>18, <1>19, <1>20, <1>21, <1>22, <1>23, <1>24
  DEF CallerStep, Native, RunStep, StopStep, TeardownStep

\* Between claim and flag, state does not change.
LEMMA FlagStepsStep ==
    ASSUME Calling, NEW c \in Pythons, CallerStep(c)
    PROVE  FlagSteps'
<1> USE PythonsAssumption
    DEF Calling, FfiTypeOK, OneOwner, Outside, GilHeld, Detached, PythonCode,
        FlagSteps, At, Goto
<1>1. CASE \E o \in {"run", "stop", "tag", "exit"} : Call(c, o)
  BY <1>1 DEF Call
<1>2. CASE LockState(c)
  BY <1>2 DEF LockState
<1>3. CASE RunClaim(c)
  BY <1>3 DEF RunClaim, Return
<1>4. CASE RunMemory(c)
  BY <1>4 DEF RunMemory
<1>5. CASE RunStack(c)
  BY <1>5 DEF RunStack
<1>6. CASE RunInstall(c)
  BY <1>6 DEF RunInstall
<1>7. CASE RunClient(c)
  BY <1>7 DEF RunClient
<1>8. CASE RunBuild(c)
  BY <1>8 DEF RunBuild, BuildAndStart
<1>9. CASE RunRunning(c)
  BY <1>9 DEF RunRunning
<1>10. CASE SetFlag(c)
  BY <1>10 DEF SetFlag, Return
<1>11. CASE StopClaim(c)
  BY <1>11 DEF StopClaim, Return
<1>12. CASE StopDetach(c)
  BY <1>12 DEF StopDetach, ReleaseGil
<1>13. CASE StopAgent(c)
  BY <1>13 DEF StopAgent, StopBegin
<1>14. CASE StopAttach(c)
  BY <1>14 DEF StopAttach, AcquireGil
<1>15. CASE StopMemory(c)
  BY <1>15 DEF StopMemory
<1>16. CASE StopStack(c)
  BY <1>16 DEF StopStack
<1>17. CASE SamplerStop(c)
  BY <1>17 DEF SamplerStop
<1>18. CASE StackAttach(c)
  BY <1>18 DEF StackAttach, AcquireGil
<1>19. CASE ClearStack(c)
  BY <1>19 DEF ClearStack
<1>20. CASE BackToIdle(c)
  BY <1>20 DEF BackToIdle, Return
<1>21. CASE ClearFlag(c)
  BY <1>21 DEF ClearFlag, Return
<1>22. CASE TagThread(c)
  BY <1>22 DEF TagThread, Return
<1>23. CASE Finalize(c)
  BY <1>23 DEF Finalize
<1>24. CASE SwitchGil(c)
  BY <1>24 DEF SwitchGil, AcquireGil, ReleaseGil
<1> QED
  BY <1>1, <1>2, <1>3, <1>4, <1>5, <1>6, <1>7, <1>8, <1>9, <1>10, <1>11, <1>12, <1>13,
      <1>14, <1>15, <1>16, <1>17, <1>18, <1>19, <1>20, <1>21, <1>22, <1>23, <1>24
  DEF CallerStep, Native, RunStep, StopStep, TeardownStep

\* The flag is stored before run returns, and cleared after stop.
LEMMA FlagStep ==
    ASSUME Calling, Flag, NEW c \in Pythons, CallerStep(c)
    PROVE  Flag'
<1> USE PythonsAssumption
    DEF Calling, FfiTypeOK, OneOwner, OpOfStep, GilHeld, FlagSteps, Flag, Owners,
        Steps, Outside, StartSteps, StopSteps, TeardownSteps, Detached, PythonCode, At, Goto
<1>1. CASE \E o \in {"run", "stop", "tag", "exit"} : Call(c, o)
  BY <1>1 DEF Call
<1>2. CASE LockState(c)
  BY <1>2 DEF LockState
<1>3. CASE RunClaim(c)
  BY <1>3 DEF RunClaim, Return
<1>4. CASE RunMemory(c)
  BY <1>4 DEF RunMemory
<1>5. CASE RunStack(c)
  BY <1>5 DEF RunStack
<1>6. CASE RunInstall(c)
  BY <1>6 DEF RunInstall
<1>7. CASE RunClient(c)
  BY <1>7 DEF RunClient
<1>8. CASE RunBuild(c)
  BY <1>8 DEF RunBuild, BuildAndStart
<1>9. CASE RunRunning(c)
  BY <1>9 DEF RunRunning
<1>10. CASE SetFlag(c)
  BY <1>10 DEF SetFlag, Return
<1>11. CASE StopClaim(c)
  BY <1>11 DEF StopClaim, Return
<1>12. CASE StopDetach(c)
  BY <1>12 DEF StopDetach, ReleaseGil
<1>13. CASE StopAgent(c)
  BY <1>13 DEF StopAgent, StopBegin
<1>14. CASE StopAttach(c)
  BY <1>14 DEF StopAttach, AcquireGil
<1>15. CASE StopMemory(c)
  BY <1>15 DEF StopMemory
<1>16. CASE StopStack(c)
  BY <1>16 DEF StopStack
<1>17. CASE SamplerStop(c)
  BY <1>17 DEF SamplerStop
<1>18. CASE StackAttach(c)
  BY <1>18 DEF StackAttach, AcquireGil
<1>19. CASE ClearStack(c)
  BY <1>19 DEF ClearStack
<1>20. CASE BackToIdle(c)
  BY <1>20 DEF BackToIdle, Return
<1>21. CASE ClearFlag(c)
  BY <1>21 DEF ClearFlag, Return
<1>22. CASE TagThread(c)
  BY <1>22 DEF TagThread, Return
<1>23. CASE Finalize(c)
  BY <1>23 DEF Finalize
<1>24. CASE SwitchGil(c)
  BY <1>24 DEF SwitchGil, AcquireGil, ReleaseGil
<1> QED
  BY <1>1, <1>2, <1>3, <1>4, <1>5, <1>6, <1>7, <1>8, <1>9, <1>10, <1>11, <1>12, <1>13,
      <1>14, <1>15, <1>16, <1>17, <1>18, <1>19, <1>20, <1>21, <1>22, <1>23, <1>24
  DEF CallerStep, Native, RunStep, StopStep, TeardownStep

\* Each operation is counted once, when it returns.
LEMMA CountsStep ==
    ASSUME Calling, Counts, NEW c \in Pythons, CallerStep(c)
    PROVE  Counts'
<1> USE PythonsAssumption
    DEF Calling, FfiTypeOK, OneOwner, OpOfStep, GilHeld, FlagSteps, Counts, Owed,
        AgentUp, Owners, Steps, Outside, StartSteps, StopSteps, TeardownSteps,
        Detached, PythonCode, At, Goto
<1>1. CASE \E o \in {"run", "stop", "tag", "exit"} : Call(c, o)
  BY <1>1 DEF Call
<1>2. CASE LockState(c)
  BY <1>2 DEF LockState
<1>3. CASE RunClaim(c)
  BY <1>3 DEF RunClaim, Return
<1>4. CASE RunMemory(c)
  BY <1>4 DEF RunMemory
<1>5. CASE RunStack(c)
  BY <1>5 DEF RunStack
<1>6. CASE RunInstall(c)
  BY <1>6 DEF RunInstall
<1>7. CASE RunClient(c)
  BY <1>7 DEF RunClient
<1>8. CASE RunBuild(c)
  BY <1>8 DEF RunBuild, BuildAndStart
<1>9. CASE RunRunning(c)
  BY <1>9 DEF RunRunning
<1>10. CASE SetFlag(c)
  BY <1>10 DEF SetFlag, Return
<1>11. CASE StopClaim(c)
  BY <1>11 DEF StopClaim, Return
<1>12. CASE StopDetach(c)
  BY <1>12 DEF StopDetach, ReleaseGil
<1>13. CASE StopAgent(c)
  BY <1>13 DEF StopAgent, StopBegin
<1>14. CASE StopAttach(c)
  BY <1>14 DEF StopAttach, AcquireGil
<1>15. CASE StopMemory(c)
  BY <1>15 DEF StopMemory
<1>16. CASE StopStack(c)
  BY <1>16 DEF StopStack
<1>17. CASE SamplerStop(c)
  BY <1>17 DEF SamplerStop
<1>18. CASE StackAttach(c)
  BY <1>18 DEF StackAttach, AcquireGil
<1>19. CASE ClearStack(c)
  BY <1>19 DEF ClearStack
<1>20. CASE BackToIdle(c)
  BY <1>20 DEF BackToIdle, Return
<1>21. CASE ClearFlag(c)
  BY <1>21 DEF ClearFlag, Return
<1>22. CASE TagThread(c)
  BY <1>22 DEF TagThread, Return
<1>23. CASE Finalize(c)
  BY <1>23 DEF Finalize
<1>24. CASE SwitchGil(c)
  BY <1>24 DEF SwitchGil, AcquireGil, ReleaseGil
<1> QED
  BY <1>1, <1>2, <1>3, <1>4, <1>5, <1>6, <1>7, <1>8, <1>9, <1>10, <1>11, <1>12, <1>13,
      <1>14, <1>15, <1>16, <1>17, <1>18, <1>19, <1>20, <1>21, <1>22, <1>23, <1>24
  DEF CallerStep, Native, RunStep, StopStep, TeardownStep

\* Teardown turns everything off, in order.
LEMMA OffStep ==
    ASSUME CoreInv, Calling, OffWhen, NEW c \in Pythons, CallerStep(c)
    PROVE  OffWhen'
<1> USE DEF CoreInv, StopOrder, Calling, FfiTypeOK, OneOwner, OffWhen, AgentOver,
            NoAgentSteps, Steps, Outside, StartSteps, StopSteps, TeardownSteps,
            At, Goto, PythonCode
<1>1. CASE \E o \in {"run", "stop", "tag", "exit"} : Call(c, o)
  BY <1>1 DEF Call
<1>2. CASE LockState(c)
  BY <1>2 DEF LockState
<1>3. CASE RunClaim(c)
  BY <1>3 DEF RunClaim, Return
<1>4. CASE RunMemory(c)
  BY <1>4 DEF RunMemory
<1>5. CASE RunStack(c)
  BY <1>5 DEF RunStack
<1>6. CASE RunInstall(c)
  BY <1>6 DEF RunInstall
<1>7. CASE RunClient(c)
  BY <1>7 DEF RunClient
<1>8. CASE RunBuild(c)
  BY <1>8 DEF RunBuild, BuildAndStart
<1>9. CASE RunRunning(c)
  BY <1>9 DEF RunRunning
<1>10. CASE SetFlag(c)
  BY <1>10 DEF SetFlag, Return
<1>11. CASE StopClaim(c)
  BY <1>11 DEF StopClaim, Return
<1>12. CASE StopDetach(c)
  BY <1>12 DEF StopDetach, ReleaseGil
<1>13. CASE StopAgent(c)
  BY <1>13 DEF StopAgent, StopBegin
<1>14. CASE StopAttach(c)
  BY <1>14 DEF StopAttach, AcquireGil
<1>15. CASE StopMemory(c)
  BY <1>15 DEF StopMemory
<1>16. CASE StopStack(c)
  BY <1>16 DEF StopStack
<1>17. CASE SamplerStop(c)
  BY <1>17 DEF SamplerStop
<1>18. CASE StackAttach(c)
  BY <1>18 DEF StackAttach, AcquireGil
<1>19. CASE ClearStack(c)
  BY <1>19 DEF ClearStack
<1>20. CASE BackToIdle(c)
  BY <1>20 DEF BackToIdle, Return
<1>21. CASE ClearFlag(c)
  BY <1>21 DEF ClearFlag, Return
<1>22. CASE TagThread(c)
  BY <1>22 DEF TagThread, Return
<1>23. CASE Finalize(c)
  BY <1>23 DEF Finalize
<1>24. CASE SwitchGil(c)
  BY <1>24 DEF SwitchGil, AcquireGil, ReleaseGil
<1> QED
  BY <1>1, <1>2, <1>3, <1>4, <1>5, <1>6, <1>7, <1>8, <1>9, <1>10, <1>11, <1>12, <1>13,
      <1>14, <1>15, <1>16, <1>17, <1>18, <1>19, <1>20, <1>21, <1>22, <1>23, <1>24
  DEF CallerStep, Native, RunStep, StopStep, TeardownStep

\* A profiler is started, stopped or cleared, or the GIL handed over: no thread of
\* the agent notices.
LEMMA CoreProfilers ==
    ASSUME CoreInv,
           UNCHANGED <<taken, cpuVars, now, terminated, mainVars, sessVars, stop,
                       histVars>>,
           memHooks' \in BOOLEAN, stackOn' \in BOOLEAN, finalizing' \in BOOLEAN,
           memBuf' \subseteq Sample, stackBuf' \subseteq Sample,
           gil' \in Pythons \cup {"free", "snapshot"}
    PROVE  CoreInv'
<1>1. SamplingTypeOK'
  BY DEF CoreInv, TypeOK, SamplingTypeOK, Sample
<1>2. MainTypeOK' /\ SessionTypeOK' /\ StopTypeOK'
  BY DEF CoreInv, TypeOK, MainTypeOK, SessionTypeOK, StopTypeOK
<1>3. StopOrder' /\ Handover' /\ AtRest'
  BY DEF CoreInv, StopOrder, Handover, AtRest, SessionAlive
<1> QED BY <1>1, <1>2, <1>3 DEF CoreInv, TypeOK

\* Nothing of the agent changes.
LEMMA CoreSame ==
    ASSUME CoreInv, UNCHANGED agentVars
    PROVE  CoreInv'
<1>1. TypeOK'
  BY DEF CoreInv, TypeOK, SamplingTypeOK, MainTypeOK, SessionTypeOK, StopTypeOK, Sample
<1>2. StopOrder' /\ Handover' /\ AtRest'
  BY DEF CoreInv, StopOrder, Handover, AtRest, SessionAlive
<1> QED BY <1>1, <1>2 DEF CoreInv

\* What callers do to the agent keeps its invariant.
LEMMA CoreCaller ==
    ASSUME CoreInv, NEW c \in Pythons, CallerStep(c)
    PROVE  CoreInv'
<1> USE DEF CoreInv, TypeOK, SamplingTypeOK, Sample
<1>1. CASE \E o \in {"run", "stop", "tag", "exit"} : Call(c, o)
  BY <1>1, CoreSame DEF Call
<1>2. CASE LockState(c)
  BY <1>2, CoreSame DEF LockState
<1>3. CASE RunClaim(c)
  BY <1>3, CoreSame DEF RunClaim
<1>4. CASE RunMemory(c)
  <2>1. memHooks' \in BOOLEAN /\ stackOn' \in BOOLEAN /\ finalizing' \in BOOLEAN
    BY <1>4, SwitchAssumption, Zenon DEF RunMemory
  <2>2. /\ memBuf' \subseteq Sample /\ stackBuf' \subseteq Sample
        /\ gil' \in Pythons \cup {"free", "snapshot"}
    BY <1>4 DEF RunMemory
  <2>3. UNCHANGED <<taken, cpuVars, now, terminated, mainVars, sessVars, stop, histVars>>
    BY <1>4 DEF RunMemory
  <2> QED BY <2>1, <2>2, <2>3, CoreProfilers
<1>5. CASE RunStack(c)
  <2>1. memHooks' \in BOOLEAN /\ stackOn' \in BOOLEAN /\ finalizing' \in BOOLEAN
    BY <1>5, SwitchAssumption, Zenon DEF RunStack
  <2>2. /\ memBuf' \subseteq Sample /\ stackBuf' \subseteq Sample
        /\ gil' \in Pythons \cup {"free", "snapshot"}
    BY <1>5 DEF RunStack
  <2>3. UNCHANGED <<taken, cpuVars, now, terminated, mainVars, sessVars, stop, histVars>>
    BY <1>5 DEF RunStack
  <2> QED BY <2>1, <2>2, <2>3, CoreProfilers
<1>6. CASE RunInstall(c)
  BY <1>6, CoreSame DEF RunInstall
<1>7. CASE RunClient(c)
  BY <1>7, CoreSame DEF RunClient
<1>8. CASE RunBuild(c)
  BY <1>8, CoreStep, CoreSame DEF RunBuild, AgentStep
<1>9. CASE RunRunning(c)
  BY <1>9, CoreSame DEF RunRunning
<1>10. CASE SetFlag(c)
  BY <1>10, CoreSame DEF SetFlag
<1>11. CASE StopClaim(c)
  BY <1>11, CoreSame DEF StopClaim
<1>12. CASE StopDetach(c)
  BY <1>12, CoreStep DEF StopDetach, AgentStep
<1>13. CASE StopAgent(c)
  BY <1>13, CoreStep DEF StopAgent, AgentStep
<1>14. CASE StopAttach(c)
  BY <1>14, CoreStep DEF StopAttach, AgentStep
<1>15. CASE StopMemory(c)
  <2>1. memHooks' \in BOOLEAN /\ stackOn' \in BOOLEAN /\ finalizing' \in BOOLEAN
    BY <1>15, SwitchAssumption, Zenon DEF StopMemory
  <2>2. /\ memBuf' \subseteq Sample /\ stackBuf' \subseteq Sample
        /\ gil' \in Pythons \cup {"free", "snapshot"}
    BY <1>15 DEF StopMemory
  <2>3. UNCHANGED <<taken, cpuVars, now, terminated, mainVars, sessVars, stop, histVars>>
    BY <1>15 DEF StopMemory
  <2> QED BY <2>1, <2>2, <2>3, CoreProfilers
<1>16. CASE StopStack(c)
  <2>1. memHooks' \in BOOLEAN /\ stackOn' \in BOOLEAN /\ finalizing' \in BOOLEAN
    BY <1>16, SwitchAssumption, Zenon DEF StopStack
  <2>2. /\ memBuf' \subseteq Sample /\ stackBuf' \subseteq Sample
        /\ gil' \in Pythons \cup {"free", "snapshot"}
    BY <1>16 DEF StopStack
  <2>3. UNCHANGED <<taken, cpuVars, now, terminated, mainVars, sessVars, stop, histVars>>
    BY <1>16 DEF StopStack
  <2> QED BY <2>1, <2>2, <2>3, CoreProfilers
<1>17. CASE SamplerStop(c)
  <2>1. memHooks' \in BOOLEAN /\ stackOn' \in BOOLEAN /\ finalizing' \in BOOLEAN
    BY <1>17, SwitchAssumption, Zenon DEF SamplerStop
  <2>2. /\ memBuf' \subseteq Sample /\ stackBuf' \subseteq Sample
        /\ gil' \in Pythons \cup {"free", "snapshot"}
    BY <1>17 DEF SamplerStop
  <2>3. UNCHANGED <<taken, cpuVars, now, terminated, mainVars, sessVars, stop, histVars>>
    BY <1>17 DEF SamplerStop
  <2> QED BY <2>1, <2>2, <2>3, CoreProfilers
<1>18. CASE StackAttach(c)
  BY <1>18, CoreStep DEF StackAttach, AgentStep
<1>19. CASE ClearStack(c)
  <2>1. memHooks' \in BOOLEAN /\ stackOn' \in BOOLEAN /\ finalizing' \in BOOLEAN
    BY <1>19, SwitchAssumption, Zenon DEF ClearStack
  <2>2. /\ memBuf' \subseteq Sample /\ stackBuf' \subseteq Sample
        /\ gil' \in Pythons \cup {"free", "snapshot"}
    BY <1>19 DEF ClearStack
  <2>3. UNCHANGED <<taken, cpuVars, now, terminated, mainVars, sessVars, stop, histVars>>
    BY <1>19 DEF ClearStack
  <2> QED BY <2>1, <2>2, <2>3, CoreProfilers
<1>20. CASE BackToIdle(c)
  BY <1>20, CoreSame DEF BackToIdle
<1>21. CASE ClearFlag(c)
  BY <1>21, CoreSame DEF ClearFlag
<1>22. CASE TagThread(c)
  BY <1>22, CoreSame DEF TagThread
<1>23. CASE Finalize(c)
  <2>1. memHooks' \in BOOLEAN /\ stackOn' \in BOOLEAN /\ finalizing' \in BOOLEAN
    BY <1>23, SwitchAssumption, Zenon DEF Finalize
  <2>2. /\ memBuf' \subseteq Sample /\ stackBuf' \subseteq Sample
        /\ gil' \in Pythons \cup {"free", "snapshot"}
    BY <1>23 DEF Finalize
  <2>3. UNCHANGED <<taken, cpuVars, now, terminated, mainVars, sessVars, stop, histVars>>
    BY <1>23 DEF Finalize
  <2> QED BY <2>1, <2>2, <2>3, CoreProfilers
<1>24. CASE SwitchGil(c)
  BY <1>24, CoreStep DEF SwitchGil, AgentStep
<1> QED
  BY <1>1, <1>2, <1>3, <1>4, <1>5, <1>6, <1>7, <1>8, <1>9, <1>10, <1>11, <1>12, <1>13,
      <1>14, <1>15, <1>16, <1>17, <1>18, <1>19, <1>20, <1>21, <1>22, <1>23, <1>24
  DEF CallerStep, Native, RunStep, StopStep, TeardownStep

\* A claim comes after the samples of the last agent, which are cleared before
\* another can claim.
LEMMA FreshCaller ==
    ASSUME CoreInv, Calling, OffWhen, Fresh, Cleared, NEW c \in Pythons, CallerStep(c)
    PROVE  Fresh'
<1> USE DEF CoreInv, TypeOK, SamplingTypeOK, Calling, FfiTypeOK, OneOwner, OffWhen,
            AgentOver, NoAgentSteps, AtRest, Fresh, Cleared,
            Steps, Outside, StartSteps, StopSteps, TeardownSteps, At, Goto, PythonCode
<1>a. taken \in Nat
  BY BoundsAssumption
<1>b. UNCHANGED <<attempted, cur, chan>> => InStream' = InStream
  BY StreamStill
<1>1. CASE \E o \in {"run", "stop", "tag", "exit"} : Call(c, o)
  BY <1>1, <1>a, <1>b DEF Call
<1>2. CASE LockState(c)
  BY <1>2, <1>a, <1>b DEF LockState
<1>3. CASE RunClaim(c)
  <2>1. CASE state = "Idle"
    <3>1. memBuf' = {} /\ stackBuf' = {} /\ born' = taken /\ taken' = taken
      BY <1>3, <2>1 DEF RunClaim
    <3>2. ASSUME stop # "stopped"
          PROVE  inHand = {} /\ buffer = {} /\ batch = {} /\ InStream = {}
      <4>1. main = "none"
        BY <2>1, <3>2
      <4>2. Samples(<<Kill>>) = {}
        BY SamplesOne DEF Signal
      <4> QED BY <4>1, <4>2, SamplesEmpty DEF InStream
    <3> QED BY <1>3, <1>a, <1>b, <3>1, <3>2 DEF RunClaim
  <2>2. CASE state # "Idle"
    BY <1>3, <1>a, <1>b, <2>2 DEF RunClaim
  <2> QED BY <2>1, <2>2
<1>4. CASE RunMemory(c)
  BY <1>4, <1>a, <1>b DEF RunMemory
<1>5. CASE RunStack(c)
  BY <1>5, <1>a, <1>b DEF RunStack
<1>6. CASE RunInstall(c)
  BY <1>6, <1>a, <1>b DEF RunInstall
<1>7. CASE RunClient(c)
  BY <1>7, <1>a, <1>b DEF RunClient
<1>8. CASE RunBuild(c)
  <2>1. CASE BuildAndStart
    BY <1>8, <2>1, StartStream DEF RunBuild, BuildAndStart
  <2>2. CASE UNCHANGED agentVars
    BY <1>8, <2>2, <1>b DEF RunBuild
  <2> QED BY <1>8, <2>1, <2>2 DEF RunBuild
<1>9. CASE RunRunning(c)
  BY <1>9, <1>a, <1>b DEF RunRunning
<1>10. CASE SetFlag(c)
  BY <1>10, <1>a, <1>b DEF SetFlag, Return
<1>11. CASE StopClaim(c)
  BY <1>11, <1>a, <1>b DEF StopClaim, Return
<1>12. CASE StopDetach(c)
  BY <1>12, <1>a, <1>b DEF StopDetach, ReleaseGil
<1>13. CASE StopAgent(c)
  BY <1>13, <1>b DEF StopAgent, StopBegin
<1>14. CASE StopAttach(c)
  BY <1>14, <1>a, <1>b DEF StopAttach, AcquireGil
<1>15. CASE StopMemory(c)
  BY <1>15, <1>a, <1>b DEF StopMemory
<1>16. CASE StopStack(c)
  BY <1>16, <1>a, <1>b DEF StopStack
<1>17. CASE SamplerStop(c)
  BY <1>17, <1>a, <1>b DEF SamplerStop
<1>18. CASE StackAttach(c)
  BY <1>18, <1>a, <1>b DEF StackAttach, AcquireGil
<1>19. CASE ClearStack(c)
  BY <1>19, <1>a, <1>b DEF ClearStack
<1>20. CASE BackToIdle(c)
  BY <1>20, <1>a, <1>b DEF BackToIdle, Return
<1>21. CASE ClearFlag(c)
  BY <1>21, <1>a, <1>b DEF ClearFlag, Return
<1>22. CASE TagThread(c)
  BY <1>22, <1>a, <1>b DEF TagThread, Return
<1>23. CASE Finalize(c)
  BY <1>23, <1>a, <1>b DEF Finalize
<1>24. CASE SwitchGil(c)
  BY <1>24, <1>a, <1>b DEF SwitchGil, AcquireGil, ReleaseGil
<1> QED
  BY <1>1, <1>2, <1>3, <1>4, <1>5, <1>6, <1>7, <1>8, <1>9, <1>10, <1>11, <1>12, <1>13,
      <1>14, <1>15, <1>16, <1>17, <1>18, <1>19, <1>20, <1>21, <1>22, <1>23, <1>24
  DEF CallerStep, Native, RunStep, StopStep, TeardownStep

\* The buffers are cleared when nothing fills them any more.
LEMMA ClearedCaller ==
    ASSUME Calling, OffWhen, Cleared, NEW c \in Pythons, CallerStep(c)
    PROVE  Cleared'
<1> USE DEF Calling, FfiTypeOK, OneOwner, OffWhen, Cleared,
            Steps, Outside, StartSteps, StopSteps, TeardownSteps, At, Goto, PythonCode
<1>1. CASE \E o \in {"run", "stop", "tag", "exit"} : Call(c, o)
  BY <1>1 DEF Call
<1>2. CASE LockState(c)
  BY <1>2 DEF LockState
<1>3. CASE RunClaim(c)
  BY <1>3 DEF RunClaim, Return
<1>4. CASE RunMemory(c)
  BY <1>4 DEF RunMemory
<1>5. CASE RunStack(c)
  BY <1>5 DEF RunStack
<1>6. CASE RunInstall(c)
  BY <1>6 DEF RunInstall
<1>7. CASE RunClient(c)
  BY <1>7 DEF RunClient
<1>8. CASE RunBuild(c)
  BY <1>8 DEF RunBuild, BuildAndStart
<1>9. CASE RunRunning(c)
  BY <1>9 DEF RunRunning
<1>10. CASE SetFlag(c)
  BY <1>10 DEF SetFlag, Return
<1>11. CASE StopClaim(c)
  BY <1>11 DEF StopClaim, Return
<1>12. CASE StopDetach(c)
  BY <1>12 DEF StopDetach, ReleaseGil
<1>13. CASE StopAgent(c)
  BY <1>13 DEF StopAgent, StopBegin
<1>14. CASE StopAttach(c)
  BY <1>14 DEF StopAttach, AcquireGil
<1>15. CASE StopMemory(c)
  BY <1>15 DEF StopMemory
<1>16. CASE StopStack(c)
  BY <1>16 DEF StopStack
<1>17. CASE SamplerStop(c)
  BY <1>17 DEF SamplerStop
<1>18. CASE StackAttach(c)
  BY <1>18 DEF StackAttach, AcquireGil
<1>19. CASE ClearStack(c)
  BY <1>19 DEF ClearStack
<1>20. CASE BackToIdle(c)
  BY <1>20 DEF BackToIdle, Return
<1>21. CASE ClearFlag(c)
  BY <1>21 DEF ClearFlag, Return
<1>22. CASE TagThread(c)
  BY <1>22 DEF TagThread, Return
<1>23. CASE Finalize(c)
  BY <1>23 DEF Finalize
<1>24. CASE SwitchGil(c)
  BY <1>24 DEF SwitchGil, AcquireGil, ReleaseGil
<1> QED
  BY <1>1, <1>2, <1>3, <1>4, <1>5, <1>6, <1>7, <1>8, <1>9, <1>10, <1>11, <1>12, <1>13,
      <1>14, <1>15, <1>16, <1>17, <1>18, <1>19, <1>20, <1>21, <1>22, <1>23, <1>24
  DEF CallerStep, Native, RunStep, StopStep, TeardownStep

\* stop() has returned, or was never needed: no thread is left.
LEMMA OverIsGone ==
    ASSUME CoreInv, AgentOver
    PROVE  ThreadsGone
BY DEF CoreInv, StopOrder, AtRest, AgentOver, ThreadsGone, SessionAlive

\* The threads of an agent leave the profilers alone, get the GIL only for the
\* flush, and do not come back.
LEMMA BackgroundKeeps ==
    ASSUME CoreInv, main = "flush" => gil = "snapshot", Background
    PROVE  /\ UNCHANGED <<memHooks, stackOn>>
           /\ AgentOver => AgentOver'
           /\ gil' # gil => {gil, gil'} \subseteq {"free", "snapshot"}
           /\ main' = "flush" => gil' = "snapshot"
<1> USE DEF CoreInv, StopOrder, AtRest, AgentOver
<1>1. CASE SamplerStart
  BY <1>1 DEF SamplerStart
<1>2. CASE SamplerTake
  BY <1>2 DEF SamplerTake
<1>3. CASE SamplerRecord
  BY <1>3 DEF SamplerRecord
<1>4. CASE SamplerEnd
  BY <1>4 DEF SamplerEnd
<1>5. CASE MemSample
  BY <1>5 DEF MemSample
<1>6. CASE StackSample
  BY <1>6 DEF StackSample
<1>7. CASE ClockStep
  BY <1>7 DEF ClockStep
<1>8. CASE MainStart
  BY <1>8 DEF MainStart
<1>9. CASE MainWake
  BY <1>9 DEF MainWake
<1>10. CASE MemAttach
  BY <1>10 DEF MemAttach
<1>11. CASE MemAttachRefused
  BY <1>11 DEF MemAttachRefused
<1>12. CASE MemFlush
  BY <1>12 DEF MemFlush
<1>13. CASE CpuReport
  BY <1>13 DEF CpuReport, EndSnapshot
<1>14. CASE SendSession
  BY <1>14 DEF SendSession, EndSnapshot
<1>15. CASE SessionRecv
  BY <1>15 DEF SessionRecv
<1>16. CASE SessionPush
  BY <1>16 DEF SessionPush
<1>17. CASE StopJoinMain
  BY <1>17 DEF StopJoinMain
<1>18. CASE StopBackend
  BY <1>18 DEF StopBackend
<1>19. CASE StopJoinSampler
  BY <1>19 DEF StopJoinSampler
<1>20. CASE StopSendKill
  BY <1>20 DEF StopSendKill
<1>21. CASE StopJoinSession
  BY <1>21 DEF StopJoinSession
<1> QED
  BY <1>1, <1>2, <1>3, <1>4, <1>5, <1>6, <1>7, <1>8, <1>9, <1>10, <1>11, <1>12,
      <1>13, <1>14, <1>15, <1>16, <1>17, <1>18, <1>19, <1>20, <1>21
  DEF Background, AgentThreads, SamplerThread, MainThread, SessionThread, Joiner

\* What they take is younger than every sample before, and what they move on
\* was taken for this agent.
LEMMA FreshBackground ==
    ASSUME CoreInv, Fresh, Background, UNCHANGED born
    PROVE  Fresh'
<1> USE BoundsAssumption DEF CoreInv, TypeOK, SamplingTypeOK, Fresh
<1>a. taken \in Nat /\ born \in Nat /\ born =< taken
  OBVIOUS
<1>b. UNCHANGED <<attempted, cur, chan>> => InStream' = InStream
  BY StreamStill
<1>1. CASE SamplerStart
  BY <1>1, <1>a, <1>b DEF SamplerStart
<1>2. CASE SamplerTake
  BY <1>2, <1>a, <1>b DEF SamplerTake
<1>3. CASE SamplerRecord
  BY <1>3, <1>a, <1>b DEF SamplerRecord
<1>4. CASE SamplerEnd
  BY <1>4, <1>a, <1>b DEF SamplerEnd
<1>5. CASE MemSample
  BY <1>5, <1>a, <1>b DEF MemSample
<1>6. CASE StackSample
  BY <1>6, <1>a, <1>b DEF StackSample
<1>7. CASE ClockStep
  BY <1>7, <1>a, <1>b DEF ClockStep
<1>8. CASE MainStart
  BY <1>8, <1>a, <1>b DEF MainStart
<1>9. CASE MainWake
  BY <1>9, <1>a, <1>b DEF MainWake
<1>10. CASE MemAttach
  BY <1>10, <1>a, <1>b DEF MemAttach
<1>11. CASE MemAttachRefused
  BY <1>11, <1>a, <1>b DEF MemAttachRefused
<1>12. CASE MemFlush
  <2>1. PICK heap \in {{}, {taken + 1}} :
               /\ batch' = batch \cup memBuf \cup heap
               /\ taken' = taken + Cardinality(heap)
    BY <1>12, Zenon DEF MemFlush
  <2>2. taken' \in Nat /\ taken =< taken'
    <3>1. CASE heap = {}
      BY <1>a, <2>1, <3>1, FS_EmptySet
    <3>2. CASE heap = {taken + 1}
      <4>1. Cardinality(heap) = 1
        BY <3>2, FS_Singleton
      <4> QED BY <1>a, <2>1, <4>1
    <3> QED BY <3>1, <3>2
  <2>3. \A x \in heap : x > born
    BY <1>a
  <2> QED BY <1>12, <1>a, <1>b, <2>1, <2>2, <2>3 DEF MemFlush
<1>13. CASE CpuReport
  BY <1>13, <1>a, <1>b DEF CpuReport, EndSnapshot
<1>14. CASE SendSession
  BY <1>14, <1>a, SendStream DEF SendSession, EndSnapshot
<1>15. CASE SessionRecv
  BY <1>15, <1>a, RecvStream DEF SessionRecv
<1>16. CASE SessionPush
  BY <1>16, <1>a, PushStream DEF SessionPush
<1>17. CASE StopJoinMain
  BY <1>17, <1>a, <1>b DEF StopJoinMain
<1>18. CASE StopBackend
  BY <1>18, <1>a, <1>b DEF StopBackend
<1>19. CASE StopJoinSampler
  BY <1>19, <1>a, <1>b DEF StopJoinSampler
<1>20. CASE StopSendKill
  BY <1>20, <1>a, KillStream DEF StopSendKill
<1>21. CASE StopJoinSession
  BY <1>21, <1>a, <1>b DEF StopJoinSession
<1> QED
  BY <1>1, <1>2, <1>3, <1>4, <1>5, <1>6, <1>7, <1>8, <1>9, <1>10, <1>11, <1>12,
      <1>13, <1>14, <1>15, <1>16, <1>17, <1>18, <1>19, <1>20, <1>21
  DEF Background, AgentThreads, SamplerThread, MainThread, SessionThread, Joiner

\* A buffer fills only while its profiler is on.
LEMMA BuffersStay ==
    ASSUME CoreInv, Background
    PROVE  /\ ~memHooks => memBuf' \subseteq memBuf
           /\ ~stackOn => stackBuf' \subseteq stackBuf
<1>1. CASE SamplerStart
  BY <1>1 DEF SamplerStart
<1>2. CASE SamplerTake
  BY <1>2 DEF SamplerTake
<1>3. CASE SamplerRecord
  BY <1>3 DEF SamplerRecord
<1>4. CASE SamplerEnd
  BY <1>4 DEF SamplerEnd
<1>5. CASE MemSample
  BY <1>5 DEF MemSample
<1>6. CASE StackSample
  BY <1>6 DEF StackSample
<1>7. CASE ClockStep
  BY <1>7 DEF ClockStep
<1>8. CASE MainStart
  BY <1>8 DEF MainStart
<1>9. CASE MainWake
  BY <1>9 DEF MainWake
<1>10. CASE MemAttach
  BY <1>10 DEF MemAttach
<1>11. CASE MemAttachRefused
  BY <1>11 DEF MemAttachRefused
<1>12. CASE MemFlush
  BY <1>12 DEF MemFlush
<1>13. CASE CpuReport
  BY <1>13 DEF CpuReport
<1>14. CASE SendSession
  BY <1>14 DEF SendSession
<1>15. CASE SessionRecv
  BY <1>15 DEF SessionRecv
<1>16. CASE SessionPush
  BY <1>16 DEF SessionPush
<1>17. CASE StopJoinMain
  BY <1>17 DEF StopJoinMain
<1>18. CASE StopBackend
  BY <1>18 DEF StopBackend
<1>19. CASE StopJoinSampler
  BY <1>19 DEF StopJoinSampler
<1>20. CASE StopSendKill
  BY <1>20 DEF StopSendKill
<1>21. CASE StopJoinSession
  BY <1>21 DEF StopJoinSession
<1> QED
  BY <1>1, <1>2, <1>3, <1>4, <1>5, <1>6, <1>7, <1>8, <1>9, <1>10, <1>11, <1>12,
      <1>13, <1>14, <1>15, <1>16, <1>17, <1>18, <1>19, <1>20, <1>21
  DEF Background, AgentThreads, SamplerThread, MainThread, SessionThread, Joiner

\* A step of the agent's threads, between the steps of the callers.
LEMMA BackgroundStep ==
    ASSUME FfiInv, Background, UNCHANGED ffiVars
    PROVE  FfiInv'
<1>1. CoreInv'
  BY CoreStep DEF FfiInv, AgentStep
<1>2. /\ UNCHANGED <<memHooks, stackOn>>
      /\ AgentOver => AgentOver'
      /\ gil' # gil => {gil, gil'} \subseteq {"free", "snapshot"}
      /\ main' = "flush" => gil' = "snapshot"
  BY BackgroundKeeps DEF FfiInv, Calling, GilHeld
<1>3. GilHeld'
  BY <1>2, PythonsAssumption DEF FfiInv, Calling, GilHeld
<1>4. Calling'
  BY <1>3 DEF FfiInv, Calling, FfiTypeOK, OneOwner, OpOfStep, FlagSteps
<1>5. Flag' /\ Counts'
  BY DEF FfiInv, Flag, Counts, Owed, AgentUp, Owners
<1>6. OffWhen'
  BY <1>2 DEF FfiInv, OffWhen
<1>7. Fresh'
  BY FreshBackground DEF FfiInv
<1>8. Cleared'
  BY BuffersStay DEF FfiInv, OffWhen, Cleared
<1> QED BY <1>1, <1>4, <1>5, <1>6, <1>7, <1>8 DEF FfiInv

\* Before the first call.
LEMMA FfiInit == Init => FfiInv
<1> SUFFICES ASSUME Init PROVE FfiInv
  OBVIOUS
<1>1. CoreInv
  BY CoreInit DEF Init
<1>2. Calling
  BY DEF Init, AgentInit, Calling, FfiTypeOK, OneOwner, OpOfStep, GilHeld, FlagSteps,
         Outside, Ops, Steps, StartSteps, StopSteps, TeardownSteps, Detached, PythonCode
<1>3. Flag /\ Counts
  BY DEF Init, Flag, Counts, Owed, AgentUp, Owners, Outside
<1>4. OffWhen /\ Cleared
  BY DEF Init, AgentInit, OffWhen, AgentOver, NoAgentSteps, TeardownSteps, Cleared
<1>5. Fresh
  <2>1. InStream = {}
    <3>1. Samples(<<Kill>>) = {}
      BY SamplesOne DEF Signal
    <3> QED BY <3>1, SamplesEmpty DEF Init, AgentInit, InStream
  <2> QED BY <2>1 DEF Init, AgentInit, Fresh
<1> QED BY <1>1, <1>2, <1>3, <1>4, <1>5 DEF FfiInv

\* The invariant is inductive.
LEMMA FfiStep == FfiInv /\ [Next]_vars => FfiInv'
<1> SUFFICES ASSUME FfiInv, [Next]_vars PROVE FfiInv'
  OBVIOUS
<1>1. ASSUME NEW c \in Pythons, CallerStep(c) PROVE FfiInv'
  <2>1. CoreInv'
    BY <1>1, CoreCaller DEF FfiInv
  <2>2. Calling'
    BY <1>1, PlacesStep, GilStep, FlagStepsStep DEF FfiInv, Calling
  <2>3. Flag' /\ Counts'
    BY <1>1, FlagStep, CountsStep DEF FfiInv
  <2>4. OffWhen'
    BY <1>1, OffStep DEF FfiInv
  <2>5. Fresh' /\ Cleared'
    BY <1>1, FreshCaller, ClearedCaller DEF FfiInv
  <2> QED BY <2>1, <2>2, <2>3, <2>4, <2>5 DEF FfiInv
<1>2. CASE Background /\ UNCHANGED ffiVars
  BY <1>2, BackgroundStep
<1>3. CASE UNCHANGED vars
  <2>1. CoreInv' /\ InStream' = InStream
    BY <1>3, CoreSame, StreamStill DEF FfiInv
  <2>2. Calling'
    BY <1>3 DEF FfiInv, Calling, FfiTypeOK, OneOwner, OpOfStep, GilHeld, FlagSteps
  <2>3. Flag' /\ Counts'
    BY <1>3 DEF FfiInv, Flag, Counts, Owed, AgentUp, Owners
  <2>4. OffWhen' /\ Cleared'
    BY <1>3 DEF FfiInv, OffWhen, AgentOver, Cleared
  <2>5. Fresh'
    BY <1>3, <2>1 DEF FfiInv, Fresh
  <2> QED BY <2>1, <2>2, <2>3, <2>4, <2>5 DEF FfiInv
<1>4. \/ \E c \in Pythons : CallerStep(c)
      \/ Background /\ UNCHANGED ffiVars
      \/ UNCHANGED vars
  BY DEF Next, CallerStep
<1> QED BY <1>1, <1>2, <1>3, <1>4

\* So it holds in every state.
LEMMA FfiInvariant == Spec => []FfiInv
BY FfiInit, FfiStep, PTL DEF Spec

-----------------------------------------------------------------------------
(***************************************************************************)
(* What it gives                                                           *)
(***************************************************************************)

\* The types of an agent, also of the next ones, and those of the callers.
THEOREM FfiTypes == Spec => [](TypeOK /\ FfiTypeOK)
<1>1. FfiInv => TypeOK /\ FfiTypeOK
  BY DEF FfiInv, CoreInv, Calling
<1> QED BY <1>1, FfiInvariant, PTL

\* Calls that succeed alternate, agree with state, and no error path leaves
\* Busy behind: initialize_agent and drop_agent against each other.
THEOREM CallsAccounted == Spec => []Accounting
<1>1. ASSUME FfiInv PROVE Accounting
  <2> USE <1>1 DEF FfiInv, Calling
  <2>1. (state = "Busy") = (Owners # {})
    BY DEF OneOwner, Owners
  <2>2. \A c, d \in Owners : c = d
    BY DEF OneOwner, Owners
  <2>3. ASSUME \A c \in Pythons : op[c] = "none"
        PROVE  configured - dropped = (IF state = "Running" THEN 1 ELSE 0)
    <3>1. \A c \in Pythons : step[c] \notin {"set_flag", "clear_flag"}
      BY <2>3 DEF OpOfStep
    <3>2. Owners = {}
      BY <2>3 DEF OpOfStep, FfiTypeOK, Owners, Steps
    <3>3. Owed = 0 /\ (AgentUp <=> state = "Running")
      BY <3>1, <3>2 DEF Owed, AgentUp
    <3> QED BY <3>3 DEF Counts, FfiTypeOK
  <2> QED BY <2>1, <2>2, <2>3 DEF Accounting
<1> QED BY <1>1, FfiInvariant, PTL

\* Wherever Python code runs, and may call os.fork(), the flag is set if an
\* agent has a thread: stored after run, cleared after stop, with the GIL held.
\* The thread of the stack sampler alone is there before the flag, while the
\* configure() that started it registers threads or undoes the start.
THEOREM ForkWarned == Spec => []ForkIsWarned
<1>1. ASSUME FfiInv PROVE ForkIsWarned
  <2> SUFFICES ASSUME gil \in Pythons, step[gil] \in PythonCode
               PROVE  /\ ThreadAlive => AGENT_RUNNING
                      /\ stackOn => AGENT_RUNNING \/ \E c \in Owners : StackOnly(c)
    BY Zenon DEF ForkIsWarned
  <2> USE <1>1 DEF FfiInv, Calling
  <2>1. state = "Running" => AGENT_RUNNING
    BY DEF Flag, GilHeld, Detached, PythonCode
  <2>2. \A c \in Owners : op[c] # "run" => AGENT_RUNNING
    BY DEF Flag
  <2>3. ThreadAlive => AGENT_RUNNING
    <3> SUFFICES ASSUME ThreadAlive PROVE AGENT_RUNNING
      OBVIOUS
    <3>1. ~AgentOver
      BY OverIsGone DEF ThreadsGone, ThreadAlive
    <3>2. state # "Idle"
      BY <3>1 DEF OffWhen
    <3>3. CASE state = "Busy"
      <4>1. PICK c \in Pythons : step[c] \notin Outside
        BY <3>3 DEF OneOwner
      <4>2. step[c] \notin NoAgentSteps
        BY <3>1 DEF OffWhen
      <4>3. step[c] \notin {"lock_running", "running"}
        BY DEF GilHeld, Detached, PythonCode
      <4>4. step[c] \in StopSteps
        BY <4>1, <4>2, <4>3 DEF FfiTypeOK, Steps, StartSteps, NoAgentSteps
      <4> QED BY <2>2, <4>1, <4>4 DEF OpOfStep, Owners
    <3> QED BY <2>1, <3>2, <3>3 DEF FfiTypeOK
  <2>4. stackOn => AGENT_RUNNING \/ \E c \in Owners : StackOnly(c)
    <3> SUFFICES ASSUME stackOn, ~AGENT_RUNNING PROVE \E c \in Owners : StackOnly(c)
      OBVIOUS
    <3>1. state = "Busy"
      BY <2>1 DEF OffWhen, FfiTypeOK
    <3>2. PICK c \in Pythons : step[c] \notin Outside
      BY <3>1 DEF OneOwner
    <3>3. c \in Owners /\ op[c] = "run"
      BY <2>2, <3>2 DEF Owners
    <3>4. step[c] \in Detached
      BY DEF GilHeld, Detached
    <3>5. step[c] \notin StopSteps
      BY <3>3 DEF OpOfStep
    <3>6. step[c] # "attach"
      BY DEF OffWhen
    <3>7. step[c] \in {"install", "sampler_stop"}
      BY <3>2, <3>4, <3>5, <3>6 DEF Detached, PythonCode, StopSteps, Outside
    <3> QED BY <3>3, <3>7 DEF StackOnly
  <2> QED BY <2>3, <2>4
<1> QED BY <1>1, FfiInvariant, PTL

\* A profile has no sample that was taken for an earlier agent, also not after
\* a start that failed half way (clear_samples in stop_profilers).
THEOREM SamplesFresh == Spec => []NoStaleSamples
<1>1. ASSUME FfiInv PROVE NoStaleSamples
  BY <1>1, SamplesOfStream DEF FfiInv, CoreInv, TypeOK, Fresh, NoStaleSamples, InStream
<1> QED BY <1>1, FfiInvariant, PTL

\* A call of thread c ends with a step of c.
LEMMA ExitSteps ==
    ASSUME FfiInv, [Next]_vars, NEW c \in Pythons, ExitReturns(c)
    PROVE  \/ StopClaim(c) /\ state # "Running"
           \/ ClearFlag(c)
<1> USE DEF FfiInv, Calling, FfiTypeOK, ExitReturns
<1>1. op' # op
  OBVIOUS
<1>2. PICK d \in Pythons : CallerStep(d)
  BY <1>1 DEF Next, CallerStep
<1>3. \/ \E o \in {"run", "stop", "tag", "exit"} : Call(d, o)
      \/ RunClaim(d) \/ SetFlag(d) \/ StopClaim(d) \/ BackToIdle(d) \/ ClearFlag(d)
      \/ TagThread(d)
  BY <1>1, <1>2
  DEF CallerStep, Native, RunStep, StopStep, TeardownStep, LockState, RunMemory,
      RunStack, RunInstall, RunClient, RunBuild, RunRunning, StopDetach, StopAgent,
      StopAttach, StopMemory, StopStack, SamplerStop, StackAttach, ClearStack, Finalize,
      SwitchGil
<1>4. d = c
  BY <1>3 DEF Call, RunClaim, SetFlag, StopClaim, BackToIdle, ClearFlag, TagThread, Return
<1>5. \A o \in {"run", "stop", "tag", "exit"} : ~Call(c, o)
  BY DEF Call
<1>6. ~RunClaim(c) /\ ~BackToIdle(c) /\ ~TagThread(c)
  BY DEF RunClaim, BackToIdle, TagThread, Return
<1>7. ~SetFlag(c)
  BY DEF SetFlag, At, OpOfStep
<1>8. StopClaim(c) => state # "Running"
  BY DEF StopClaim
<1> QED BY <1>3, <1>4, <1>5, <1>6, <1>7, <1>8

\* at_exit stops the agent before the interpreter finalizes, unless another
\* thread is inside configure() or shutdown() at that moment.
THEOREM ExitStopsFreeAgent == Spec => AtExitStopsFreeAgent
<1> DEFINE Left == \A c \in Pythons :
             ExitReturns(c) => main' \in {"none", "done"} \/ Owners \ {c} # {}
<1>1. ASSUME FfiInv, [Next]_vars, NEW c \in Pythons, ExitReturns(c)
      PROVE  main' \in {"none", "done"} \/ Owners \ {c} # {}
  <2>1. (StopClaim(c) /\ state # "Running") \/ ClearFlag(c)
    BY <1>1, ExitSteps
  <2>2. main' = main
    BY <2>1 DEF StopClaim, ClearFlag
  <2>3. CASE state = "Idle"
    BY <1>1, <2>2, <2>3, OverIsGone DEF FfiInv, OffWhen, ThreadsGone
  <2>4. CASE state = "Busy"
    <3>1. PICK d \in Pythons : step[d] \notin Outside
      BY <1>1, <2>4 DEF FfiInv, Calling, OneOwner
    <3>2. step[c] \in Outside
      BY <2>1 DEF StopClaim, ClearFlag, At, Outside
    <3>3. d \in Owners \ {c}
      BY <3>1, <3>2 DEF Owners
    <3> QED BY <3>3
  <2>5. state # "Running"
    BY <1>1, <2>1 DEF FfiInv, Calling, FlagSteps, ClearFlag, At
  <2> QED BY <1>1, <2>3, <2>4, <2>5 DEF FfiInv, Calling, FfiTypeOK
<1>2. FfiInv /\ [Next]_vars => Left
  BY <1>1
<1>3. FfiInv /\ [Next]_vars => [Left]_vars
  BY <1>2
<1> HIDE DEF Left
<1>4. Spec => [][Left]_vars
  BY <1>3, FfiInvariant, PTL DEF Spec
<1> QED BY <1>4 DEF AtExitStopsFreeAgent, Left

-----------------------------------------------------------------------------
(***************************************************************************)
(* The calls implement Lifecycle                                           *)
(***************************************************************************)

\* What Lifecycle sees of state, and of the one thread in an operation.
Seen ==
    /\ state = "Idle" => Phase = "off" /\ Owner = "free" /\ ~Alive
    /\ state = "Running" => Phase = "on" /\ Owner = "free"
    /\ \A c \in Pythons : step[c] \notin Outside =>
         Owner = c /\ Phase = IF op[c] = "run" THEN "starting" ELSE "stopping"

\* It is what the invariant says.
LEMMA SeenHolds == FfiInv => Seen
<1> SUFFICES ASSUME FfiInv PROVE Seen
  OBVIOUS
<1> USE DEF FfiInv, Calling, OneOwner
<1>1. ASSUME state = "Idle" PROVE Phase = "off" /\ Owner = "free" /\ ~Alive
  <2>1. Owners = {}
    BY <1>1 DEF Owners
  <2>2. Phase = "off" /\ Owner = "free"
    BY <1>1, <2>1 DEF Phase, Owner
  <2>3. ~Alive
    BY <1>1, OverIsGone DEF OffWhen, ThreadsGone, Alive
  <2> QED BY <2>2, <2>3
<1>2. ASSUME state = "Running" PROVE Phase = "on" /\ Owner = "free"
  <2>1. Owners = {}
    BY <1>2 DEF Owners
  <2> QED BY <1>2, <2>1 DEF Phase, Owner
<1>3. ASSUME NEW c \in Pythons, step[c] \notin Outside
      PROVE  Owner = c /\ Phase = IF op[c] = "run" THEN "starting" ELSE "stopping"
  <2>1. state = "Busy" /\ Owners = {c}
    BY <1>3 DEF Owners
  <2>2. Owner = c
    BY <2>1 DEF Owner
  <2> QED BY <2>1, <2>2 DEF Phase
<1> QED BY <1>1, <1>2, <1>3 DEF Seen

\* A caller claims state, publishes or gives back the agent, or works on it.
LEMMA CallerLifecycle ==
    ASSUME FfiInv, FfiInv', Seen, Seen', NEW c \in Pythons, CallerStep(c)
    PROVE  [Promise!LifecycleNext]_<<Phase, Owner, Alive>>
<1> USE DEF FfiInv, Calling, FfiTypeOK
<1>1. ASSUME UNCHANGED state,
             \A d \in Pythons : step'[d] \in Outside <=> step[d] \in Outside,
             \A d \in Pythons : step[d] \notin Outside => op'[d] = op[d]
      PROVE  [Promise!LifecycleNext]_<<Phase, Owner, Alive>>
  <2>1. Phase' = Phase /\ Owner' = Owner
    BY <1>1 DEF Seen, OneOwner
  <2>2. Phase = "off" => ~Alive /\ ~Alive'
    BY <1>1 DEF Seen, OneOwner
  <2>3. Alive' = Alive \/ Alive' = ~Alive
    BY DEF Alive
  <2> QED BY <2>1, <2>2, <2>3 DEF Promise!LifecycleNext, Promise!Work
<1>2. ASSUME UNCHANGED agentVars PROVE Alive' = Alive
  BY <1>2 DEF Alive, SessionAlive
<1>3. CASE RunClaim(c) /\ state = "Idle"
  <2>1. Phase = "off" /\ Owner = "free"
    BY <1>3 DEF Seen
  <2>2. step'[c] = "memory" /\ op'[c] = "run"
    BY <1>3 DEF RunClaim, At, Goto
  <2>3. Phase' = "starting" /\ Owner' = c
    BY <2>2 DEF Seen, Outside
  <2> QED BY <1>2, <1>3, <2>1, <2>3 DEF RunClaim, Promise!LifecycleNext, Promise!Begin
<1>4. CASE StopClaim(c) /\ state = "Running"
  <2>1. Phase = "on" /\ Owner = "free"
    BY <1>4 DEF Seen
  <2>2. step'[c] = "detach" /\ op'[c] # "run"
    BY <1>4 DEF StopClaim, At, Goto
  <2>3. Phase' = "stopping" /\ Owner' = c
    BY <2>2 DEF Seen, Outside
  <2> QED BY <1>2, <1>4, <2>1, <2>3 DEF StopClaim, Promise!LifecycleNext, Promise!Begin
<1>5. CASE RunRunning(c)
  <2>1. Phase = "starting" /\ Owner = c
    BY <1>5 DEF RunRunning, At, Seen, Outside, OpOfStep, StartSteps
  <2>2. Phase' = "on" /\ Owner' = "free"
    BY <1>5 DEF RunRunning, Seen
  <2> QED BY <1>2, <1>5, <2>1, <2>2 DEF RunRunning, Promise!LifecycleNext, Promise!StartDone
<1>6. CASE BackToIdle(c)
  <2>1. Phase \in {"starting", "stopping"} /\ Owner = c
    BY <1>6 DEF BackToIdle, At, Seen, Outside
  <2>2. Phase' = "off" /\ Owner' = "free" /\ ~Alive'
    BY <1>6 DEF BackToIdle, Seen
  <2>3. Alive' = Alive
    BY <1>2, <1>6 DEF BackToIdle
  <2> QED BY <2>1, <2>2, <2>3 DEF Promise!LifecycleNext, Promise!OffAgain
<1>7. CASE /\ ~(RunClaim(c) /\ state = "Idle") /\ ~(StopClaim(c) /\ state = "Running")
           /\ ~RunRunning(c) /\ ~BackToIdle(c)
  <2>1. UNCHANGED state
    BY <1>7
    DEF CallerStep, Call, Native, LockState, RunStep, RunClaim, RunMemory, RunStack,
        RunInstall, RunClient, RunBuild, SetFlag, StopStep, StopClaim, StopDetach,
        StopAgent, StopAttach, TeardownStep, StopMemory, StopStack, SamplerStop,
        StackAttach, ClearStack, ClearFlag, TagThread, Finalize, SwitchGil
  <2>2. \A d \in Pythons : step'[d] \in Outside <=> step[d] \in Outside
    BY <1>7
    DEF CallerStep, Call, Native, LockState, RunStep, RunClaim, RunMemory, RunStack,
        RunInstall, RunClient, RunBuild, SetFlag, StopStep, StopClaim, StopDetach,
        StopAgent, StopAttach, TeardownStep, StopMemory, StopStack, SamplerStop,
        StackAttach, ClearStack, ClearFlag, TagThread, Finalize, SwitchGil, Return,
        At, Goto, Outside, PythonCode
  <2>3. \A d \in Pythons : step[d] \notin Outside => op'[d] = op[d]
    BY <1>7
    DEF CallerStep, Call, Native, LockState, RunStep, RunClaim, RunMemory, RunStack,
        RunInstall, RunClient, RunBuild, SetFlag, StopStep, StopClaim, StopDetach,
        StopAgent, StopAttach, TeardownStep, StopMemory, StopStack, SamplerStop,
        StackAttach, ClearStack, ClearFlag, TagThread, Finalize, SwitchGil, Return,
        At, Goto, Outside
  <2> QED BY <1>1, <2>1, <2>2, <2>3
<1> QED BY <1>3, <1>4, <1>5, <1>6, <1>7

\* The threads of the agent come and go while it is on, and in both operations.
LEMMA BackgroundLifecycle ==
    ASSUME FfiInv, FfiInv', Seen, Seen', UNCHANGED ffiVars
    PROVE  [Promise!LifecycleNext]_<<Phase, Owner, Alive>>
<1>1. Phase' = Phase /\ Owner' = Owner
  BY DEF Phase, Owner, Owners
<1>2. Phase = "off" => ~Alive /\ ~Alive'
  <2>1. Phase = "off" => state = "Idle"
    BY DEF FfiInv, Calling, FfiTypeOK, Phase
  <2> QED BY <2>1 DEF Seen
<1>3. Alive' = Alive \/ Alive' = ~Alive
  BY DEF Alive
<1> QED BY <1>1, <1>2, <1>3 DEF Promise!LifecycleNext, Promise!Work

\* configure() and shutdown(), as threads race them against each other and
\* against the agent's own threads, implement the lifecycle of one agent.
THEOREM Implements == Spec => ImplementsLifecycle
<1>1. Init => Promise!Off
  <2> SUFFICES ASSUME Init PROVE Promise!Off
    OBVIOUS
  <2>1. state = "Idle" /\ Seen
    BY FfiInit, SeenHolds DEF Init
  <2> QED BY <2>1 DEF Seen, Promise!Off
<1>2. Seen /\ Seen' /\ FfiInv /\ FfiInv' /\ [Next]_vars
        => [Promise!LifecycleNext]_<<Phase, Owner, Alive>>
  <2> SUFFICES ASSUME Seen, Seen', FfiInv, FfiInv', [Next]_vars
               PROVE  [Promise!LifecycleNext]_<<Phase, Owner, Alive>>
    OBVIOUS
  <2>1. ASSUME NEW c \in Pythons, CallerStep(c)
        PROVE  [Promise!LifecycleNext]_<<Phase, Owner, Alive>>
    BY <2>1, CallerLifecycle
  <2>2. CASE UNCHANGED ffiVars
    BY <2>2, BackgroundLifecycle
  <2>3. (\E c \in Pythons : CallerStep(c)) \/ UNCHANGED ffiVars
    BY DEF Next, CallerStep
  <2> QED BY <2>1, <2>2, <2>3
<1>3. Spec => Promise!LifecycleSpec
  BY <1>1, <1>2, SeenHolds, FfiInvariant, PTL DEF Spec, Promise!LifecycleSpec
<1> QED BY <1>3 DEF ImplementsLifecycle

=============================================================================
