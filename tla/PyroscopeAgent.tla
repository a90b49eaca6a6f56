--------------------------- MODULE PyroscopeAgent ---------------------------
(***************************************************************************)
(* One PyroscopeAgent: the sampler thread of the backend, the main thread  *)
(* that takes a snapshot every upload interval, the session thread that    *)
(* uploads, and stop(), which ends the three in order                      *)
(* (rust/src/pyroscope.rs, session.rs, pyspy_backend.rs, memory.rs).       *)
(*                                                                         *)
(* A sample is a number; profiles, reports and sessions are sets of        *)
(* samples.  The Python GIL is a variable: the memory flush of a snapshot  *)
(* attaches to Python, and other Python threads hold the GIL meanwhile.    *)
(***************************************************************************)
EXTENDS Integers, Sequences, FiniteSets

CONSTANTS
    Pythons,     \* Python threads
    Cpu,         \* cpu_implementation, "None" when CPU profiling is off
    MemEnabled,  \* mem_config.enabled
    ChanCap,     \* sync_channel(10)
    MaxSamples,  \* bound on the samples taken
    Times,       \* values of the system clock, 0 is UNIX_EPOCH
    UrlKinds,    \* of config.url: "no_base" parses to a Url that cannot be a base
    Py313        \* try_attach refuses while the interpreter finalizes

ASSUME CpuAssumption == Cpu \in {"PySpy", "Signal", "Stack", "None"}
ASSUME SwitchAssumption == MemEnabled \in BOOLEAN /\ Py313 \in BOOLEAN
ASSUME BoundsAssumption == /\ ChanCap \in Nat \ {0} /\ MaxSamples \in Nat
                           /\ Times \subseteq Int
ASSUME UrlAssumption == UrlKinds \subseteq {"base", "no_base"}
ASSUME PythonsAssumption == Pythons \cap {"free", "snapshot"} = {}

VARIABLES
    taken,        \* number of samples taken so far
    running, sampler, inHand, buffer,      \* Pyspy: flag, thread, trace, StackBuffer
    memHooks, memBuf,                      \* memory: allocator hooks, PROFILE_BUILDER
    stackOn, stackBuf,                     \* stack: sampling thread, PROFILE_BUILDER
    gil, finalizing,                       \* the interpreter
    now,                                   \* SystemTime::now()
    terminated,                            \* terminate_channel dropped
    main, final, sw, range, batch, mainErr,   \* main thread
    chan, session, cur, url,               \* SessionManager
    stop,                                  \* progress of stop()
    attempted, atStop, steppedBack         \* history

cpuVars == <<running, sampler, inHand, buffer>>
profVars == <<memHooks, memBuf, stackOn, stackBuf>>
pyVars == <<gil, finalizing>>
mainVars == <<main, final, sw, range, batch, mainErr>>
sessVars == <<chan, session, cur, url>>
histVars == <<attempted, atStop, steppedBack>>
agentVars == <<taken, cpuVars, profVars, pyVars, now, terminated, mainVars, sessVars,
               stop, histVars>>

Kill == [kind |-> "Kill"]
Session(r, b) == [kind |-> "Session", from |-> r.from, dur |-> r.dur, data |-> b]
NoRange == [from |-> 0, dur |-> 0]

\* TimeRange::new: the error is a start before UNIX_EPOCH, a clock that
\* stepped back gives an empty range.
TimeRange(from, until) ==
    [from |-> from, dur |-> IF until >= from THEN until - from ELSE 0]
LapFails(from) == from < 0

\* The receiver lives as long as the session thread.
SessionAlive == session \in {"recv", "push"}

\* Backends that record into a StackBuffer from a thread of their own.
Buffered == Cpu \in {"PySpy", "Signal"}

\* No agent yet; the profilers are off or already started.
AgentInit(memOn, stkOn) ==
    /\ taken = 0
    /\ running = FALSE /\ sampler = "none" /\ inHand = {} /\ buffer = {}
    /\ memHooks = memOn /\ memBuf = {} /\ stackOn = stkOn /\ stackBuf = {}
    /\ gil = "free" /\ finalizing = FALSE
    /\ now \in Times /\ terminated = FALSE
    /\ main = "none" /\ final = FALSE /\ sw = 0 /\ range = NoRange /\ batch = {}
    /\ mainErr = FALSE
    /\ chan = <<>> /\ session = "none" /\ cur = Kill /\ url \in UrlKinds
    /\ stop = "idle"
    /\ attempted = <<>> /\ atStop = {} /\ steppedBack = FALSE

-----------------------------------------------------------------------------
\* PyroscopeAgentBuilder::build and PyroscopeAgent::start: the sampler thread
\* (Pyspy::new, Signal::new), the session thread (SessionManager::new) and the
\* main thread are spawned; a new agent has new buffers and channels.
BuildAndStart ==
    /\ running' = Buffered
    /\ sampler' = CASE Cpu = "PySpy" -> "start"
                    [] Cpu = "Signal" -> "sampling"
                    [] OTHER -> "none"
    /\ inHand' = {} /\ buffer' = {}
    /\ chan' = <<>> /\ session' = "recv" /\ cur' = Kill
    /\ terminated' = FALSE /\ stop' = "idle"
    /\ main' = "start" /\ final' = FALSE /\ range' = NoRange /\ batch' = {}
    /\ mainErr' = FALSE
    /\ attempted' = <<>> /\ atStop' = {} /\ steppedBack' = FALSE
    /\ UNCHANGED <<taken, profVars, pyVars, now, sw, url>>

-----------------------------------------------------------------------------
\* Sampling

\* py-spy only: Sampler::new succeeds, or its error ends the thread.
SamplerStart ==
    /\ sampler = "start"
    /\ sampler' \in {"sampling", "done"}
    /\ UNCHANGED <<taken, running, inHand, buffer, profVars, pyVars, now, terminated,
                   mainVars, sessVars, stop, histVars>>

\* A trace that passes the test of running: take_while of py-spy's iterator,
\* or a trace drained from the ring in an iteration of the Signal loop.
SamplerTake ==
    /\ sampler = "sampling" /\ running /\ taken < MaxSamples
    /\ taken' = taken + 1 /\ inHand' = {taken + 1}
    /\ sampler' = "record"
    /\ UNCHANGED <<running, buffer, profVars, pyVars, now, terminated, mainVars,
                   sessVars, stop, histVars>>

\* buffer.lock()?.record(stacktrace)?
SamplerRecord ==
    /\ sampler = "record"
    /\ buffer' = buffer \cup inHand /\ inHand' = {}
    /\ sampler' = "sampling"
    /\ UNCHANGED <<taken, running, profVars, pyVars, now, terminated, mainVars,
                   sessVars, stop, histVars>>

\* The loop sees running cleared; Signal then detaches and drops its session.
SamplerEnd ==
    /\ sampler = "sampling" /\ ~running
    /\ sampler' = "done"
    /\ UNCHANGED <<taken, running, inHand, buffer, profVars, pyVars, now, terminated,
                   mainVars, sessVars, stop, histVars>>

\* memory::push_sample, from an allocator hook, with the GIL held.
MemSample ==
    /\ gil \in Pythons /\ memHooks /\ taken < MaxSamples
    /\ taken' = taken + 1 /\ memBuf' = memBuf \cup {taken + 1}
    /\ UNCHANGED <<cpuVars, memHooks, stackOn, stackBuf, pyVars, now, terminated,
                   mainVars, sessVars, stop, histVars>>

\* stack::push_sample / push_oncpu_sample, from the stack sampling thread.
StackSample ==
    /\ stackOn /\ taken < MaxSamples
    /\ taken' = taken + 1 /\ stackBuf' = stackBuf \cup {taken + 1}
    /\ UNCHANGED <<cpuVars, memHooks, memBuf, stackOn, pyVars, now, terminated,
                   mainVars, sessVars, stop, histVars>>

-----------------------------------------------------------------------------
\* The interpreter and the clock

AcquireGil(c) ==
    /\ gil = "free" /\ ~finalizing
    /\ gil' = c
    /\ UNCHANGED <<taken, cpuVars, profVars, finalizing, now, terminated, mainVars,
                   sessVars, stop, histVars>>

ReleaseGil(c) ==
    /\ gil = c
    /\ gil' = "free"
    /\ UNCHANGED <<taken, cpuVars, profVars, finalizing, now, terminated, mainVars,
                   sessVars, stop, histVars>>

\* The system clock moves, also backwards.  It is read by MainStart and MainWake
\* only, so it is enough that it moves while one of them is next.
ClockStep ==
    /\ main \in {"start", "wait"}
    /\ now' \in Times \ {now}
    /\ steppedBack' = (steppedBack \/ now' < now)
    /\ UNCHANGED <<taken, cpuVars, profVars, pyVars, terminated, mainVars, sessVars,
                   stop, attempted, atStop>>

-----------------------------------------------------------------------------
\* The main thread

\* StopWatch::new.
MainStart ==
    /\ main = "start"
    /\ main' = "wait" /\ sw' = now
    /\ UNCHANGED <<taken, cpuVars, profVars, pyVars, now, terminated, final, range,
                   batch, mainErr, sessVars, stop, histVars>>

\* Wrong: Disconnected ends the loop without a last snapshot.
MainWakeNoLastSnapshot ==
    /\ main = "wait"
    /\ final' = terminated
    /\ range' = TimeRange(sw, now) /\ sw' = now
    /\ main' = IF terminated THEN "done" ELSE IF MemEnabled THEN "memory" ELSE "cpu"
    /\ UNCHANGED <<taken, cpuVars, profVars, pyVars, now, terminated, batch, mainErr,
                   sessVars, stop, histVars>>

\* Wrong: lap() returns the range and does not restart the watch.
MainWakeSameStart ==
    /\ main = "wait"
    /\ final' = terminated
    /\ main' = IF MemEnabled THEN "memory" ELSE "cpu"
    /\ range' = TimeRange(sw, now)
    /\ UNCHANGED <<taken, cpuVars, profVars, pyVars, now, terminated, sw, batch, mainErr,
                   sessVars, stop, histVars>>

\* recv_timeout returns Timeout, or Disconnected once the sender is gone;
\* either way a snapshot starts with lap()?.
MainWake ==
    /\ main = "wait"
    /\ final' = terminated
    /\ IF LapFails(sw)
       THEN /\ main' = "done" /\ mainErr' = TRUE
            /\ UNCHANGED <<sw, range>>
       ELSE /\ main' = IF MemEnabled THEN "memory" ELSE "cpu"
            /\ range' = TimeRange(sw, now) /\ sw' = now
            /\ UNCHANGED mainErr
    /\ UNCHANGED <<taken, cpuVars, profVars, pyVars, now, terminated, batch, sessVars,
                   stop, histVars>>

\* memory::dump_pprof: Python::try_attach waits for the GIL.
MemAttach ==
    /\ main = "memory" /\ gil = "free" /\ ~finalizing
    /\ gil' = "snapshot" /\ main' = "flush"
    /\ UNCHANGED <<taken, cpuVars, profVars, finalizing, now, terminated, final, sw,
                   range, batch, mainErr, sessVars, stop, histVars>>

\* While the interpreter finalizes, 3.13+ refuses the attach; before, the
\* thread never comes back.
MemAttachRefused ==
    /\ main = "memory" /\ finalizing /\ Py313
    /\ main' = "cpu"
    /\ UNCHANGED <<taken, cpuVars, profVars, pyVars, now, terminated, final, sw,
                   range, batch, mainErr, sessVars, stop, histVars>>

\* Wrong: the builder is reset before the profile is taken.
MemFlushAfterReset ==
    /\ main = "flush"
    /\ memBuf' = {} /\ gil' = "free" /\ main' = "cpu"
    /\ UNCHANGED <<taken, cpuVars, memHooks, stackOn, stackBuf, finalizing, now,
                   terminated, final, sw, range, batch, mainErr, sessVars, stop, histVars>>

\* The rest of memory::dump_pprof: memalloc_heap_py pushes the samples of the
\* live heap, the profile is taken and the builder reset, and it detaches.
MemFlush ==
    /\ main = "flush"
    /\ \E heap \in {{}, {taken + 1}} :
         /\ heap # {} => memHooks /\ taken < MaxSamples
         /\ taken' = taken + Cardinality(heap)
         /\ batch' = batch \cup memBuf \cup heap
    /\ memBuf' = {} /\ gil' = "free" /\ main' = "cpu"
    /\ UNCHANGED <<cpuVars, memHooks, stackOn, stackBuf, finalizing, now,
                   terminated, final, sw, range, mainErr, sessVars, stop, histVars>>

\* Wrong: the loop ends after any snapshot.
EndSnapshotAndLoop == main' = "done" /\ batch' = {}

\* The snapshot returns to the loop, or ends it after Disconnected.
EndSnapshot == main' = (IF final THEN "done" ELSE "wait") /\ batch' = {}

\* Wrong: the report is built from a clone of the buffer.
CpuReportClone ==
    /\ main = "cpu"
    /\ LET b == batch \cup buffer
       IN  IF b = {} THEN EndSnapshot ELSE main' = "send" /\ batch' = b
    /\ UNCHANGED <<taken, cpuVars, profVars, pyVars, now, terminated, final, sw, range,
                   mainErr, sessVars, stop, histVars>>

\* stack::dump_pprof and Reporter::report (mem::take of the buffer), then the
\* empty batch that is skipped.
CpuReport ==
    /\ main = "cpu"
    /\ LET b == batch \cup (IF Cpu = "Stack" THEN stackBuf ELSE {})
                      \cup (IF Buffered THEN buffer ELSE {})
       IN  IF b = {} THEN EndSnapshot ELSE main' = "send" /\ batch' = b
    /\ stackBuf' = IF Cpu = "Stack" THEN {} ELSE stackBuf
    /\ buffer' = IF Buffered THEN {} ELSE buffer
    /\ UNCHANGED <<taken, running, sampler, inHand, memHooks, memBuf, stackOn, pyVars,
                   now, terminated, final, sw, range, mainErr, sessVars, stop,
                   histVars>>

\* stx.send blocks while the channel is full and fails once the receiver is
\* gone; the error ends the main thread.
SendSession ==
    /\ main = "send"
    /\ IF SessionAlive
       THEN /\ Len(chan) < ChanCap
            /\ chan' = Append(chan, Session(range, batch))
            /\ EndSnapshot
            /\ UNCHANGED mainErr
       ELSE /\ main' = "done" /\ mainErr' = TRUE /\ batch' = {}
            /\ UNCHANGED chan
    /\ UNCHANGED <<taken, cpuVars, profVars, pyVars, now, terminated, final, sw, range,
                   session, cur, url, stop, histVars>>

-----------------------------------------------------------------------------
\* The session thread

SessionRecv ==
    /\ session = "recv" /\ chan # <<>>
    /\ IF Head(chan) = Kill
       THEN session' = "done" /\ chan' = <<>> /\ UNCHANGED cur
       ELSE session' = "push" /\ chan' = Tail(chan) /\ cur' = Head(chan)
    /\ UNCHANGED <<taken, cpuVars, profVars, pyVars, now, terminated, mainVars, url,
                   stop, histVars>>

\* Session::push.  A parse error, a transport error, a timeout and a bad
\* status are logged and the loop goes on; path_segments_mut().unwrap()
\* panics for a URL that cannot be a base, and the receiver is dropped.
SessionPush ==
    /\ session = "push"
    /\ IF url = "no_base"
       THEN /\ session' = "panicked" /\ chan' = <<>>
            /\ UNCHANGED attempted
       ELSE /\ session' = "recv" /\ attempted' = Append(attempted, cur)
            /\ UNCHANGED chan
    /\ cur' = Kill
    /\ UNCHANGED <<taken, cpuVars, profVars, pyVars, now, terminated, mainVars, url,
                   stop, atStop, steppedBack>>

-----------------------------------------------------------------------------
\* PyroscopeAgent::stop and shutdown, run by the thread that calls it.

Samples(ss) == UNION {ss[i].data : i \in {j \in DOMAIN ss : ss[j] # Kill}}

\* What has been sent over the session channel, in order: uploaded, in the upload
\* that goes on, and queued; cur is Kill between uploads.
Stream == attempted \o <<cur>> \o chan
Sessions == {i \in DOMAIN Stream : Stream[i] # Kill}

\* drop(terminate_channel).
StopBegin ==
    /\ stop = "idle"
    /\ terminated' = TRUE /\ stop' = "join_main"
    /\ atStop' = Samples(Stream) \cup batch \cup buffer \cup memBuf \cup stackBuf
    /\ UNCHANGED <<taken, cpuVars, profVars, pyVars, now, mainVars, sessVars,
                   attempted, steppedBack>>

StopJoinMain ==
    /\ stop = "join_main" /\ main = "done"
    /\ stop' = "backend"
    /\ UNCHANGED <<taken, cpuVars, profVars, pyVars, now, terminated, mainVars,
                   sessVars, histVars>>

\* shutdown_thread stores the flag, then joins the sampler.
StopBackend ==
    /\ stop = "backend"
    /\ running' = FALSE /\ stop' = "join_sampler"
    /\ UNCHANGED <<taken, sampler, inHand, buffer, profVars, pyVars, now, terminated,
                   mainVars, sessVars, histVars>>

StopJoinSampler ==
    /\ stop = "join_sampler" /\ sampler \in {"none", "done"}
    /\ stop' = "kill"
    /\ UNCHANGED <<taken, cpuVars, profVars, pyVars, now, terminated, mainVars,
                   sessVars, histVars>>

\* Wrong: the channel has no bound.
StopSendKillUnbounded ==
    /\ stop = "kill"
    /\ chan' = IF SessionAlive THEN Append(chan, Kill) ELSE chan
    /\ stop' = "join_session"
    /\ UNCHANGED <<taken, cpuVars, profVars, pyVars, now, terminated, mainVars,
                   session, cur, url, histVars>>

\* Wrong: try_send, which gives up when the channel is full.
StopTrySendKill ==
    /\ stop = "kill"
    /\ chan' = IF SessionAlive /\ Len(chan) < ChanCap THEN Append(chan, Kill) ELSE chan
    /\ stop' = "join_session"
    /\ UNCHANGED <<taken, cpuVars, profVars, pyVars, now, terminated, mainVars,
                   session, cur, url, histVars>>

\* SessionManager::push(Kill): blocks while full; an error is only logged.
StopSendKill ==
    /\ stop = "kill"
    /\ IF SessionAlive
       THEN Len(chan) < ChanCap /\ chan' = Append(chan, Kill)
       ELSE UNCHANGED chan
    /\ stop' = "join_session"
    /\ UNCHANGED <<taken, cpuVars, profVars, pyVars, now, terminated, mainVars,
                   session, cur, url, histVars>>

StopJoinSession ==
    /\ stop = "join_session" /\ ~SessionAlive
    /\ stop' = "stopped"
    /\ UNCHANGED <<taken, cpuVars, profVars, pyVars, now, terminated, mainVars,
                   sessVars, histVars>>

-----------------------------------------------------------------------------
SamplerThread == SamplerStart \/ SamplerTake \/ SamplerRecord \/ SamplerEnd
MainThread == \/ MainStart \/ MainWake \/ MemAttach \/ MemFlush
              \/ CpuReport \/ SendSession
SessionThread == SessionRecv \/ SessionPush
Joiner == \/ StopJoinMain \/ StopBackend \/ StopJoinSampler \/ StopSendKill
          \/ StopJoinSession
AgentThreads == \/ SamplerThread \/ MemSample \/ ClockStep \/ MainThread
                \/ SessionThread \/ Joiner
Background == AgentThreads \/ StackSample \/ MemAttachRefused

\* What the threads are scheduled to do: every thread that can run does run,
\* an upload ends (10 s timeout), and a thread that waits for the GIL gets it
\* although other threads take it in between (the GIL's forced switch).
Fairness ==
    /\ WF_agentVars(SamplerStart \/ SamplerRecord \/ SamplerEnd)
    /\ WF_agentVars(MainStart \/ MainWake \/ MemAttachRefused \/ MemFlush
                    \/ CpuReport \/ SendSession)
    /\ SF_agentVars(MemAttach)
    /\ WF_agentVars(SessionThread) /\ WF_agentVars(Joiner)

-----------------------------------------------------------------------------
\* One agent on its own, with a backend that has a StackBuffer: the memory
\* profiler runs, the agent is built and started, Python threads take and
\* release the GIL, and stop() is called once.
StartOnce == main = "none" /\ BuildAndStart
StopOnce == main # "none" /\ StopBegin

AloneInit == Buffered /\ AgentInit(MemEnabled, FALSE)
AloneNext == \/ StartOnce
             \/ StopOnce
             \/ AgentThreads
             \/ \E c \in Pythons : AcquireGil(c) \/ ReleaseGil(c)
AloneSpec ==
    /\ AloneInit /\ [][AloneNext]_agentVars
    /\ Fairness /\ WF_agentVars(StartOnce)
    /\ \A c \in Pythons : WF_agentVars(ReleaseGil(c))

-----------------------------------------------------------------------------
\* Properties

Sample == 1 .. MaxSamples
RangeType == [from : Int, dur : Int]
SessionType == [kind : {"Session"}, from : Int, dur : Int, data : SUBSET Sample]
Signal == SessionType \cup {Kill}

SamplingTypeOK ==
    /\ taken \in 0 .. MaxSamples
    /\ running \in BOOLEAN /\ sampler \in {"none", "start", "sampling", "record", "done"}
    /\ inHand \subseteq Sample /\ buffer \subseteq Sample
    /\ memHooks \in BOOLEAN /\ memBuf \subseteq Sample
    /\ stackOn \in BOOLEAN /\ stackBuf \subseteq Sample
    /\ gil \in Pythons \cup {"free", "snapshot"} /\ finalizing \in BOOLEAN

MainTypeOK ==
    /\ now \in Times /\ terminated \in BOOLEAN
    /\ main \in {"none", "start", "wait", "memory", "flush", "cpu", "send", "done"}
    /\ final \in BOOLEAN /\ sw \in Int /\ range \in RangeType
    /\ batch \subseteq Sample /\ mainErr \in BOOLEAN

SessionTypeOK ==
    /\ chan \in Seq(Signal) /\ Len(chan) =< ChanCap
    /\ session \in {"none", "recv", "push", "done", "panicked"}
    /\ cur \in Signal /\ url \in UrlKinds
    /\ attempted \in Seq(SessionType)

StopTypeOK ==
    /\ stop \in {"idle", "join_main", "backend", "join_sampler", "kill",
                 "join_session", "stopped"}
    /\ atStop \subseteq Sample /\ steppedBack \in BOOLEAN

\* Every variable has its type.
TypeOK == SamplingTypeOK /\ MainTypeOK /\ SessionTypeOK /\ StopTypeOK

\* Where a sample can be, in the order it travels.
Places == <<inHand, buffer, memBuf, stackBuf, batch, Samples(chan), Samples(<<cur>>),
            Samples(attempted)>>

\* No sample is counted twice, whatever snapshots, uploads and stop()
\* interleave with sampling: it is in one buffer, one batch or one session
\* (mem::take in Reporter::report, take_profile_and_reset in dump_pprof).
NoDuplicateSamples ==
    /\ \A i, j \in DOMAIN Places : i # j => Places[i] \cap Places[j] = {}
    /\ \A i, j \in Sessions : i # j => Stream[i].data \cap Stream[j].data = {}

\* No sample is lost on its way either, as long as neither the main thread nor
\* the session thread ended with an error.
NoLostSamples ==
    ~mainErr /\ session # "panicked" =>
        1 .. taken = UNION {Places[i] : i \in DOMAIN Places}

\* stop() flushes: when it returns, every sample recorded before the terminate
\* channel was dropped has been in an upload, queued sessions included (the snapshot after Disconnected, the join of the main thread before Kill,
\* and Kill queued behind the sessions).
FlushOnStop ==
    stop = "stopped" /\ ~mainErr /\ session # "panicked" =>
        atStop \subseteq Samples(attempted)

\* The profiles of a server-side series do not overlap in time unless the
\* system clock was set back, and no range is negative even then
\* (StopWatch::lap, TimeRange::new).
RangesDisjoint ==
    \A i \in Sessions :
        /\ Stream[i].from >= 0 /\ Stream[i].dur >= 0
        /\ \A j \in Sessions :
             i < j /\ ~steppedBack => Stream[i].from + Stream[i].dur =< Stream[j].from

\* stop() returns, also with the channel full, the GIL busy, or one of the
\* agent's threads gone.
StopReturns == stop = "join_main" ~> stop = "stopped"

\* A recorded sample is uploaded within some later interval, without stop().
SamplesUploaded ==
    \A x \in Sample :
        x \in buffer \cup memBuf \cup stackBuf
            ~> \/ x \in Samples(attempted)
               \/ mainErr \/ session = "panicked" \/ stop # "idle"

\* Claim of session.rs: a push that fails does not break the session thread.
PushNeverBreaksThread == session # "panicked"
=============================================================================
