--------------------------- MODULE SignalSession ---------------------------
(***************************************************************************)
(* The Signal CPU profiler: SIGPROF ticks of a timer, the handler that     *)
(* unwinds into the ring buffer, the sampler thread that drains it, the    *)
(* drop counters, the report of a snapshot, and the start and end of a     *)
(* session with its signal disposition (rust/src/signal_backend.rs,        *)
(* signal_sampler.rs, crates/signal-timer, crates/python-unwind).          *)
(*                                                                         *)
(* Ticks go on for ever; one of them, any one, is followed.  A buffer is   *)
(* modelled by whether it holds that tick, a counter by whether it counts  *)
(* it.  The ring is a queue of RingCap records (module RecordQueue), and   *)
(* its only consumer is the thread of the session.                         *)
(***************************************************************************)
EXTENDS Integers, Sequences, FiniteSets

CONSTANTS
    Threads,   \* threads the timer signals
    RingCap,   \* records that fit in RECORDS
    MaxDrain   \* MAX_DRAIN_STACKS

ASSUME ThreadsAssumption == "none" \notin Threads
ASSUME SizesAssumption == RingCap \in Nat \ {0} /\ MaxDrain \in Nat \ {0}

VARIABLES
    disp,       \* action of SIGPROF: "default", "handler" (ours), "ignore", "foreign"
    handled,    \* HANDLED_SIGNALS holds SIGPROF
    active,     \* ACTIVE
    timer,      \* a Timer runs
    pending,    \* threads with a SIGPROF pending
    dead,       \* a SIGPROF met the default action
    hpc,        \* place of each thread in the handler
    producer,   \* holder of producer_locked
    ring,       \* RECORDS, TRUE is the followed tick
    phase,      \* where configure, then the sampler thread, is
    running, drained, inHand, buffer,   \* Signal: flag, drain loop, traces, StackBuffer
    counters,   \* METRICS: the reasons that count the followed tick
    rpc, left, report,                  \* Reporter::report of a snapshot
    followed, tracked, reported, discarded   \* the followed tick

procVars == <<disp, handled, active, timer, pending, dead>>
handlerVars == <<hpc, producer>>
samplerVars == <<phase, running, drained, inHand, buffer>>
reportVars == <<rpc, left, report>>
tickVars == <<followed, tracked>>
vars == <<procVars, handlerVars, ring, samplerVars, counters, reportVars, tickVars,
          reported, discarded>>

\* The reasons of take_drop_counts; the five errors of unwind_thread are one.
Reasons == {"unwind", "contentions", "buffer_dropped", "resolve_error"}

Init ==
    /\ disp \in {"default", "foreign"} /\ handled = FALSE /\ active = FALSE
    /\ timer = FALSE /\ pending = {} /\ dead = FALSE
    /\ hpc = [t \in Threads |-> "idle"] /\ producer = "none" /\ ring = <<>>
    /\ phase = "off" /\ running = FALSE /\ drained = 0
    /\ inHand = FALSE /\ buffer = FALSE /\ counters = {}
    /\ rpc = "idle" /\ left = {} /\ report = FALSE
    /\ followed = "none" /\ tracked = FALSE /\ reported = 0 /\ discarded = FALSE

-----------------------------------------------------------------------------
\* The timer and the kernel

Tick(t) ==
    /\ timer
    /\ pending' = pending \cup {t}
    /\ UNCHANGED <<disp, handled, active, timer, dead, handlerVars, ring, samplerVars,
                   counters, reportVars, tickVars, reported, discarded>>

\* The signal is masked while its handler runs.  Any tick may be the one
\* that is followed.
Deliver(t) ==
    /\ t \in pending /\ hpc[t] = "idle"
    /\ pending' = pending \ {t}
    /\ dead' = (dead \/ disp = "default")
    /\ \/ /\ disp = "handler" /\ hpc' = [hpc EXCEPT ![t] = "unwind"]
          /\ \/ ~tracked /\ tracked' = TRUE /\ followed' = t
             \/ UNCHANGED tickVars
       \/ disp # "handler" /\ UNCHANGED <<hpc, tickVars>>
    /\ UNCHANGED <<disp, handled, active, timer, producer, ring, samplerVars, counters,
                   reportVars, reported, discarded>>

\* Another library installs its own SIGPROF handler.
ForeignHandler ==
    /\ disp # "foreign"
    /\ disp' = "foreign"
    /\ UNCHANGED <<handled, active, timer, pending, dead, handlerVars, ring, samplerVars,
                   counters, reportVars, tickVars, reported, discarded>>

-----------------------------------------------------------------------------
\* The handler

\* METRICS.<reason>.fetch_add, and return.
CountDrop(t, reason) ==
    /\ counters' = IF followed = t THEN counters \cup {reason} ELSE counters
    /\ followed' = IF followed = t THEN "none" ELSE followed
    /\ hpc' = [hpc EXCEPT ![t] = "idle"]

\* unwind: a whole stack, or an error that is counted.
Unwind(t) ==
    /\ hpc[t] = "unwind"
    /\ \/ hpc' = [hpc EXCEPT ![t] = "producer"] /\ UNCHANGED <<counters, followed>>
       \/ CountDrop(t, "unwind")
    /\ UNCHANGED <<procVars, producer, ring, samplerVars, reportVars, tracked, reported,
                   discarded>>

\* RECORDS.producer(): None is a contention.
GetProducer(t) ==
    /\ hpc[t] = "producer"
    /\ IF producer = "none"
       THEN /\ producer' = t /\ hpc' = [hpc EXCEPT ![t] = "push"]
            /\ UNCHANGED <<counters, followed>>
       ELSE CountDrop(t, "contentions") /\ UNCHANGED producer
    /\ UNCHANGED <<procVars, ring, samplerVars, reportVars, tracked, reported, discarded>>

\* Wrong: push_slice does not look for room.
PushUnchecked(t) ==
    /\ hpc[t] = "push"
    /\ ring' = Append(ring, followed = t)
    /\ followed' = IF followed = t THEN "none" ELSE followed
    /\ hpc' = [hpc EXCEPT ![t] = "idle"] /\ producer' = "none"
    /\ UNCHANGED <<procVars, samplerVars, counters, reportVars, tracked, reported, discarded>>

\* push_slice, then the Producer is dropped.  Full is counted.
Push(t) ==
    /\ hpc[t] = "push"
    /\ IF Len(ring) < RingCap
       THEN /\ ring' = Append(ring, followed = t)
            /\ followed' = IF followed = t THEN "none" ELSE followed
            /\ hpc' = [hpc EXCEPT ![t] = "idle"]
            /\ UNCHANGED counters
       ELSE CountDrop(t, "buffer_dropped") /\ UNCHANGED ring
    /\ producer' = "none"
    /\ UNCHANGED <<procVars, samplerVars, reportVars, tracked, reported, discarded>>

-----------------------------------------------------------------------------
\* Signal::new: SignalHandlerSession::start, then the sampler thread

Goto(p) == phase' = p

\* Discard what a previous session left behind.
StartDiscard ==
    /\ phase = "off"
    /\ ring' = <<>>
    /\ discarded' = (discarded \/ \E i \in DOMAIN ring : ring[i])
    /\ Goto("install")
    /\ UNCHANGED <<procVars, handlerVars, running, drained, inHand, buffer, counters,
                   reportVars, tickVars, reported>>

\* SignalHandler::install; AlreadyExists, or an error of sigaction, fails the
\* start.
Install ==
    /\ phase = "install"
    /\ \/ /\ ~handled
          /\ disp' = "handler" /\ handled' = TRUE /\ Goto("metrics")
       \/ Goto("off") /\ UNCHANGED <<disp, handled>>
    /\ UNCHANGED <<active, timer, pending, dead, handlerVars, ring, running, drained,
                   inHand, buffer, counters, reportVars, tickVars, reported, discarded>>

\* METRICS.take_drop_counts(), result ignored.
DiscardCounts ==
    /\ phase = "metrics"
    /\ discarded' = (discarded \/ counters # {})
    /\ counters' = {}
    /\ Goto("timer")
    /\ UNCHANGED <<procVars, handlerVars, ring, running, drained, inHand, buffer,
                   reportVars, tickVars, reported>>

\* Timer::start, and threads::attach for CTimer; then the sampler thread runs.
\* AlreadyExists or an OS error drops the handler again.
StartTimer ==
    /\ phase = "timer"
    /\ \/ /\ ~active
          /\ active' = TRUE /\ timer' = TRUE
          /\ running' = TRUE /\ buffer' = FALSE /\ Goto("loop")
       \/ Goto("drop_handler") /\ UNCHANGED <<active, timer, running, buffer>>
    /\ UNCHANGED <<disp, handled, pending, dead, handlerVars, ring, drained, inHand,
                   counters, reportVars, tickVars, reported, discarded>>

\* Timer::start succeeds but threads::attach cannot arm the caller's CTimer:
\* no thread ticks, and the session is dropped.
AttachFails ==
    /\ phase = "timer" /\ ~active
    /\ active' = TRUE
    /\ Goto("drop_timer")
    /\ UNCHANGED <<disp, handled, timer, pending, dead, handlerVars, ring, running, drained, inHand, buffer, counters,
                   reportVars, tickVars, reported, discarded>>

-----------------------------------------------------------------------------
\* The sampler thread

\* The loop test, and the end of the loop.
LoopTest ==
    /\ phase = "loop"
    /\ Goto(IF running THEN "drain" ELSE "drop_timer")
    /\ UNCHANGED <<procVars, handlerVars, ring, running, drained, inHand, buffer, counters,
                   reportVars, tickVars, reported, discarded>>

\* Wrong: the drain goes on while there are records.
PopUnbounded ==
    /\ phase = "drain" /\ ring # <<>>
    /\ ring' = Tail(ring) /\ inHand' = (inHand \/ Head(ring))
    /\ UNCHANGED <<procVars, handlerVars, phase, running, drained, buffer, counters,
                   reportVars, tickVars, reported, discarded>>

\* Wrong: a stack that cannot be resolved is skipped.
PopUncounted ==
    /\ phase = "drain" /\ ring # <<>> /\ drained < MaxDrain
    /\ ring' = Tail(ring) /\ drained' = drained + 1
    /\ inHand' \in {inHand, inHand \/ Head(ring)}
    /\ UNCHANGED <<procVars, handlerVars, phase, running, buffer, counters, reportVars,
                   tickVars, reported, discarded>>

\* One turn of session.drain(): a record is popped and resolved, or its
\* resolution fails and is counted.
Pop ==
    /\ phase = "drain" /\ ring # <<>> /\ drained < MaxDrain
    /\ ring' = Tail(ring) /\ drained' = drained + 1
    /\ \/ inHand' = (inHand \/ Head(ring)) /\ UNCHANGED counters
       \/ /\ counters' = IF Head(ring) THEN counters \cup {"resolve_error"} ELSE counters
          /\ UNCHANGED inHand
    /\ UNCHANGED <<procVars, handlerVars, phase, running, buffer, reportVars, tickVars,
                   reported, discarded>>

\* The drain ends, Empty or bounded, and its traces are recorded.
Record ==
    /\ phase = "drain" /\ (ring = <<>> \/ drained = MaxDrain)
    /\ buffer' = (buffer \/ inHand) /\ inHand' = FALSE /\ drained' = 0
    /\ Goto("loop")
    /\ UNCHANGED <<procVars, handlerVars, ring, running, counters, reportVars, tickVars,
                   reported, discarded>>

\* threads::detach and impl Drop for SignalHandlerSession: the timer goes
\* first (Active is given back with it).
DropTimer ==
    /\ phase = "drop_timer"
    /\ timer' = FALSE /\ active' = FALSE
    /\ Goto("drop_handler")
    /\ UNCHANGED <<disp, handled, pending, dead, handlerVars, ring, running, drained, inHand,
                   buffer, counters, reportVars, tickVars, reported, discarded>>

\* impl Drop for SignalHandler: sigaction tells whether the handler is still
\* ours ...
DropCheck ==
    /\ phase = "drop_handler"
    /\ Goto(IF disp = "handler" THEN "ignore" ELSE "forget")
    /\ UNCHANGED <<procVars, handlerVars, ring, running, drained, inHand, buffer, counters,
                   reportVars, tickVars, reported, discarded>>

\* Wrong: the default action is restored.
DropRestore ==
    /\ phase = "ignore"
    /\ disp' = "default"
    /\ Goto("forget")
    /\ UNCHANGED <<handled, active, timer, pending, dead, handlerVars, ring, running,
                   drained, inHand, buffer, counters, reportVars, tickVars, reported,
                   discarded>>

\* ... and if so, a second call ignores the signal.
DropIgnore ==
    /\ phase = "ignore"
    /\ disp' = "ignore"
    /\ Goto("forget")
    /\ UNCHANGED <<handled, active, timer, pending, dead, handlerVars, ring, running,
                   drained, inHand, buffer, counters, reportVars, tickVars, reported,
                   discarded>>

\* signals.retain; the thread ends and the StackBuffer goes with the backend.
DropForget ==
    /\ phase = "forget"
    /\ handled' = FALSE
    /\ buffer' = FALSE /\ discarded' = (discarded \/ buffer)
    /\ Goto("off")
    /\ UNCHANGED <<disp, active, timer, pending, dead, handlerVars, ring, running, drained,
                   inHand, counters, reportVars, tickVars, reported>>

\* Signal::shutdown_thread, which the agent calls after its last snapshot.
Shutdown ==
    /\ running /\ rpc = "idle"
    /\ running' = FALSE
    /\ UNCHANGED <<procVars, handlerVars, ring, phase, drained, inHand, buffer, counters,
                   reportVars, tickVars, reported, discarded>>

-----------------------------------------------------------------------------
\* Reporter::report, in a snapshot

TakeBuffer ==
    /\ rpc = "idle" /\ running
    /\ report' = buffer /\ buffer' = FALSE
    /\ rpc' = "counts" /\ left' = Reasons
    /\ UNCHANGED <<procVars, handlerVars, ring, phase, running, drained, inHand, counters,
                   tickVars, reported, discarded>>

\* Wrong: the counter is loaded and keeps its count.
TakeCountLoad(reason) ==
    /\ rpc = "counts" /\ reason \in left
    /\ left' = left \ {reason}
    /\ report' = (report \/ reason \in counters)
    /\ UNCHANGED <<procVars, handlerVars, ring, samplerVars, counters, rpc, tickVars,
                   reported, discarded>>

\* take_drop_counts swaps one counter after the other.
TakeCount(reason) ==
    /\ rpc = "counts" /\ reason \in left
    /\ left' = left \ {reason}
    /\ report' = (report \/ reason \in counters)
    /\ counters' = counters \ {reason}
    /\ UNCHANGED <<procVars, handlerVars, ring, samplerVars, rpc, tickVars, reported,
                   discarded>>

\* The profile is built, with one synthetic stack per reason.
Build ==
    /\ rpc = "counts" /\ left = {}
    /\ reported' = IF report THEN reported + 1 ELSE reported
    /\ report' = FALSE /\ rpc' = "idle"
    /\ UNCHANGED <<procVars, handlerVars, ring, samplerVars, counters, left, tickVars,
                   discarded>>

-----------------------------------------------------------------------------
Kernel == ForeignHandler \/ \E t \in Threads : Tick(t) \/ Deliver(t)
Handler(t) == Unwind(t) \/ GetProducer(t) \/ Push(t)
Start == StartDiscard \/ Install \/ DiscardCounts \/ StartTimer \/ AttachFails
Sampler == \/ LoopTest \/ Pop \/ Record \/ DropTimer \/ DropCheck \/ DropIgnore
           \/ DropForget
Report == TakeBuffer \/ Build \/ \E reason \in Reasons : TakeCount(reason)

Next == Kernel \/ (\E t \in Threads : Handler(t)) \/ Start \/ Sampler \/ Shutdown \/ Report

\* The sampler thread, the snapshots (every upload interval) and a handler
\* that was entered make progress.  Nothing is assumed of ticks, starts and
\* shutdowns.
Spec == /\ Init /\ [][Next]_vars
        /\ WF_vars(Sampler) /\ WF_vars(Report)
        /\ \A t \in Threads : WF_vars(Handler(t))

-----------------------------------------------------------------------------
\* Properties

\* Every variable has its type.
TypeOK ==
    /\ disp \in {"default", "handler", "ignore", "foreign"}
    /\ {handled, active, timer, dead, running, inHand, buffer, report, tracked,
        discarded} \subseteq BOOLEAN
    /\ pending \subseteq Threads
    /\ hpc \in [Threads -> {"idle", "unwind", "producer", "push"}]
    /\ producer \in Threads \cup {"none"} /\ followed \in Threads \cup {"none"}
    /\ ring \in Seq(BOOLEAN) /\ Len(ring) =< RingCap
    /\ phase \in {"off", "install", "metrics", "timer", "loop", "drain", "drop_timer",
                  "drop_handler", "ignore", "forget"}
    /\ drained \in 0 .. MaxDrain
    /\ counters \subseteq Reasons /\ left \subseteq Reasons
    /\ rpc \in {"idle", "counts"} /\ reported \in Nat

One(b) == IF b THEN 1 ELSE 0

\* Every tick is accounted for exactly once, as a sample, as one drop reason
\* or as one that the end of a session discarded, whatever handlers, drain and
\* report interleave: a counter is swapped while handlers increment it, the
\* buffer is taken while the drain is about to record.
TickAccountedOnce ==
    tracked =>
        1 = One(followed # "none") + Cardinality({i \in DOMAIN ring : ring[i]})
            + One(inHand) + One(buffer) + Cardinality(counters) + One(report)
            + reported + One(discarded)

\* A tick that is still pending when its timer is gone, or that arrives while
\* a session starts or fails to start, never meets the default action, which
\* would terminate the process (SignalHandler, order of the two drops).
NoFatalSignal == ~dead

\* A session that is told to stop ends, however busy the handlers are: the
\* drain is bounded (MAX_DRAIN_STACKS).
StopEnds == (phase = "drain" /\ ~running) ~> phase = "off"

\* A tick that was handled shows up in a profile, as a sample or as a drop,
\* unless the session is stopped first.
TickReported == tracked ~> (reported = 1 \/ discarded \/ ~running)

\* Claim of crates/signal-timer: a handler that another owner installed stays
\* in place when the session ends.
ForeignHandlerKept ==
    [][disp = "foreign" /\ disp' # "foreign" => phase = "install"]_vars
=============================================================================
