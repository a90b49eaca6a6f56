------------------------------- MODULE Ffikit -------------------------------
(***************************************************************************)
(* The process-wide agent: Python threads that call configure(),           *)
(* shutdown() and the tag functions, or leave the interpreter, while the   *)
(* agent of PyroscopeAgent runs (rust/src/ffikit.rs, and the functions of  *)
(* rust/src/lib.rs around it).                                             *)
(*                                                                         *)
(* A native function holds the GIL from call to return except where it     *)
(* detaches, or where it runs Python code.                                 *)
(***************************************************************************)
EXTENDS PyroscopeAgent

CONSTANTS
    MaxCalls,   \* bound on the calls of a thread
    Exits       \* the thread that leaves the interpreter, the others are daemons

ASSUME CallsAssumption == MaxCalls \in Nat
ASSUME ExitsAssumption == Exits \subseteq Pythons

VARIABLES
    state,           \* static STATE: "Idle", "Busy" or "Running"
    stateLock,       \* holder of its mutex
    AGENT_RUNNING,
    op, step, calls, \* of each thread: the call it is in, its place in it
    configured, dropped,   \* calls that returned true
    born             \* last sample taken before the agent was claimed by run

ffiVars == <<state, stateLock, AGENT_RUNNING, op, step, calls, configured, dropped, born>>
vars == <<agentVars, ffiVars>>

Init ==
    /\ AgentInit(FALSE, FALSE)
    /\ state = "Idle" /\ stateLock = "free" /\ AGENT_RUNNING = FALSE
    /\ op = [c \in Pythons |-> "none"] /\ step = [c \in Pythons |-> "python"]
    /\ calls = [c \in Pythons |-> 0]
    /\ configured = 0 /\ dropped = 0 /\ born = 0

\* A step of native code in thread c, which holds the GIL.
At(c, s) == gil = c /\ step[c] = s
Goto(c, s) == step' = [step EXCEPT ![c] = s]
Return(c) == /\ Goto(c, IF op[c] = "exit" THEN "exiting" ELSE "python")
             /\ op' = [op EXCEPT ![c] = "none"]

-----------------------------------------------------------------------------
\* Python code calls into the module; at_exit is drop_agent.
Call(c, o) ==
    /\ At(c, "python") /\ calls[c] < MaxCalls
    /\ o = "exit" => c \in Exits
    /\ op' = [op EXCEPT ![c] = o] /\ Goto(c, "lock")
    /\ calls' = [calls EXCEPT ![c] = @ + 1]
    /\ UNCHANGED <<agentVars, state, stateLock, AGENT_RUNNING, configured, dropped, born>>

\* STATE.mutex().lock(), with the GIL held.
LockState(c) ==
    /\ gil = c /\ stateLock = "free"
    /\ \E s \in {<<"lock", "claim">>, <<"lock_running", "running">>,
                 <<"lock_idle", "idle">>} :
         step[c] = s[1] /\ Goto(c, s[2])
    /\ stateLock' = c
    /\ UNCHANGED <<agentVars, state, AGENT_RUNNING, op, calls, configured, dropped, born>>

\* run: the match on state.  Busy is ConcurrentOperation, Running is
\* AgentAlreadyRunning.
RunClaim(c) ==
    /\ At(c, "claim") /\ op[c] = "run"
    /\ IF state = "Idle"
       THEN state' = "Busy" /\ born' = taken /\ Goto(c, "memory") /\ UNCHANGED op
       ELSE Return(c) /\ UNCHANGED <<state, born>>
    /\ stateLock' = "free"
    /\ UNCHANGED <<agentVars, AGENT_RUNNING, calls, configured, dropped>>

\* Wrong: an error of memory::start is returned at once.
RunMemoryEarlyReturn(c) ==
    /\ At(c, "memory")
    /\ \/ memHooks' = MemEnabled /\ Goto(c, "stack") /\ UNCHANGED op
       \/ MemEnabled /\ memHooks' = FALSE /\ Return(c)
    /\ UNCHANGED <<taken, cpuVars, memBuf, stackOn, stackBuf, pyVars, now, terminated,
                   mainVars, sessVars, stop, histVars,
                   state, stateLock, AGENT_RUNNING, calls, configured, dropped, born>>

\* memory::start: the hooks are installed, or an error leaves none.
RunMemory(c) ==
    /\ At(c, "memory")
    /\ \/ memHooks' = MemEnabled /\ Goto(c, "stack")
       \/ MemEnabled /\ memHooks' = FALSE /\ Goto(c, "stop_memory")
    /\ UNCHANGED <<taken, cpuVars, memBuf, stackOn, stackBuf, pyVars, now, terminated,
                   mainVars, sessVars, stop, histVars,
                   state, stateLock, AGENT_RUNNING, op, calls, configured, dropped, born>>

\* stack::start up to STARTED: the sampler starts, or it does not.
RunStack(c) ==
    /\ At(c, "stack")
    /\ \/ Cpu # "Stack" /\ Goto(c, "client") /\ UNCHANGED stackOn
       \/ Cpu = "Stack" /\ Goto(c, "install") /\ stackOn' = TRUE
       \/ Cpu = "Stack" /\ Goto(c, "stop_memory") /\ UNCHANGED stackOn
    /\ UNCHANGED <<taken, cpuVars, memHooks, memBuf, stackBuf, pyVars, now, terminated,
                   mainVars, sessVars, stop, histVars,
                   state, stateLock, AGENT_RUNNING, op, calls, configured, dropped, born>>

\* threads::install runs Python code, so at this step the GIL comes and goes;
\* then create_http_client.  Either may fail.
RunInstall(c) ==
    /\ At(c, "install")
    /\ Goto(c, "client") \/ Goto(c, "stop_memory")
    /\ UNCHANGED <<agentVars, state, stateLock, AGENT_RUNNING, op, calls, configured,
                   dropped, born>>

RunClient(c) ==
    /\ At(c, "client")
    /\ Goto(c, "build") \/ Goto(c, "stop_memory")
    /\ UNCHANGED <<agentVars, state, stateLock, AGENT_RUNNING, op, calls, configured,
                   dropped, born>>

\* agent.build(http_client)?.start(): only Signal::new can fail.
RunBuild(c) ==
    /\ At(c, "build")
    /\ \/ BuildAndStart /\ Goto(c, "lock_running")
       \/ Cpu = "Signal" /\ UNCHANGED agentVars /\ Goto(c, "stop_memory")
    /\ UNCHANGED <<state, stateLock, AGENT_RUNNING, op, calls, configured, dropped, born>>

RunRunning(c) ==
    /\ At(c, "running")
    /\ state' = "Running" /\ stateLock' = "free"
    /\ Goto(c, "set_flag")
    /\ UNCHANGED <<agentVars, AGENT_RUNNING, op, calls, configured, dropped, born>>

\* initialize_agent stores the flag after run and returns true.
SetFlag(c) ==
    /\ At(c, "set_flag")
    /\ AGENT_RUNNING' = TRUE /\ configured' = configured + 1
    /\ Return(c)
    /\ UNCHANGED <<agentVars, state, stateLock, calls, dropped, born>>

-----------------------------------------------------------------------------
\* stop: the match on state.  Idle is AgentNotRunning, Busy is
\* ConcurrentOperation.
StopClaim(c) ==
    /\ At(c, "claim") /\ op[c] \in {"stop", "exit"}
    /\ IF state = "Running"
       THEN state' = "Busy" /\ Goto(c, "detach") /\ UNCHANGED op
       ELSE Return(c) /\ UNCHANGED state
    /\ stateLock' = "free"
    /\ UNCHANGED <<agentVars, AGENT_RUNNING, calls, configured, dropped, born>>

\* Wrong: the agent threads are joined with the GIL held.
StopAttached(c) ==
    /\ At(c, "detach")
    /\ Goto(c, "stop")
    /\ UNCHANGED <<agentVars, state, stateLock, AGENT_RUNNING, op, calls, configured,
                   dropped, born>>

\* Wrong: the flag is cleared before the agent is gone.
StopClearsFlagFirst(c) ==
    /\ step[c] = "detach" /\ ReleaseGil(c)
    /\ Goto(c, "stop") /\ AGENT_RUNNING' = FALSE
    /\ UNCHANGED <<state, stateLock, op, calls, configured, dropped, born>>

\* py.detach, then agent.stop() up to its first join.
StopDetach(c) ==
    /\ step[c] = "detach" /\ ReleaseGil(c)
    /\ Goto(c, "stop")
    /\ UNCHANGED <<state, stateLock, AGENT_RUNNING, op, calls, configured, dropped, born>>

StopAgent(c) ==
    /\ step[c] = "stop" /\ StopBegin
    /\ Goto(c, "join")
    /\ UNCHANGED <<state, stateLock, AGENT_RUNNING, op, calls, configured, dropped, born>>

\* Wrong: the threads of the agent are not joined.
StopNoJoin(c) ==
    /\ step[c] = "join" /\ AcquireGil(c)
    /\ Goto(c, "stop_memory")
    /\ UNCHANGED <<state, stateLock, AGENT_RUNNING, op, calls, configured, dropped, born>>

\* agent.stop() returned: take the GIL back.
StopAttach(c) ==
    /\ step[c] = "join" /\ stop = "stopped" /\ AcquireGil(c)
    /\ Goto(c, "stop_memory")
    /\ UNCHANGED <<state, stateLock, AGENT_RUNNING, op, calls, configured, dropped, born>>

-----------------------------------------------------------------------------
\* stop_profilers, after a failed start as after a stop.

\* Wrong: the samples stay in the builder.
StopMemoryKeepSamples(c) ==
    /\ At(c, "stop_memory")
    /\ memHooks' = FALSE
    /\ Goto(c, "stop_stack")
    /\ UNCHANGED <<taken, cpuVars, memBuf, stackOn, stackBuf, pyVars, now, terminated,
                   mainVars, sessVars, stop, histVars,
                   state, stateLock, AGENT_RUNNING, op, calls, configured, dropped, born>>

\* memory::stop: hooks uninstalled, samples cleared.
StopMemory(c) ==
    /\ At(c, "stop_memory")
    /\ memHooks' = FALSE /\ memBuf' = {}
    /\ Goto(c, "stop_stack")
    /\ UNCHANGED <<taken, cpuVars, stackOn, stackBuf, pyVars, now, terminated, mainVars,
                   sessVars, stop, histVars,
                   state, stateLock, AGENT_RUNNING, op, calls, configured, dropped, born>>

\* Wrong: the sampler is not stopped.
StopStackSkip(c) ==
    /\ At(c, "stop_stack")
    /\ Goto(c, "clear_stack")
    /\ UNCHANGED <<agentVars, state, stateLock, AGENT_RUNNING, op, calls, configured,
                   dropped, born>>

\* stack::stop: STARTED.swap(false), and when it was set the GIL is released
\* around sampler_stop.
StopStack(c) ==
    /\ At(c, "stop_stack")
    /\ gil' = IF stackOn THEN "free" ELSE c
    /\ Goto(c, IF stackOn THEN "sampler_stop" ELSE "clear_stack")
    /\ UNCHANGED <<taken, cpuVars, profVars, finalizing, now, terminated, mainVars,
                   sessVars, stop, histVars,
                   state, stateLock, AGENT_RUNNING, op, calls, configured, dropped, born>>

SamplerStop(c) ==
    /\ step[c] = "sampler_stop"
    /\ stackOn' = FALSE
    /\ Goto(c, "attach")
    /\ UNCHANGED <<taken, cpuVars, memHooks, memBuf, stackBuf, pyVars, now, terminated,
                   mainVars, sessVars, stop, histVars,
                   state, stateLock, AGENT_RUNNING, op, calls, configured, dropped, born>>

StackAttach(c) ==
    /\ step[c] = "attach" /\ AcquireGil(c)
    /\ Goto(c, "clear_stack")
    /\ UNCHANGED <<state, stateLock, AGENT_RUNNING, op, calls, configured, dropped, born>>

\* stack's clear_samples, then interner::clear: the strings of samples are not
\* modelled.
ClearStack(c) ==
    /\ At(c, "clear_stack")
    /\ stackBuf' = {}
    /\ Goto(c, "lock_idle")
    /\ UNCHANGED <<taken, cpuVars, memHooks, memBuf, stackOn, pyVars, now, terminated,
                   mainVars, sessVars, stop, histVars,
                   state, stateLock, AGENT_RUNNING, op, calls, configured, dropped, born>>

\* state back to Idle; run returns its error, stop its success.
BackToIdle(c) ==
    /\ At(c, "idle")
    /\ state' = "Idle" /\ stateLock' = "free"
    /\ IF op[c] = "run" THEN Return(c) ELSE Goto(c, "clear_flag") /\ UNCHANGED op
    /\ UNCHANGED <<agentVars, AGENT_RUNNING, calls, configured, dropped, born>>

\* drop_agent clears the flag after stop and returns true.
ClearFlag(c) ==
    /\ At(c, "clear_flag")
    /\ AGENT_RUNNING' = FALSE /\ dropped' = dropped + 1
    /\ Return(c)
    /\ UNCHANGED <<agentVars, state, stateLock, calls, configured, born>>

-----------------------------------------------------------------------------
\* add_thread_tag and remove_thread_tag: under the lock, whatever state is,
\* they change only the ruleset.
TagThread(c) ==
    /\ At(c, "claim") /\ op[c] = "tag"
    /\ stateLock' = "free"
    /\ Return(c)
    /\ UNCHANGED <<agentVars, state, AGENT_RUNNING, calls, configured, dropped, born>>

\* After the atexit callbacks the interpreter finalizes; the GIL is not given
\* to another thread again.
Finalize(c) ==
    /\ At(c, "exiting")
    /\ finalizing' = TRUE
    /\ Goto(c, "exited")
    /\ UNCHANGED <<taken, cpuVars, profVars, gil, now, terminated, mainVars, sessVars,
                   stop, histVars,
                   state, stateLock, AGENT_RUNNING, op, calls, configured, dropped, born>>

\* The eval loop gives up and takes the GIL wherever Python code runs.
PythonCode == {"python", "install", "exiting"}
SwitchGil(c) ==
    /\ step[c] \in PythonCode
    /\ AcquireGil(c) \/ ReleaseGil(c)
    /\ UNCHANGED ffiVars

-----------------------------------------------------------------------------
RunStep(c) == \/ RunClaim(c) \/ RunMemory(c) \/ RunStack(c) \/ RunInstall(c)
              \/ RunClient(c) \/ RunBuild(c) \/ RunRunning(c) \/ SetFlag(c)
StopStep(c) == \/ StopClaim(c) \/ StopDetach(c) \/ StopAgent(c) \/ StopAttach(c)
TeardownStep(c) == \/ StopMemory(c) \/ StopStack(c) \/ SamplerStop(c) \/ StackAttach(c)
                   \/ ClearStack(c) \/ BackToIdle(c) \/ ClearFlag(c)
Native(c) == \/ LockState(c) \/ RunStep(c) \/ StopStep(c) \/ TeardownStep(c)
             \/ TagThread(c)

Next == \/ \E c \in Pythons : \/ \E o \in {"run", "stop", "tag", "exit"} : Call(c, o)
                              \/ Native(c) \/ Finalize(c) \/ SwitchGil(c)
        \/ Background /\ UNCHANGED ffiVars

\* Native code makes progress, Python code gives the GIL up, and a thread that
\* waits for the GIL gets it in the end.
Spec ==
    /\ Init /\ [][Next]_vars
    /\ Fairness
    /\ \A c \in Pythons :
         /\ SF_vars(Native(c)) /\ SF_vars(Finalize(c))
         /\ WF_vars(SwitchGil(c) /\ gil = c)
         /\ SF_vars(SwitchGil(c) /\ gil = "free" /\ step[c] # "python")

-----------------------------------------------------------------------------
\* Properties

\* The thread whose operation owns the agent: it claimed state and has not
\* given it back.
Outside == {"python", "exiting", "exited", "lock", "claim", "set_flag", "clear_flag"}
Owners == {c \in Pythons : step[c] \notin Outside}

\* Every thread, hook and sampler of an agent that may still be running.
Alive == \/ main \notin {"none", "done"} \/ SessionAlive
         \/ sampler \notin {"none", "done"} \/ memHooks \/ stackOn

\* What Lifecycle sees of it.
Phase == CASE state = "Idle" -> "off"
           [] state = "Running" -> "on"
           [] OTHER -> IF \E c \in Owners : op[c] = "run" THEN "starting" ELSE "stopping"
Owner == IF Owners = {} THEN "free" ELSE CHOOSE c \in Owners : TRUE

Promise == INSTANCE Lifecycle WITH Callers <- Pythons, Nobody <- "free",
                                   phase <- Phase, owner <- Owner, alive <- Alive

\* configure() and shutdown(), as Python threads race them against each other
\* and against the agent's own threads, implement the lifecycle of one agent.
ImplementsLifecycle == Promise!LifecycleSpec

\* Calls that succeed alternate, and what they say agrees with STATE: as many
\* shutdowns as configures, one less while an agent runs, and Busy is never
\* left behind by an error path (scripts/tests/test_concurrency.py).
Accounting ==
    /\ (state = "Busy") = (Owners # {})
    /\ \A c, d \in Owners : c = d
    /\ (\A c \in Pythons : op[c] = "none") =>
         configured - dropped = (IF state = "Running" THEN 1 ELSE 0)

\* The threads of PyroscopeAgent, and the configure() that has started the
\* stack sampler and no other thread: it registers the live threads with it, in
\* Python code, or has failed and stops it again, without the GIL.
ThreadAlive == main \notin {"none", "done"} \/ SessionAlive \/ sampler \notin {"none", "done"}
StackOnly(c) == op[c] = "run" /\ step[c] \in {"install", "sampler_stop"}

\* The flag that makes os.fork() warn is set whenever Python code runs while a
\* thread of an agent exists, although it is stored after the agent is
\* published and cleared after it is gone (lib.rs AGENT_RUNNING): but for the
\* thread of the stack sampler, which exists before its configure() has set the
\* flag.  Only in that configure(), registering threads or undoing a failed
\* start, does a fork go without the warning.
ForkIsWarned ==
    gil \in Pythons /\ step[gil] \in PythonCode =>
        /\ ThreadAlive => AGENT_RUNNING
        /\ stackOn => AGENT_RUNNING \/ \E c \in Owners : StackOnly(c)

\* No sample taken for an earlier agent is in a profile of this one, also
\* after a start that failed half way (clear_samples, and its order with the
\* end of the hooks and of the sampling thread).
NoStaleSamples ==
    stop # "stopped" => \A x \in batch \cup Samples(Stream) : x > born

\* Every call returns: no interleaving of callers, snapshot, upload and GIL
\* blocks one for ever (the deadlock described in ffikit::stop).
CallsReturn ==
    \A c \in Pythons : op[c] # "none" ~> (op[c] = "none" \/ finalizing)

\* The atexit hook stops the agent before the interpreter finalizes: when it
\* returns, no snapshot thread is left that would attach to Python.
ExitReturns(c) == op[c] = "exit" /\ op'[c] = "none"
AtExitStopsAgent ==
    [][\A c \in Pythons : ExitReturns(c) => main' \in {"none", "done"}]_vars

\* It does so unless another thread is inside configure() or shutdown() at
\* that moment, whatever that thread did before (drop_agent in at_exit).
AtExitStopsFreeAgent ==
    [][\A c \in Pythons :
         ExitReturns(c) => main' \in {"none", "done"} \/ Owners \ {c} # {}]_vars
=============================================================================
