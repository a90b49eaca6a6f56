--------------------------- MODULE ThreadRegistry ---------------------------
(***************************************************************************)
(* Which threads the CTimer samples: the hooks on threading.Thread that    *)
(* _install_stack_threads sets (python/pyroscope/__init__.py), LIVE and    *)
(* TIMER of signal_backend::threads, and the timers of a CTimer session    *)
(* (crates/signal-timer).                                                  *)
(*                                                                         *)
(* Python threads start and end at any time; idents and native ids are     *)
(* used again by later threads.  Python code runs with the GIL, which may  *)
(* change hands between any two of its steps, but not inside a native      *)
(* function.  The sampler thread, which ends a session, needs no GIL.      *)
(* After a fork, of a process without a session, the model follows the     *)
(* child.                                                                  *)
(***************************************************************************)
EXTENDS FiniteSets

CONSTANTS
    Threads,   \* Python threads, each runs once
    Idents,    \* values of threading.get_ident()
    Tids,      \* native ids
    None

\* A native function between its two halves: register_thread between LIVE.insert
\* and the lock of TIMER, unregister_thread between LIVE.remove and that lock.
NativeCalls == [do : {"unregister"}, tid : Tids]
                 \cup [do : {"register"}, tid : Tids, previous : Tids \cup {None}]

ASSUME NoneAssumption == None \notin Threads \cup Idents \cup Tids \cup NativeCalls

VARIABLES
    py310,              \* sys.version_info < (3, 11)
    pc, ident, tid,     \* of each thread: its place in _bootstrap_inner, its ids
    native_id,          \* Thread.native_id, which may be the one in the parent
    wrapped,            \* threads that were started with our _bootstrap_inner
    exitHook,           \* Thread._delete, or _bootstrap_inner of 3.10, is ours
    startHook,          \* Thread._set_native_id is ours
    inst, caller, snap, \* threads::install: its place, its thread, list(_active.items())
    forked,             \* this is a child
    live,               \* LIVE: native id of each ident, None if absent
    native,             \* the native function that runs: what is left for it to do
    slot,               \* TIMER is Some
    session,            \* "off", "on" or "detached"
    timers,             \* Backend::CTimer: the thread whose clock a timer of a tid runs on
    raced               \* history: a thread fell into a window of the installation

threadVars == <<pc, ident, tid, native_id, wrapped>>
instVars == <<inst, caller, snap>>
hookVars == <<exitHook, startHook, instVars>>
procVars == <<py310, forked>>
sessVars == <<slot, session, timers>>
vars == <<threadVars, hookVars, procVars, live, native, sessVars, raced>>

Idle == native = None

\* A thread that the kernel knows, with its ids in use.
Exists(n) == pc[n] \notin {"new", "ended"}
Of(t) == {n \in Threads : Exists(n) /\ tid[n] = t}

Init ==
    /\ py310 \in BOOLEAN /\ forked = FALSE
    /\ native_id = [n \in Threads |-> None] /\ wrapped = {}
    /\ pc = [n \in Threads |-> "new"]
    /\ ident = [n \in Threads |-> None] /\ tid = [n \in Threads |-> None]
    /\ exitHook = FALSE /\ startHook = FALSE
    /\ inst = "off" /\ caller = None /\ snap = {}
    /\ live = [i \in Idents |-> None] /\ native = None
    /\ slot = FALSE /\ session = "off" /\ timers = [t \in Tids |-> None]
    /\ raced = FALSE

-----------------------------------------------------------------------------
\* Timer::thread_created: nothing when the tid has a timer already; the kernel
\* refuses a thread that is gone.
thread_created(ts, t) ==
    [ts EXCEPT ![t] = IF ts[t] # None \/ Of(t) = {} THEN ts[t]
                      ELSE CHOOSE n \in Of(t) : TRUE]

thread_removed(ts, t) == [ts EXCEPT ![t] = None]

\* register_thread, first half: LIVE.insert.
InsertLive(i, t) ==
    /\ live' = [live EXCEPT ![i] = t]
    /\ native' = [do |-> "register", tid |-> t, previous |-> live[i]]

\* register_thread, second half, under the lock of TIMER.
RegisterTimer ==
    /\ native # None /\ native.do = "register"
    /\ LET p == native.previous
           removed == IF p \notin {None, native.tid} THEN thread_removed(timers, p) ELSE timers
       IN  timers' = IF slot THEN thread_created(removed, native.tid) ELSE timers
    /\ native' = None
    /\ UNCHANGED <<threadVars, hookVars, procVars, live, slot, session, raced>>

\* Wrong: an ident that is not in LIVE is not told apart.
RemoveLiveUnchecked(i) ==
    /\ live' = [live EXCEPT ![i] = None]
    /\ native' = [do |-> "unregister", tid |-> live[i]]

\* unregister_thread, first half: LIVE.remove, None returns at once.
RemoveLive(i) ==
    /\ live' = [live EXCEPT ![i] = None]
    /\ native' = IF live[i] = None THEN None ELSE [do |-> "unregister", tid |-> live[i]]

UnregisterTimer ==
    /\ native # None /\ native.do = "unregister"
    /\ timers' = IF slot THEN thread_removed(timers, native.tid) ELSE timers
    /\ native' = None
    /\ UNCHANGED <<threadVars, hookVars, procVars, live, slot, session, raced>>

-----------------------------------------------------------------------------
\* A thread of the threading module: _bootstrap_inner

Begin(n) ==
    /\ Idle /\ pc[n] = "new"
    /\ \E i \in Idents, t \in Tids :
         /\ \A m \in Threads : Exists(m) => ident[m] # i /\ tid[m] # t
         /\ ident' = [ident EXCEPT ![n] = i] /\ tid' = [tid EXCEPT ![n] = t]
    /\ pc' = [pc EXCEPT ![n] = "boot"]
    /\ wrapped' = IF py310 /\ exitHook THEN wrapped \cup {n} ELSE wrapped
    /\ UNCHANGED native_id
    /\ UNCHANGED <<hookVars, procVars, live, native, sessVars, raced>>

\* self._set_native_id(), the original or ours.
SetNativeId(n) ==
    /\ Idle /\ pc[n] = "boot"
    /\ pc' = [pc EXCEPT ![n] = "named"]
    /\ native_id' = [native_id EXCEPT ![n] = tid[n]]
    /\ IF startHook THEN InsertLive(ident[n], tid[n]) ELSE UNCHANGED <<live, native>>
    /\ UNCHANGED <<ident, tid, wrapped, hookVars, procVars, sessVars, raced>>

\* _active[self._ident] = self
EnterActive(n) ==
    /\ Idle /\ pc[n] = "named"
    /\ pc' = [pc EXCEPT ![n] = "active"]
    /\ UNCHANGED <<ident, tid, native_id, wrapped, hookVars, procVars, live, native, sessVars, raced>>

\* A thread of 3.10 that runs the original _bootstrap_inner is not unregistered.
LeavesHooked(n) == IF py310 THEN n \in wrapped ELSE exitHook

\* The thread leaves _active: self._delete(), the original or, with unregister
\* to follow, ours; in 3.10 the end of _bootstrap_inner.
Delete(n) ==
    /\ Idle /\ pc[n] = "active" /\ n # caller
    /\ pc' = [pc EXCEPT ![n] = IF LeavesHooked(n) THEN "unregister" ELSE "ended"]
    /\ raced' = \/ raced \/ n \in snap
                \/ py310 /\ ~LeavesHooked(n) /\ live[ident[n]] = tid[n]
    /\ UNCHANGED <<ident, tid, native_id, wrapped, hookVars, procVars, live, native, sessVars>>

\* The finally of our _delete.
Unregister(n) ==
    /\ Idle /\ pc[n] = "unregister"
    /\ RemoveLive(ident[n])
    /\ pc' = [pc EXCEPT ![n] = "exiting"]
    /\ UNCHANGED <<ident, tid, native_id, wrapped, hookVars, procVars, sessVars, raced>>

\* The thread ends; its ident and its native id are free.
End(n) ==
    /\ Idle /\ pc[n] = "exiting"
    /\ pc' = [pc EXCEPT ![n] = "ended"]
    /\ UNCHANGED <<ident, tid, native_id, wrapped, hookVars, procVars, live, native, sessVars, raced>>

-----------------------------------------------------------------------------
\* threads::install

Goto(a, b) == Idle /\ inst = a /\ inst' = b

\* configure() is called by a thread of the module or by one that ends with the
\* process.
Callers == {None} \cup {n \in Threads : pc[n] = "active"}

\* Thread._delete = _delete, the first hook; in 3.10 the second one is
\* Thread._bootstrap_inner.
InstallExitHook ==
    /\ IF py310 THEN Goto("exit_hook", "list") /\ UNCHANGED caller
       ELSE Goto("off", "start_hook") /\ caller' \in Callers
    /\ exitHook' = TRUE
    /\ UNCHANGED <<threadVars, startHook, snap, procVars, live, native, sessVars, raced>>

\* Thread._set_native_id = _set_native_id
InstallStartHook ==
    /\ IF py310 THEN Goto("off", "exit_hook") /\ caller' \in Callers
       ELSE Goto("start_hook", "list") /\ UNCHANGED caller
    /\ startHook' = TRUE
    /\ UNCHANGED <<threadVars, exitHook, snap, procVars, live, native, sessVars, raced>>

\* Wrong: a child keeps the threads of its parent.
RefreshKeepsLive ==
    /\ Goto("stale", "list") /\ caller' \in Callers
    /\ raced' = FALSE
    /\ UNCHANGED <<threadVars, exitHook, startHook, snap, procVars, live, native, sessVars>>

\* PROCESS_ID is of the parent: LIVE is cleared, then filled again.
Refresh ==
    /\ Goto("stale", "list") /\ caller' \in Callers
    /\ live' = [i \in Idents |-> None] /\ raced' = FALSE
    /\ UNCHANGED <<threadVars, exitHook, startHook, snap, procVars, native, sessVars>>

\* list(threading._active.items())
ListActive ==
    /\ Goto("list", "loop")
    /\ snap' = {n \in Threads : pc[n] = "active"}
    /\ raced' = (raced \/ \E n \in Threads : pc[n] = "named" /\ live[ident[n]] # tid[n])
    /\ UNCHANGED <<threadVars, exitHook, startHook, caller, procVars, live, native, sessVars>>

\* One turn of the loop over that list.
RegisterListed ==
    /\ Idle /\ inst = "loop"
    /\ \E n \in snap :
         LET t == IF n = caller THEN tid[n] ELSE native_id[n]
         IN  /\ InsertLive(ident[n], t)
             /\ snap' = snap \ {n} /\ raced' = (raced \/ t # tid[n])
    /\ UNCHANGED <<threadVars, exitHook, startHook, inst, caller, procVars, sessVars>>

\* INSTALLED.set, PROCESS_ID.store
Installed ==
    /\ Goto("loop", "done") /\ snap = {}
    /\ caller' = None
    /\ UNCHANGED <<threadVars, exitHook, startHook, snap, procVars, live, native, sessVars, raced>>

-----------------------------------------------------------------------------
\* A CTimer session

\* threads::attach, in configure: the caller (a thread of the module, or one
\* that ends with the process) is put in LIVE and armed, and so are the others;
\* the error of arming the caller drops the session.
Attach ==
    /\ Idle /\ inst = "done" /\ session = "off"
    /\ \E n \in Callers :
         live' = IF n = None THEN live ELSE [live EXCEPT ![ident[n]] = tid[n]]
    /\ \/ /\ slot' = TRUE /\ session' = "on"
          /\ timers' = [t \in Tids |-> IF \E i \in Idents : live'[i] = t
                                       THEN thread_created(timers, t)[t] ELSE None]
       \/ UNCHANGED sessVars
    /\ UNCHANGED <<threadVars, hookVars, procVars, native, raced>>

\* threads::detach, in the sampler thread.
Detach ==
    /\ session = "on"
    /\ slot' = FALSE /\ session' = "detached"
    /\ UNCHANGED <<threadVars, hookVars, procVars, live, native, timers, raced>>

\* Wrong: the timers of the session stay in the map of the next one.
DropTimersKeep ==
    /\ session = "detached"
    /\ session' = "off"
    /\ UNCHANGED <<threadVars, hookVars, procVars, live, native, slot, timers, raced>>

\* drop(session): the timers are deleted with the Timer.
DropTimers ==
    /\ session = "detached"
    /\ timers' = [t \in Tids |-> None] /\ session' = "off"
    /\ UNCHANGED <<threadVars, hookVars, procVars, live, native, slot, raced>>

-----------------------------------------------------------------------------
\* fork(), while no session runs (shutdown-before-fork leaves no active timer).
\* The thread that calls it is the only one of the child and gets a new native
\* id there; older Pythons keep the old one in Thread.native_id.  An installation
\* that the fork cut short starts again and wraps the hooks twice, which runs
\* each native function twice with the same arguments.
Fork ==
    /\ Idle /\ ~forked /\ session = "off"
    /\ \E n \in IF inst \in {"off", "done"} THEN Callers ELSE Callers \ {caller} :
         /\ pc' = [m \in Threads |-> IF m # n /\ Exists(m) THEN "ended" ELSE pc[m]]
         /\ \/ n = None /\ UNCHANGED <<tid, native_id>>
            \/ \E t \in Tids : /\ n # None /\ t # tid[n]
                               /\ tid' = [tid EXCEPT ![n] = t]
                               /\ native_id' \in {native_id, [native_id EXCEPT ![n] = t]}
    /\ forked' = TRUE
    /\ inst' = IF inst = "done" THEN "stale" ELSE "off"
    /\ caller' = None /\ snap' = {}
    /\ raced' = (raced \/ \E i \in Idents : live[i] # None)
    /\ UNCHANGED <<ident, wrapped, exitHook, startHook, py310, live, native, sessVars>>

-----------------------------------------------------------------------------
ThreadStep(n) == \/ Begin(n) \/ SetNativeId(n) \/ EnterActive(n) \/ Delete(n)
                 \/ Unregister(n) \/ End(n)
Install == \/ InstallExitHook \/ InstallStartHook \/ Refresh \/ ListActive
           \/ RegisterListed \/ Installed
Next == \/ RegisterTimer \/ UnregisterTimer \/ Install \/ Attach \/ Detach \/ DropTimers
        \/ Fork
        \/ \E n \in Threads : ThreadStep(n)

Spec == Init /\ [][Next]_vars

-----------------------------------------------------------------------------
\* Properties

\* Every variable has its type.
TypeOK ==
    /\ pc \in [Threads -> {"new", "boot", "named", "active", "unregister", "exiting",
                           "ended"}]
    /\ ident \in [Threads -> Idents \cup {None}] /\ tid \in [Threads -> Tids \cup {None}]
    /\ native_id \in [Threads -> Tids \cup {None}] /\ wrapped \subseteq Threads
    /\ {py310, forked, exitHook, startHook, slot, raced} \subseteq BOOLEAN
    /\ inst \in {"off", "start_hook", "exit_hook", "list", "loop", "done", "stale"}
    /\ caller \in Threads \cup {None} /\ snap \subseteq Threads
    /\ live \in [Idents -> Tids \cup {None}]
    /\ native \in {None} \cup NativeCalls
    /\ session \in {"off", "on", "detached"}
    /\ timers \in [Tids -> Threads \cup {None}]

\* Threads between the two hooks; those in the finally are on their way out.
Running == {n \in Threads : pc[n] \in {"named", "active"}}
Leaving == {n \in Threads : pc[n] = "unregister"}

\* Once the hooks are installed, LIVE is exactly the threads that run, although
\* threads came and went during the installation, and so it is in a child once
\* it was refreshed.  The exceptions, which raced counts, are the windows of the
\* installation: a thread named before its hook, or before LIVE was cleared, and
\* not yet in _active when that is listed; one that ended between the listing
\* and its turn in the loop; one of 3.10 that began before _bootstrap_inner was
\* replaced and is not unregistered; a fork in the middle of the installation;
\* and, in the child of an older Python, the native id of the parent when a
\* thread other than the one that forked calls configure().
LiveIsExact ==
    ~raced /\ inst = "done" /\ Idle =>
        /\ \A n \in Running : live[ident[n]] = tid[n]
        /\ \A i \in Idents : live[i] # None =>
             \E n \in Running \cup Leaving : ident[n] = i /\ tid[n] = live[i]

\* While a session runs, every thread in LIVE has a timer on its own clock, and
\* no timer is left of a thread that is gone: not after a restart of the
\* session, and not when idents and native ids are used again.
SampledIffRunning ==
    ~raced /\ slot /\ Idle =>
        /\ \A n \in Running : timers[tid[n]] = n
        /\ \A t \in Tids : timers[t] # None => timers[t] \in Running \cup Leaving
=============================================================================
