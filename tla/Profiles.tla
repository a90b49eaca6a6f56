------------------------------ MODULE Profiles ------------------------------
(***************************************************************************)
(* The profiles of the memory and the stack profiler: recorders intern     *)
(* strings in one table they share and push samples into a builder each;   *)
(* the snapshot thread takes the profiles out; configure() and shutdown()  *)
(* start and end it all; fork() leaves a child with copies of locks that   *)
(* threads it does not have may hold, which the child's hook replaces      *)
(* (rust/src/encode/interner.rs, encode/pprof.rs, memory.rs, stack/mod.rs, *)
(* ffikit.rs, forksafety.rs, lib.rs).                                      *)
(*                                                                         *)
(* A lock that is taken and released within one step is a guard of it.     *)
(* The GIL is held by an allocator hook, by the memory dump, by the caller *)
(* of start and stop and by the hook of a child.  After a fork the model   *)
(* follows the child; no sample is taken there before its hook runs.       *)
(***************************************************************************)
EXTENDS Pprof

CONSTANTS
    Stacks,      \* the stacks that are sampled: sequences of frames
    Invalid,     \* strings that are not UTF-8
    MaxSamples   \* bound on the samples captured

ASSUME StackAssumption == Stacks \subseteq Seq(Frame) \ {<<>>}
ASSUME BoundAssumption == MaxSamples \in Nat

Kinds == {"memory", "cpu"}

VARIABLES
    table,       \* StringTable: the strings, the one with index i at i + 1
    builder,     \* PROFILE_BUILDER of each kind
    on,          \* hooks installed, sampling thread running
    rec,         \* of each recorder: the stack it is in, the ids it has got
    live,        \* allocations still live: stack and ids of their traceback
    gil,         \* "free", "hook", "dump" or "caller"
    snapshot,    \* place of the snapshot thread
    life,        \* place of the caller in configure() or shutdown()
    proc,        \* "parent", or the child in its "hook" or after it
    locked,      \* locks of threads that the child does not have
    captured,    \* number of samples so far
    recorded,    \* history: samples pushed to each builder since it was reset, by
                 \* what their stacks read as
    taken        \* history: the profile this step took, and what was recorded for it

fork == <<proc, locked>>
vars == <<table, builder, on, rec, live, gil, snapshot, life, fork, captured,
          recorded, taken>>

-----------------------------------------------------------------------------
\* What pyroscope_string_table_intern_utf8 stores for the bytes it gets.
Text(s) == IF s \in Invalid THEN "<non-utf8>" ELSE s

\* What one sample of an allocation, of the live heap and of the stack sampler
\* adds.
NoValues == [alloc_count |-> 0, alloc_space |-> 0, heap_count |-> 0, heap_space |-> 0,
             cpu_time |-> 0, wall_time |-> 0]
AllocValues == [NoValues EXCEPT !.alloc_count = 1, !.alloc_space = 1]
HeapValues  == [NoValues EXCEPT !.heap_count = 1, !.heap_space = 1]
CpuValues   == [NoValues EXCEPT !.cpu_time = 1, !.wall_time = 1]

-----------------------------------------------------------------------------
\* Recorders

Idle == [stack |-> <<>>, ids |-> <<>>]
FramesOf(r) == [i \in DOMAIN r.stack |->
                  [name |-> r.ids[2 * i - 1], file |-> r.ids[2 * i], line |-> r.stack[i].line]]
\* The frames of a traceback as a reader of a profile sees them.
Shown(r) == [i \in DOMAIN r.stack |->
               [name |-> Text(r.stack[i].name), file |-> Text(r.stack[i].file),
                line |-> r.stack[i].line]]
Interned(r) == r.stack # <<>> /\ Len(r.ids) = Len(Strings(r.stack))

Init ==
    /\ table = NewTable /\ builder = [k \in Kinds |-> NewBuilder]
    /\ on = [k \in Kinds |-> FALSE] /\ rec = [k \in Kinds |-> Idle] /\ live = {}
    /\ gil = "free" /\ snapshot = "none" /\ life = "off"
    /\ proc = "parent" /\ locked = {} /\ captured = 0
    /\ recorded = [k \in Kinds |-> <<>>] /\ taken = <<>>

NoProfile == taken' = <<>>

\* The dump holds the lock of the table, or of a builder, or a fork left it
\* locked.
InDump(k) == snapshot = (IF k = "memory" THEN "memory_take" ELSE "cpu_take")
TableInUse == snapshot \in {"memory_table", "memory_take", "cpu_table", "cpu_take"}
TableLocked == TableInUse \/ "table" \in locked
BuilderLocked(k) == InDump(k) \/ k \in locked

\* An allocator hook, which runs with the GIL held, or the sampling thread
\* meets a stack.
Capture(k) ==
    /\ on[k] /\ rec[k] = Idle /\ proc # "hook" /\ captured < MaxSamples
    /\ captured' = captured + 1
    /\ k = "memory" => gil = "free"
    /\ gil' = IF k = "memory" THEN "hook" ELSE gil
    /\ \E s \in Stacks : rec' = [rec EXCEPT ![k].stack = s]
    /\ UNCHANGED <<table, builder, on, live, snapshot, life, fork, recorded>> /\ NoProfile

\* pyroscope_string_table_intern_utf8, for the next name of the stack.
Intern(k) ==
    /\ rec[k].stack # <<>> /\ ~Interned(rec[k]) /\ ~TableLocked
    /\ LET s == Text(Strings(rec[k].stack)[Len(rec[k].ids) + 1])
       IN  /\ table' = add(table, s)
           /\ rec' = [rec EXCEPT ![k].ids = Append(@, IndexOf(add(table, s), s))]
    /\ UNCHANGED <<builder, on, live, gil, snapshot, life, fork, captured, recorded>> /\ NoProfile

\* A builder with what is recorded for it, and one sample of the traceback r more.
Both(k) == [builder |-> builder[k], recorded |-> recorded[k]]
Sampled(p, r, v) == [builder  |-> add_ffi_sample(p.builder, FramesOf(r), v),
                     recorded |-> Accumulate(p.recorded, Shown(r), v)]
Push(k, p) == /\ builder' = [builder EXCEPT ![k] = p.builder]
              /\ recorded' = [recorded EXCEPT ![k] = p.recorded]

\* pyroscope_push_sample; the allocation of a memory sample stays live, or is
\* gone before the next snapshot.
PushSample(k) ==
    /\ Interned(rec[k]) /\ ~BuilderLocked(k)
    /\ LET v == IF k = "memory" THEN AllocValues ELSE CpuValues
       IN  Push(k, Sampled(Both(k), rec[k], value_slots(k, v)))
    /\ rec' = [rec EXCEPT ![k] = Idle]
    /\ IF k = "memory"
       THEN gil' = "free" /\ live' \in {live, live \cup {rec[k]}}
       ELSE UNCHANGED <<gil, live>>
    /\ UNCHANGED <<table, on, snapshot, life, fork, captured>> /\ NoProfile

\* A live allocation is freed, by a Python thread.
Free ==
    /\ gil = "free" /\ \E r \in live : live' = live \ {r}
    /\ UNCHANGED <<table, builder, on, rec, gil, snapshot, life, fork, captured, recorded>> /\ NoProfile

-----------------------------------------------------------------------------
\* memory::dump_pprof, then stack::dump_pprof, in the snapshot thread.

At(s, t) == snapshot = s /\ snapshot' = t

\* Python::try_attach.
DumpAttach ==
    /\ At("wait", "memory_heap") /\ gil = "free" /\ gil' = "dump"
    /\ UNCHANGED <<table, builder, on, rec, live, life, fork, captured, recorded>> /\ NoProfile

\* memalloc_heap_py pushes one sample for each live allocation; each push
\* takes and releases the lock of the builder.
HeapSample(p, r) == Sampled(p, r, value_slots("memory", HeapValues))

HeapSamples ==
    /\ At("memory_heap", "memory_lock") /\ ~BuilderLocked("memory")
    /\ Push("memory", FoldLeft(HeapSample, Both("memory"), SetToSeq(live)))
    /\ UNCHANGED <<table, on, rec, live, gil, life, fork, captured>> /\ NoProfile

\* The lock of the table first, then the lock of the builder: the other
\* holders of either release it within their step.
LockTable ==
    /\ At("memory_lock", "memory_table") \/ At("cpu_lock", "cpu_table")
    /\ "table" \notin locked
    /\ UNCHANGED <<table, builder, on, rec, live, gil, life, fork, captured, recorded>> /\ NoProfile

LockBuilder ==
    /\ \/ At("memory_table", "memory_take") /\ "memory" \notin locked
       \/ At("cpu_table", "cpu_take") /\ "cpu" \notin locked
    /\ UNCHANGED <<table, builder, on, rec, live, gil, life, fork, captured, recorded>> /\ NoProfile

\* set_profile_type, and take_profile_and_reset, whose clone_pprof_table copies
\* the strings.
Take(k) ==
    LET flushed == flush_ffi_samples(builder[k])
    IN  /\ table' = set_profile_type(table, k)
        /\ taken' = IF flushed.sample = <<>> THEN <<>>
                    ELSE [kind |-> k, pprof |-> flushed, string_table |-> table',
                          types |-> TypeIds(table', k), expected |-> recorded[k]]
        /\ builder' = [builder EXCEPT ![k] = reset(flushed)]
        /\ recorded' = [recorded EXCEPT ![k] = <<>>]
        /\ UNCHANGED <<on, rec, live, life, fork, captured>>

TakeMemory == At("memory_take", "cpu_lock") /\ gil' = "free" /\ Take("memory")
TakeCpu == At("cpu_take", "wait") /\ UNCHANGED gil /\ Take("cpu")

-----------------------------------------------------------------------------
\* configure() and shutdown()

Goto(a, b) == life = a /\ life' = b

\* memory::start, with the GIL held from here to the end of the call except
\* where the stack sampler registers the threads.
StartMemory ==
    /\ Goto("off", "start_stack") /\ gil = "free"
    /\ gil' = "caller"
    /\ on' = [on EXCEPT !["memory"] = TRUE]
    /\ UNCHANGED <<table, builder, rec, live, snapshot, fork, captured, recorded>> /\ NoProfile

\* stack::start; threads::install runs Python code.
StartStack ==
    /\ Goto("start_stack", "install")
    /\ on' = [on EXCEPT !["cpu"] = TRUE]
    /\ gil' = "free"
    /\ UNCHANGED <<table, builder, rec, live, snapshot, fork, captured, recorded>> /\ NoProfile

StartAgent ==
    /\ Goto("install", "on") /\ gil = "free"
    /\ snapshot' = "wait"
    /\ UNCHANGED <<table, builder, on, rec, live, gil, fork, captured, recorded>> /\ NoProfile

\* A start that fails before or after the stack sampler started goes to
\* stop_profilers.
StartFails ==
    /\ \/ Goto("start_stack", "stop_memory") /\ UNCHANGED gil
       \/ Goto("install", "stop_memory") /\ gil = "free" /\ gil' = "caller"
    /\ UNCHANGED <<table, builder, on, rec, live, snapshot, fork, captured, recorded>> /\ NoProfile

\* ffikit::stop waits, without the GIL, for the end of the last snapshot, then
\* takes the GIL back.
JoinSnapshot ==
    /\ Goto("on", "attach") /\ At("wait", "none")
    /\ UNCHANGED <<table, builder, on, rec, live, gil, fork, captured, recorded>> /\ NoProfile

Attach ==
    /\ Goto("attach", "stop_memory") /\ gil = "free" /\ gil' = "caller"
    /\ UNCHANGED <<table, builder, on, rec, live, snapshot, fork, captured, recorded>> /\ NoProfile

ClearSamples(k) ==
    /\ ~BuilderLocked(k)
    /\ builder' = [builder EXCEPT ![k] = reset(@)]
    /\ recorded' = [recorded EXCEPT ![k] = <<>>]

\* Wrong: each profiler clears the table when it stops.
StopMemoryClearsTable ==
    /\ Goto("stop_memory", "stop_stack")
    /\ on' = [on EXCEPT !["memory"] = FALSE] /\ live' = {}
    /\ ClearSamples("memory")
    /\ table' = NewTable
    /\ UNCHANGED <<rec, gil, snapshot, fork, captured>> /\ NoProfile

\* memory::stop; memalloc_stop forgets the tracebacks it holds.
StopMemory ==
    /\ Goto("stop_memory", "stop_stack")
    /\ on' = [on EXCEPT !["memory"] = FALSE] /\ live' = {}
    /\ ClearSamples("memory")
    /\ UNCHANGED <<table, rec, gil, snapshot, fork, captured>> /\ NoProfile

\* stack::stop, when it had started, gives up the GIL and waits for the
\* sampling thread to end the sample it is in.
StopStack ==
    /\ \/ on["cpu"] /\ Goto("stop_stack", "sampler_stop") /\ gil' = "free"
       \/ ~on["cpu"] /\ Goto("stop_stack", "clear") /\ UNCHANGED gil
    /\ on' = [on EXCEPT !["cpu"] = FALSE]
    /\ UNCHANGED <<table, builder, rec, live, snapshot, fork, captured, recorded>> /\ NoProfile

SamplerStop ==
    /\ Goto("sampler_stop", "clear") /\ rec["cpu"] = Idle
    /\ gil = "free" /\ gil' = "caller"
    /\ UNCHANGED <<table, builder, on, rec, live, snapshot, fork, captured, recorded>> /\ NoProfile

\* stack's clear_samples, then interner::clear, the last of stop_profilers.
ClearStack ==
    /\ Goto("clear", "clear_table")
    /\ ClearSamples("cpu")
    /\ UNCHANGED <<table, on, rec, live, gil, snapshot, fork, captured>> /\ NoProfile

ClearTable ==
    /\ Goto("clear_table", "off") /\ ~TableLocked
    /\ table' = NewTable /\ gil' = "free"
    /\ proc' = IF proc = "hook" THEN "child" ELSE proc
    /\ UNCHANGED <<builder, on, rec, live, snapshot, locked, captured, recorded>> /\ NoProfile

-----------------------------------------------------------------------------
\* fork()

\* Locks that the sampling thread may hold, in the middle of a step.
SamplerLocks ==
    IF rec["cpu"] = Idle THEN {} ELSE IF Interned(rec["cpu"]) THEN {"cpu"} ELSE {"table"}

\* Some Python thread calls fork() with the GIL held; it is the only thread of
\* the child.
Fork ==
    /\ proc = "parent" /\ gil = "free"
    /\ proc' = "hook" /\ life' = "hook_memory" /\ gil' = "caller"
    /\ LET dump == (IF TableInUse THEN {"table"} ELSE {}) \cup {k \in Kinds : InDump(k)}
       IN  \E held \in SUBSET SamplerLocks : locked' = dump \cup held
    /\ snapshot' = "none" /\ rec' = [rec EXCEPT !["cpu"] = Idle]
    /\ UNCHANGED <<table, builder, on, live, captured, recorded>> /\ NoProfile

\* LeakableMutex::leak_and_reset of the builder of k.
LeakBuilder(k) ==
    /\ builder' = [builder EXCEPT ![k] = NewBuilder] /\ locked' = locked \ {k}
    /\ recorded' = [recorded EXCEPT ![k] = <<>>]
    /\ UNCHANGED <<table, on, rec, live, gil, snapshot, proc, captured>> /\ NoProfile

\* at_fork_after_in_child, up to its stop_profilers: memory::postfork_child,
\* stack::postfork_child, interner::postfork_child.
HookMemory == Goto("hook_memory", "hook_stack") /\ LeakBuilder("memory")
HookStack  == Goto("hook_stack", "hook_table") /\ LeakBuilder("cpu")

\* Wrong: the string table is only cleared, by stop_profilers.
HookTableSkipped ==
    /\ Goto("hook_table", "stop_memory")
    /\ UNCHANGED <<table, builder, on, rec, live, gil, snapshot, fork, captured, recorded>> /\ NoProfile

\* Wrong: the hook replaces the locks and leaves the profilers as they are.
HookTableReturns ==
    /\ Goto("hook_table", "off")
    /\ table' = NewTable /\ locked' = locked \ {"table"}
    /\ proc' = "child" /\ gil' = "free"
    /\ UNCHANGED <<builder, on, rec, live, snapshot, captured, recorded>> /\ NoProfile

HookTable ==
    /\ Goto("hook_table", "stop_memory")
    /\ table' = NewTable /\ locked' = locked \ {"table"}
    /\ UNCHANGED <<builder, on, rec, live, gil, snapshot, proc, captured, recorded>> /\ NoProfile

Next ==
    \/ \E k \in Kinds : Capture(k) \/ Intern(k) \/ PushSample(k)
    \/ Free
    \/ DumpAttach \/ HeapSamples \/ LockTable \/ LockBuilder \/ TakeMemory \/ TakeCpu
    \/ StartMemory \/ StartStack \/ StartAgent \/ StartFails
    \/ JoinSnapshot \/ Attach \/ StopMemory \/ StopStack \/ SamplerStop
    \/ ClearStack \/ ClearTable
    \/ Fork \/ HookMemory \/ HookStack \/ HookTable

Spec == Init /\ [][Next]_vars

-----------------------------------------------------------------------------
\* Properties

Value == 0 .. MaxValue

\* No string is in the table twice, and index 0 is the empty one.
TableOK == IsInjective(table) /\ table[1] = ""

\* Every variable has its type; values stay inside i64, no string and no
\* mirror is stored twice.
TypeOK ==
    /\ TableOK
    /\ \A k \in Kinds :
         /\ IsInjective(builder[k].functions) /\ IsInjective(builder[k].locations)
         /\ \A r \in DOMAIN builder[k].rows : Range(builder[k].rows[r]) \subseteq Value
         /\ Len(rec[k].ids) =< Len(Strings(rec[k].stack))
    /\ on \in [Kinds -> BOOLEAN]
    /\ gil \in {"free", "hook", "dump", "caller"}
    /\ snapshot \in {"none", "wait", "memory_heap", "memory_lock", "memory_table",
                     "memory_take", "cpu_lock", "cpu_table", "cpu_take"}
    /\ life \in {"off", "start_stack", "install", "on", "attach", "stop_memory",
                 "stop_stack", "sampler_stop", "clear", "clear_table",
                 "hook_memory", "hook_stack", "hook_table"}
    /\ proc \in {"parent", "hook", "child"} /\ locked \subseteq Kinds \cup {"table"}
    /\ captured \in 0 .. MaxSamples

\* An id that was handed out still stands for the string it was given for, in
\* every upload window and while any profiler is being stopped: the ids of a
\* sample being taken and those live tracebacks hold (interner::clear and its
\* place in stop_profilers).  A child keeps none past its hook.
HeldIdsResolve ==
    proc # "hook" => \A r \in {rec[k] : k \in Kinds} \cup live : \A i \in DOMAIN r.ids :
        r.ids[i] < Len(table) /\ table[r.ids[i] + 1] = Text(Strings(r.stack)[i])

\* Without an agent nothing of the one before is left that the next one would
\* report or resolve: after shutdown() or a failed configure(), with a dump or a
\* sample in progress when it began, and in a child that was forked at any
\* moment of these (stop_profilers, at_fork_after_in_child).
OffIsClean ==
    life = "off" =>
        /\ table = NewTable /\ \A k \in Kinds : builder[k] = NewBuilder
        /\ on = [k \in Kinds |-> FALSE] /\ rec = [k \in Kinds |-> Idle] /\ live = {}
        /\ gil # "dump" /\ snapshot = "none"

\* The locks the next step of the hook or of a call takes.
Wanted ==
    CASE life = "stop_memory" -> {"memory"}
      [] life = "clear"       -> {"cpu"}
      [] life = "clear_table" -> {"table"}
      [] OTHER                -> IF on["memory"] \/ on["cpu"] THEN Kinds \cup {"table"} ELSE {}

\* The child never waits for a lock that a thread it does not have held when it
\* was forked: its hook replaces each lock before anything takes it (the order
\* of at_fork_after_in_child).
NoInheritedWait ==
    (proc = "child" \/ life \in {"stop_memory", "clear", "clear_table"})
        => Wanted \cap locked = {}

\* A profile that is taken reads as what was recorded for it since the last
\* one: each stack once, under its own names, with the sum of its values, and
\* its types by their names.  Other threads may intern and push meanwhile
\* (take_profile_and_reset, clone_pprof_table, reset).
ProfileFaithful ==
    taken # <<>> =>
        LET samples == taken.pprof.sample
        IN  /\ SeenTypes(taken) = Types[taken.kind]
            /\ Len(samples) = Cardinality(DOMAIN taken.expected)
            /\ \A i \in DOMAIN samples :
                 /\ Resolves(taken, samples[i])
                 /\ \E s \in DOMAIN taken.expected :
                      /\ Seen(taken, samples[i]).frames = s
                      /\ samples[i].value = taken.expected[s]
=============================================================================
