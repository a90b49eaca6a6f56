# TLA+ models of pyroscope-python

This directory is a verification development for the native part of
pyroscope-python: TLA+ modules that model its concurrent core, TLC
configurations that check them on small instances, and TLAPS proofs that hold
for every instance. Paths below are relative to the repository root.

## 1. Inventory

### The parts and how they interact

`configure()` (python/pyroscope/__init__.py) calls `initialize_agent` in
rust/src/lib.rs, which builds a `PyroscopeAgentBuilder` and hands it to
`ffikit::run`. One agent per process is kept in `ffikit::STATE`. A running
agent has up to four kinds of threads:

| thread | code | talks to |
|---|---|---|
| Python callers | lib.rs, ffikit.rs | STATE (mutex), AGENT_RUNNING (atomic), the GIL |
| sampler of the CPU backend | pyspy_backend.rs, signal_backend.rs, or the vendored stack sampler | a `StackBuffer` or `PProfBuilder` behind a mutex |
| main (snapshot) thread | pyroscope.rs | reads the buffers, attaches to Python for the memory flush, sends sessions over a channel of 10 |
| session thread | session.rs | receives sessions, uploads each with a timeout of 10 s |

| part | state | operations | what is hard | what makes it correct |
|---|---|---|---|---|
| ring buffer (rust/crates/ringbuffer) | slots, head, tail, two try-locks | push_slice in signal handlers, pop_slice in one thread | no locks, stale loads, wrap-around of the index | no data race, FIFO of whole records, no panic |
| agent (pyroscope.rs, session.rs, utils.rs) | terminate channel, stop watch, session channel | start, snapshot, push, stop | blocking sends while stop() joins, clock steps, threads that end early | no sample lost or counted twice, stop() flushes and returns, ranges do not overlap |
| lifecycle (ffikit.rs, lib.rs) | STATE, AGENT_RUNNING | run, stop, tags, at_exit, fork hooks | callers race, the GIL, failure half way through a start | one agent at a time, nothing left running, every call returns |
| memory profiler (memory.rs) | allocator hooks (C), builder | start, stop, push_sample, dump_pprof, postfork_child | hooks run under the GIL, the flush attaches | no stale samples, no attach to a finalizing interpreter |
| stack profiler (stack/) | sampling thread (C++), builders, options | start, stop, push_sample, dump_pprof, postfork_child | sampling thread outlives a failed start | stopped whenever the agent is off |
| signal profiler (signal_backend.rs, signal_sampler.rs, crates/signal-timer) | SIGPROF action, timers, ring, drop counters | handler, drain, report, session start and drop | handlers interrupt anything, signals pending after the timer | every tick accounted for once, no fatal signal, stop ends |
| unwinder walk and resolution (crates/python-unwind, signal_sampler/resolve.rs) | the slice of the handler, raw traces | walk, instruction_offset, resolve_stack | reads that fail anywhere, loops, tagged pointers | a published stack is complete, a drop has its cause, the handler returns |
| thread registry (signal_backend::threads, __init__.py hooks) | LIVE, TIMER, hooks on threading.Thread | register, unregister, install, refresh after fork, attach, detach | threads start and end meanwhile, ids are used again, a child inherits the ids of its parent | exactly the running threads are sampled |
| thread tags (backend/ruleset.rs, tag_wrapper) | ruleset of the agent | add, remove, apply to a trace | tags change between the sample and its labelling, agents come and go inside a block | no tag outlives its block, labels are true |
| stack buffers and reports (backend/types.rs) | StackBuffer, Report | record, take, From<StackBuffer> | reports are keyed by a hash | the profile is what was recorded |
| string interner and encoding (encode/) | string table, builders with function and location mirrors | add, take and reset, encode, clear | recorders go on during a dump, ids outlive a window, values saturate | ids keep their strings, profile = samples recorded |
| fork safety (forksafety.rs, lib.rs, __init__.py) | LeakableMutex | warning after a fork in the parent, hooks of the child | locks held by threads the child does not have | the child waits for none of them and starts from nothing |


### Hazards

The list is in `PROJECT.json` (`hazards`), each at its line with the
properties that would catch it, or a note where none does yet.

## 2. Modules

| module | models | state and actions |
|---|---|---|
| `RecordQueue` | what the ring buffer promises: a bounded FIFO of records | `queue`, `used`; `Push`, `Pop` |
| `RingBuffer` | rust/crates/ringbuffer/src/lib.rs | the struct's fields; one action per atomic access or slot access, named after the function it is in |
| `RingBufferQueue` | the refinement of `RecordQueue`; extends `RingBuffer` | histories `queue` and `starts` of what was pushed and not popped; they follow `Publish` and `FinishPop` and restrain nothing |
| `MCRingBuffer`, `RingBufferProofs` | instance, proofs | |
| `PyroscopeAgent` | pyroscope.rs, session.rs, pyspy_backend.rs, memory.rs, utils.rs | the three threads, the two channels, the buffers, the GIL; `Sampler*`, `Main*`/`Mem*`/`CpuReport`/`SendSession` (main thread), `Session*`, `Stop*` |
| `MCPyroscopeAgent` | instances of one agent on its own; the proofs are in `FfikitProofs` | |
| `Lifecycle` | what configure() and shutdown() promise | phase, owner, alive |
| `Ffikit` | ffikit.rs and the functions of lib.rs around it, with the mapping to `Lifecycle`; extends `PyroscopeAgent` | STATE, its mutex, AGENT_RUNNING, the place of each Python thread in its call; `Run*`, `Stop*`, `TagThread`, `Finalize` |
| `MCFfikit`, `FfikitProofs` | instances; proofs about `PyroscopeAgent` and `Ffikit` | |
| `SignalSession` | signal_backend.rs, signal_sampler.rs, crates/signal-timer, crates/python-unwind | SIGPROF action, pending signals, place of each thread in the handler, ring, counters, phase of the session |
| `MCSignalSession`, `SignalSessionProofs` | instances, proofs | |
| `ThreadRegistry` | signal_backend::threads, the hooks of \_\_init\_\_.py for 3.10 and for later versions, CTimer, fork | LIVE, TIMER, timers, hooks, place of each thread in `_bootstrap_inner`, place of the installation |
| `MCThreadRegistry`, `ThreadRegistryProofs` | instance, proofs | |
| `Pprof` | encode/pprof.rs: string table, builder, the kinds of profile, `add_ffi_sample`, `add_stacktrace`, `encode` | none, operators only |
| `PprofProofs` | what those operators compute, for any input: lemmas for the two modules that follow | |
| `Profiles` | encode/interner.rs, ffi.rs, forksafety.rs, with memory.rs, stack/mod.rs, ffikit.rs as they use them; extends `Pprof` | string table, builders, ids that recorders and live allocations hold, GIL, place of the dumps and of start and stop, locks a child inherits; `Capture`, `Intern`, `PushSample`, `Take*`, `Start*`, `Stop*`, `Clear*`, `Fork`, `Hook*` |
| `MCProfiles`, `ProfilesProofs` | instance, proofs | |
| `Reports` | tag_wrapper, backend/ruleset.rs, backend/types.rs, the threads of pyspy_backend.rs and signal_backend.rs, `encode`; extends `Pprof` | ruleset, blocks each thread is in, traces in hand, StackBuffer, drop counters; `Enter`, `AddTag*`, `Exit`, `RemoveTag`, `Sample`, `RecordTrace`, `Drained`, `Report` |
| `MCReports`, `ReportsProofs` | instance, proofs | |
| `FrameWalk` | crates/python-unwind (the walk), signal_sampler/resolve.rs | memory, slice, place in the loop; `Enter`, one action per way an iteration ends, `Resolve` |
| `MCFrameWalk`, `FrameWalkProofs` | instance, proofs | |

Operators marked "Wrong:" are variants of the operation that follows them;
no specification uses them. Each is a plausible mistake that the named
property of `PROJECT.json` (`mutants`) must catch.

### What is abstracted

* In `PyroscopeAgent` and `Ffikit` a sample is a number, a profile or a report the
  set of its samples; frames, labels and encoding are those of `Profiles` and
  `Reports`. Compression and HTTP are left out. An upload that fails for
  any reason (connection, timeout, status) counts as attempted, since the code
  only logs it. `Profiles` leaves out the GIL's other users and the failures of
  uploads.
* The ring buffer's Acquire loads may return any value the other side stored
  since the last one read, which is weaker than sequential consistency and what
  release/acquire on one location allows. `index & (N - 1)` is `% N`, by the
  assertion that N is a power of two; `usize` is `0 .. UsizeMod - 1`.
* `SignalSession` follows one tick, any one: the code treats all ticks alike, so
  what holds for an arbitrary one holds for each. Its ring is the queue that
  `RingBuffer` implements. The five unwind errors are one reason, the eight
  counters four. A session is followed by the next in the same process.
* The GIL is a variable. A native function holds it from call to return except
  where it detaches or runs Python code. CPython's finalization refuses an attach
  from 3.13 on and hangs the thread before (`Py313`).
* A poisoned mutex needs a panic while it is held; those paths (`lock()?`,
  `else break`) are left out. `sampler_stop` of the vendored stack sampler is
  taken to wait for its thread (stack.md lists its timeout as a known issue).
* `Profiles` has one memory and one CPU builder (a session uses one of the two
  kinds of stack profile); its memory profiler is always enabled. After a fork the
  model follows the child, once; no allocation is sampled in the child before its
  hook has run. A child hook that runs in the middle of a dump finds the lock of
  that dump locked for ever, which is what `locked` says.
* `Reports`: a call of add_thread_tag or remove_thread_tag is one step (STATE and
  the ruleset are locked within it). The blocks of a thread may end in any order,
  as those of coroutines do, and the dict given to tag_wrapper is not changed
  inside its block. The name of a thread stands for the thread; the order of a
  HashMap is one order. The histories `own`, `may` and `must` bound the labels
  that are true of a sample; tags that two open blocks of a thread share, and
  samples recorded while the agent stops, are outside `LabelsTrue` (the code
  removes a shared tag at the first exit, and nothing promises otherwise).
* `FrameWalk`: memory does not change during the walk, since the thread whose
  chain it is has been interrupted. One iteration of the loop is one step. A read
  that fails gives one of two values that are no integers, so that no word is taken
  for it: on 3.10 the instruction is the signed `f_lasti`, and -1 is a legal one.
  Memory is any memory, and carries the version of Python (`minor`), which decides
  what the code's `cfg`s do: the signed index of 3.10, the CFrame of 3.11 and 3.12,
  owners from 3.12 on, tagged executables from 3.14 on.
* `ThreadRegistry` takes `timer_create` to succeed for a thread that exists and
  to fail for one that does not. A process forks at most once, while no session runs
  (the warning of a forked parent asks to call shutdown() before). The windows in which a thread is missed or
  kept are those that its history `raced` names; they are listed at `LiveIsExact`.

## 3. Runs

| run | instance | checks | result |
|---|---|---|---|
| `ringbuffer` | 4 slots, indices modulo 8, 2 producers, 2 consumers, records of 0 to 4 values (the last cannot fit), out slices of 1 and 3 | `TypeOK`, `NoDataRace`, `HandoverOrdered`, `NoUnderflow`, `NeverUnreachable`, refinement of `RecordQueue` (`QueuedSpec`) | 248 108 states |
| `agent` | py-spy and memory, channel of 1, 2 samples, clock -1..1, good and bad URL | `TypeOK`, `NoDuplicateSamples`, `NoLostSamples`, `FlushOnStop`, `RangesDisjoint`, `StopReturns`, `SamplesUploaded` | 269 298 states |
| `agent_url` | 1 sample | `PushNeverBreaksThread` | violated, see below |
| `ffikit` | Stack and memory, 2 Python threads, 4 calls each, 2 samples | `Accounting`, `ForkIsWarned`, `NoStaleSamples`, refinement of `Lifecycle` | 374 071 states |
| `ffikit_liveness` | Signal and memory, 2 calls each, one thread leaves the interpreter | `CallsReturn`, `AtExitStopsFreeAgent` | 28 254 states |
| `exit_daemon` | a second (daemon) thread | `AtExitStopsAgent` | violated, see below |
| `signal` | 2 threads, ring of 2, drain of 2 | `TypeOK`, `TickAccountedOnce`, `NoFatalSignal`, `StopEnds`, `TickReported` | 333 494 states |
| `signal_foreign` | ring of 1, drain of 1 | `ForeignHandlerKept` | violated, see below |
| `threads` | 4 threads over 2 idents and 2 native ids, hooks of 3.10 and of later versions, a fork | `TypeOK`, `LiveIsExact`, `SampledIffRunning` | 1 459 529 states |
| `profiles` | 3 stacks that share a function and a file, two names not UTF-8 that read the same, 3 samples, values up to 2, a fork | `TypeOK`, `HeldIdsResolve`, `ProfileFaithful`, `OffIsClean`, `NoInheritedWait` | 561 905 states |
| `reports` | 2 threads, 2 blocks of tag lists that share a tag or fail half way, 2 samples, 2 agents, both backends, a hash that always collides | `TypeOK`, `NoLeakedTags`, `LabelsTrue`, `ProfileExact` | 682 612 states |
| `framewalk` | Python 3.10 to 3.14, every chain over 3 frames with at most one odd field (before 3.14 with at most one skipped frame), MAX_FRAMES of 2, slices of 1 and 2, offsets from -6 to 5 | `TypeOK`, `CompleteStack`, `DroppedForAReason`, `HandlerReturns` | 379 326 states |

### Bounds, and why they are enough

Four slots and an index modulo eight make every record wrap both the slots and
the index after a few pushes, and let a record fill the buffer exactly; larger
sizes are covered by the proofs. A channel of one session is full as soon as
one waits, which is the case the code's ten must also handle. Two samples tell
loss from duplication and two buffers apart; a clock with one value before
UNIX_EPOCH and two after it takes every branch of `TimeRange::new`. Two Python
threads race; with four calls a thread can configure, shut down, and do both again.
The agent's clock moves when it is read next. A ring of two and a drain of two can
be full, empty and cut short. Four threads over two ids force ids to be used
again, in the child too. Three samples fill two windows, before and after a fork,
let a value saturate at two, and give two stacks with other bytes that read the
same. In `reports` two blocks are nested, overlap or
follow each other around the end of an agent and the start of the next; a hash
that always collides is the worst case of `Metadata`'s. Three frames and a bound
of two give chains that are too short, exact and too long for the bound and for
the slice, and loops of every length, with any one field wrong. The versions 3.10 to
3.14 take every branch of the code's `cfg`s that the signal profiler runs with
(3.15 is refused at its start); on 3.10 the instruction is -1, 0 and both ends of
the range of offsets.

Deadlock is checked except in three runs that really end: where the interpreter
exits, and every thread may stop; in `reports`, at its bounds on samples, blocks
and agents; in `framewalk`, at the end of the walk.

### Fairness

Every thread of the agent that can run does run, and an upload ends (its timeout
is 10 s): weak fairness of the steps of each thread. A thread that waits for the GIL gets
it in the end although others take it in between: strong fairness of the
attach, which CPython's switch interval (a waiter forces a switch) justifies, as
long as Python code gives the GIL up (weak fairness of that). Nothing is assumed
of samples, ticks, calls, clock steps, starts or exits: they may never happen or never
stop. In `SignalSession`, snapshots recur (the upload interval), the sampler
thread runs, and a handler that was entered ends. In `FrameWalk` the handler goes
on (weak fairness of its steps): it is straight code of one thread.

### What the violated runs show

* `agent_url`: `Session::push` unwraps `path_segments_mut()`. A server address such
  as `localhost:4040` parses as a URL that cannot be a base; the session thread
  panics, the next snapshot fails to send and ends the main thread, and the agent
  stays Running without uploading. `StopReturns` shows that stop() still returns.
* `exit_daemon`: a daemon thread inside shutdown() has the agent claimed, so the
  atexit hook gets ConcurrentOperation and returns; the interpreter finalizes
  under a snapshot thread that may attach. `AtExitStopsFreeAgent` shows that the
  hook does its work when nobody else is in an operation.
* `signal_foreign`: the drop of `SignalHandler` checks and ignores in two system
  calls; a handler installed between them is lost.

### A window that `ForkIsWarned` names

The flag that makes fork() warn is stored when run has returned (lib.rs:302). The
threads of `PyroscopeAgent` are started and the flag is stored without giving the
GIL up in between, so Python code never sees them without it. The thread of the
stack sampler is started earlier (stack/mod.rs:143), and `threads::install` then
runs Python code; if the start fails later, `stack::stop` gives the GIL up while it
waits for that thread. A fork of another Python thread in these two places finds
the sampler's thread running and gets no warning. The run reaches both (without
either exception the invariant is violated); `ForkIsWarned` says that there is no
other place.

## 4. Proofs

Each `*Proofs` module proves its theorems for every value of the constants that
the named assumptions of the component's module allow; the passing runs
evaluate those assumptions. `PROJECT.json` lists the theorems. Hardly any
property is inductive; what follows is the invariant behind each, and why it is needed.

**Assumptions.** N is a power of two (the code asserts it) and divides the modulus
of usize; sizes, bounds and lengths are naturals; there is at least one
thread and finitely many (`ThreadsAssumption` of `Reports`); memory holds finitely
many frames of a Python from 3.10 on, and a word the walk takes for the address of one
is null, not readable or a frame of that memory (`MemoryAssumption` of `FrameWalk`);
the two values of a failed read are different and no integers
(`FailureAssumption`). A stack is
a sequence of frames, a tag a pair of strings, and there are finitely many reasons
to drop a stack (`StackAssumption` of `Profiles`, `SampleAssumption` and
`LabelAssumption` of `Reports`); the hash of tags is any function, collisions
included.

`RingBufferProofs`: `TypeCorrect`, `DataRaceFree`, `HandoverIsOrdered`,
`FitsNeverUnderflows`, `PopNeverPanics` from `IndInvHolds`. `IndInv` adds
`LockInv` (who is past its try-lock is the one that holds the flag), `WindowInv`
(every index that can still be loaded lies in the window from tail to head,
counted modulo UsizeMod), `ProducerInv` and `ConsumerInv` (what each side has
cached agrees with the index it owns and with some visible value of the
other), and `FramingInv` (from tail to head the slots are lengths each followed by
that many values). The key steps are arithmetic modulo UsizeMod: lemmas on
`wrapping_add`, `wrapping_sub` and on `slot` being injective within N consecutive
indices. `RefinesRecordQueue` is the refinement. `QueueInv` says that the records
of the history lie one after the other from tail to head (`ChainInv`), are in
their slots (`StoredInv`), and that a writer or a reader half way through has the
first part of the right one (`WriterInv`, `ReaderInv`). With the start of each record
in the history, each fact is about a record and its successor and needs no
induction over the queue. `HistoryAddsNothing` carries the theorems about `Spec`
over to `QueuedSpec`.

`FfikitProofs`, first part (for `AloneSpec`, one agent on its own): `AgentTypes`,
`NoDuplicates`, `NothingLost`, `StopFlushes`, `RangesAreDisjoint`, from `AloneInv`. The
places of the main thread, the session thread and the stopping caller fit
together (`StopOrder`, `Handover`, `AtRest`); a sample is in one of the places that
threads move it between, and none that counts is outside them (`Placed`, `Kept`); at
each place after stop() began, what is not flushed yet is still to come
(`Flushed`); a session has other samples than every earlier one (`Ordered`) and ends
by the start of the range that is open (`Clock`).

`FfikitProofs`, second part: `FfiTypes`, `CallsAccounted`, `ForkWarned`, `SamplesFresh`, the
action property `ExitStopsFreeAgent`, and `Implements`, the refinement of
`Lifecycle`. `FfiInv` extends that of the agent: Busy has one owner (`Calling`); what is still
on at each step of its call (`OffWhen`), which samples can still be there (`Fresh`,
`Cleared`), when the flag is set (`Flag`) and what the counters owe (`Counts`).
`ForkWarned` needs `OffWhen` for the two places where the stack sampler alone is on, and
that native code holds the GIL everywhere else (`GilHeld`).
A step of the agent's own threads maps to work or a stutter, a step of a caller to the operation it owns.

`ThreadRegistryProofs`: `RegistryTypes`, `LiveExact`, `TimersExact`, from `RegistryInv`:
what the place of a thread in `_bootstrap_inner`, and of the installation in its
loop, imply for LIVE, for TIMER and for the ids in use.

`ProfilesProofs`: `TableSound` (no string twice, the empty one at 0), `IdsResolve`,
`NothingLeft`, `ChildNeverWaits`, from `ProfilesInv`: who holds the GIL at each place of
a dump, a start, a stop and a hook (`Turns`), which locks a child can inherit
(`Inherited`), that whatever is off is clean (`Clean`) and that every id held is in
the table (`Held`). Interning only extends the table, clearing it comes after the recorders
have stopped.

`ProfilesFaithful` and `ProfileTypes`, in the same module, are about what is in
the builders, and need more: `DataInv`. `Faithful` says that a builder is sound for
the table (its functions and locations refer to strings and to each other, and
none is stored twice), and that its rows agree with the history `recorded`: each
row reads as one recorded stack and has its values, and each recorded stack has a
row. Two rows that read alike are the same row, since a sound builder with a table
without repetitions gives equal frames equal ids (`ReadsInjective`); that is why the
encoder may add up samples by ids. Reading survives every other thread's
interning because the table only grows (`ReadsGrow`), and a reset of the builder
comes with one of the history.

`PprofProofs` has the lemmas both rest on, and those about `encode()`. The
definitions are folds over sequences, and what a fold computes for every input
needs an induction. The library's induction theorems take an operator, which no
prover here can instantiate; `Induct` states the same for a *set* of numbers, from
the well-foundedness of `<` on the naturals. A fold is first shown to be the end of
a run of values, each made from the one before by one step (`AddSteps`,
`FrameSteps`, `EntrySteps`, `ReportSteps`: the function that the fold is defined by,
on sets of indices, exists for each length, `Growth`), and then an invariant is
carried along that run. For `add_all` it is that the table grows and has the strings
so far (`AllAdded`), for the frames of a stack that the builder stays sound and has
them (`FramesAdded`), for the entries of the reports that there is one sample for
each stack trace so far, which reads as it (`Encoded`, `Covers`). `EncodeReads` is the
result: whatever the reports, as long as no stack trace is in two of them, the
profile has one sample for each stack trace, with its frames, its labels and its count
times the period.

`FrameWalkProofs`: `WalkTypes`, `StackComplete`, `DropsJustified`, for any memory of any
version from 3.10 on. What an iteration has read of a frame it accepts is no failure
(`ReadsFacts`, `InstrRead`), so an offset that does not fail is the instruction's (`OffsetFacts`).
`WalkInv` keeps the set of frames visited: it holds every caller of the innermost
frame up to the current one (`Follows`), each is counted, once unless the walk goes
round (`Counted`), and those that are visible are in the slice, before their
callers (`Written`). The bound on the count then tells a chain that is too long or a loop
from a stack that is complete (`Whole`).

`ReportsProofs`: `RulesOwned` and `TagsNeverLeak`. `NoLeakedTags` is not inductive:
while tags are removed one by one, a rule is covered by the call, not by a block.
`TagInv` gives every rule of a running agent an owner: a block its thread is in,
the part of a loop over tags that has added it or has not removed it yet, or a
block whose entry raised. `ReportTypes` and `LabelsAreTrue` come from `LabelInv`, which adds
that the tags a block counts as its own are in no other open block of its thread
(`Alone`) and are in the ruleset until the agent stops (`Backed`), and that the rules
of the thread of a trace in hand lie between its bounds `must` and `may` (`Between`).

`ReportsExact` is about the profile of the next report. Several stack traces of the
buffer may read the same (threads differ, labels do not), so their counts add up
in the profile, and the property compares sums. `Tally` says this without sums:
the count of a reading is the number of *units*, pairs of a stack trace that reads
so and a number up to its count. One more of a stack trace is one set of units more
(`TallyPlus`), so `ExactInv` (the buffer tallies with `recorded`, and has stack traces
that can be encoded) is inductive together with `LabelInv`. The rest is about one
state: recording the drops keeps the tally (`DropsTally`), `to_reports` loses no
stack trace and puts none in two reports, whatever hashes collide
(`ReportsDivide`), `encode` gives each its sample (`EncodeReads`), and a reader who adds
up the samples that read the same counts the units again (`TotalReads`).

`SignalSessionProofs`: `SignalNeverFatal`. `SafeSignal` says that the timer runs
only in the phases between its start and its drop, and that the default action
is in place only before the first handler, when nothing can be pending; the first
half is needed for a tick, the second for a signal that was pending.
`TicksAccounted`: `OnceInv` says that the number of places the followed tick is in
is 1, and 0 before it, so that a place which a step fills was empty; and that no
report is under construction while the reporter is idle and the buffer is empty until
the timer starts. `SessionTypes` is inductive as it stands.

**Only model-checked.**

* Liveness, which TLAPS does not prove: `StopReturns`, `SamplesUploaded`,
  `CallsReturn`, `StopEnds`, `TickReported`, `HandlerReturns`.
* The violated runs are counterexamples and have nothing to prove.

## 5. Not modelled

* Generated protobuf code, the constants of python-offsets (but the owners and tag
  bits in `FrameWalk`), build and packaging, integration tests: no behaviour of
  their own.
* The vendored C++ samplers, py-spy, CPython's threading module and the kernel are
  external and appear only as the code uses them.
* Logging and its set-up, HTTP headers, compression and the arguments of
  configure(), which are passed on.
* `stack::set_options`, which only stores options for the sampler.
* The lazy creation of a `LeakableMutex` (a once-only allocation by
  compare-and-swap) and the macOS check `no_dispatch_semaphore`.
* fork() with a session of the signal profiler running: the hook of the child does
  not reset its statics yet (the TODO at rust/src/lib.rs:49), so there is no
  behaviour to state a property about.
* The timeout of the vendored `sampler_stop` (a known issue in stack.md).
* The decoding of names and line tables from raw code objects (py-spy's code).

## 6. Plan

All components with state of their own have a model; what is left out is listed above.

Every safety property that a passing run checks is proved, with both refinements
and the action property; the liveness properties stay with TLC. What is left is a
behaviour for fork() under a session of the signal profiler, once the code has one.
