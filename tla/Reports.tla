------------------------------- MODULE Reports -------------------------------
(***************************************************************************)
(* From a sampled stack to a labelled pprof sample: the thread tags that   *)
(* tag_wrapper adds and removes, the sampler threads of the py-spy and     *)
(* signal backends, their StackBuffer, the reports by metadata, and        *)
(* encode() (rust/src/backend/, rust/src/pyspy_backend.rs,                 *)
(* rust/src/signal_backend.rs, python/pyroscope/__init__.py).              *)
(*                                                                         *)
(* The blocks of one thread may end in any order, as those of coroutines   *)
(* do.  A call of add_thread_tag or remove_thread_tag is one step: it      *)
(* locks STATE and the ruleset within.                                     *)
(***************************************************************************)
EXTENDS Pprof

CONSTANTS
    Threads,         \* idents of the Python threads
    TagLists,        \* arguments of tag_wrapper: sequences of tags
    BadTags,         \* tags whose value is not a str
    Stacks,          \* sequences of frames
    Reasons,         \* drop reasons of the signal handler
    Backends,        \* subset of {"PySpy", "Signal"}
    BackendConfig,   \* report_pid, report_thread_id, report_thread_name
    Id(_),           \* the hash of the tags of a Metadata
    Period,          \* 1_000_000_000 / sample_rate
    MaxBlocks, MaxSamples, MaxAgents   \* bounds

ASSUME ThreadsAssumption == IsFiniteSet(Threads) /\ Threads # {}
ASSUME TagAssumption == \A tags \in TagLists : tags # <<>> /\ tags \in Seq(ToSet(tags))
ASSUME LabelAssumption ==
    \A tags \in TagLists : ToSet(tags) \subseteq [key : STRING, value : STRING]
ASSUME SampleAssumption == Stacks \subseteq Seq(Frame) /\ IsFiniteSet(Reasons)
ASSUME PeriodAssumption == Period \in Nat \ {0}
ASSUME BoundAssumption == {MaxBlocks, MaxSamples, MaxAgents} \subseteq Nat

VARIABLES
    state,      \* "Idle", "Running"; Busy as "Starting" or "Stopping"
    backend,    \* CPU backend of the agent
    rules,      \* ruleset of the agent
    open,       \* of each thread: the tag_wrapper blocks it is in
    call,       \* of each thread: the loop over tags it is in, if any
    hand,       \* traces of the sample the py-spy thread is working on
    buffer,     \* StackBuffer: counts of stack traces
    drops,      \* METRICS: drops by reason
    count,      \* blocks, samples and agents so far
    leaked,     \* history: rules left behind by a block whose entry raised
    labelled,   \* history: the trace this step labelled, and its bounds
    recorded    \* history: counts recorded since the last report

vars == <<state, backend, rules, open, call, hand, buffer, drops, count, leaked,
          labelled, recorded>>
agent == <<state, backend>>
wrapper == <<open, call, leaked>>

Empty == <<>>   \* the function with no domain

Plus(f, x, n) == [y \in DOMAIN f \cup {x} |->
                    (IF y \in DOMAIN f THEN f[y] ELSE 0) + (IF y = x THEN n ELSE 0)]

NoCall == [op |-> "none", tags |-> <<>>, next |-> 0, own |-> {}]
Zero == [r \in Reasons |-> 0]

Init ==
    /\ state = "Idle" /\ backend \in Backends
    /\ rules = {}
    /\ open = [t \in Threads |-> <<>>] /\ call = [t \in Threads |-> NoCall]
    /\ hand = <<>> /\ buffer = Empty /\ drops = Zero
    /\ count = [blocks |-> 0, samples |-> 0, agents |-> 0]
    /\ leaked = {} /\ labelled = <<>> /\ recorded = Empty

NoLabel == labelled' = <<>>

Counts(what, bound) == count[what] < bound /\ count' = [count EXCEPT ![what] = @ + 1]

-----------------------------------------------------------------------------
\* The agent, as far as the tags and buffers see it.

\* No block owns a rule of an agent that is not there yet.
Disown ==
    /\ open' = [t \in Threads |-> [i \in DOMAIN open[t] |-> [open[t][i] EXCEPT !.own = {}]]]
    /\ call' = [t \in Threads |-> [call[t] EXCEPT !.own = {}]]
    /\ leaked' = {}

\* Wrong: the ruleset is kept for the process.
StartKeepsRules ==
    /\ state = "Idle" /\ Counts("agents", MaxAgents)
    /\ state' = "Starting" /\ backend' \in Backends
    /\ buffer' = Empty /\ recorded' = Empty
    /\ drops' = IF backend' = "Signal" THEN Zero ELSE drops
    /\ Disown
    /\ UNCHANGED <<rules, hand>> /\ NoLabel

\* initialize_agent makes a ruleset, the backend a buffer; the session of the
\* signal backend forgets the drops of the one before.
Start ==
    /\ state = "Idle" /\ Counts("agents", MaxAgents)
    /\ state' = "Starting" /\ backend' \in Backends
    /\ rules' = {} /\ buffer' = Empty /\ recorded' = Empty
    /\ drops' = IF backend' = "Signal" THEN Zero ELSE drops
    /\ Disown
    /\ UNCHANGED hand /\ NoLabel

\* The backend is told to end before Idle is stored, after the sample its
\* thread is in.
AgentStep ==
    /\ \/ state = "Starting" /\ state' = "Running"
       \/ state = "Running" /\ state' = "Stopping"
       \/ state \in {"Starting", "Stopping"} /\ hand = <<>> /\ state' = "Idle"
    /\ UNCHANGED <<backend, rules, wrapper, hand, buffer, drops, count, recorded>> /\ NoLabel

-----------------------------------------------------------------------------
\* tag_wrapper

TagsOf(block) == ToSet(block.tags)
OpenTags(t) == UNION ({TagsOf(b) : b \in Range(open[t])} \cup {TagsOf(call[t])})

\* The tags of t that only one block has had since it was entered.
OwnTags(t) == UNION {b.own : b \in Range(open[t])}

\* The bounds of the traces of t in hand, when it enters or leaves a block.
Gained(t, tags) ==
    [i \in DOMAIN hand |-> IF hand[i].thread # t THEN hand[i]
                          ELSE [hand[i] EXCEPT !.may = @ \cup ToSet(tags)]]
Lost(t, tags) ==
    [i \in DOMAIN hand |-> IF hand[i].thread # t THEN hand[i]
                          ELSE [hand[i] EXCEPT !.must = @ \ ToSet(tags)]]

\* The blocks of a thread that enters another: none owns its tags alone.
Shared(blocks, tags) == [i \in DOMAIN blocks |-> [blocks[i] EXCEPT !.own = @ \ ToSet(tags)]]

Enter(t, tags) ==
    /\ call[t] = NoCall /\ Counts("blocks", MaxBlocks)
    /\ call' = [call EXCEPT ![t] = [op |-> "add", tags |-> tags, next |-> 1, own |-> {}]]
    /\ open' = [open EXCEPT ![t] = Shared(open[t], tags)]
    /\ hand' = Gained(t, tags)
    /\ UNCHANGED <<agent, rules, buffer, drops, leaked, recorded>> /\ NoLabel

ThreadTag(t, tag) == [tid |-> t, tag |-> tag]

\* Wrong: a value that is not a str is taken as it prints.
AddTagAnyValue(t) ==
    LET c == call[t]
        tag == c.tags[c.next]
        accepted == {x \in {tag} : state = "Running"}
        others == UNION {TagsOf(b) : b \in Range(open[t])}
        own == c.own \cup (accepted \ others)
    IN  /\ c.op = "add"
        /\ rules' = rules \cup {ThreadTag(t, x) : x \in accepted}
        /\ IF c.next < Len(c.tags)
           THEN /\ call' = [call EXCEPT ![t] = [op |-> "add", tags |-> c.tags,
                                              next |-> c.next + 1, own |-> own]]
                /\ UNCHANGED open
           ELSE /\ call' = [call EXCEPT ![t] = NoCall]
                /\ open' = [open EXCEPT ![t] = Append(@, [tags |-> c.tags, own |-> own])]
        /\ UNCHANGED <<agent, hand, buffer, drops, count, leaked, recorded>> /\ NoLabel

\* add_thread_tag for the next tag.  The tags are extracted from Python objects
\* first, and without an agent AgentNotRunning is returned: tag_wrapper ignores
\* the result.
AddTag(t) ==
    LET c == call[t]
        tag == c.tags[c.next]
        accepted == {x \in {tag} : state = "Running"}
        others == UNION {TagsOf(b) : b \in Range(open[t])}
        own == c.own \cup (accepted \ others)
    IN  /\ c.op = "add" /\ tag \notin BadTags
        /\ rules' = rules \cup {ThreadTag(t, x) : x \in accepted}
        /\ IF c.next < Len(c.tags)
           THEN /\ call' = [call EXCEPT ![t] = [op |-> "add", tags |-> c.tags,
                                              next |-> c.next + 1, own |-> own]]
                /\ UNCHANGED open
           ELSE /\ call' = [call EXCEPT ![t] = NoCall]
                /\ open' = [open EXCEPT ![t] = Append(@, [tags |-> c.tags, own |-> own])]
        /\ UNCHANGED <<agent, hand, buffer, drops, count, leaked, recorded>> /\ NoLabel

\* The extraction raises in the loop before the try: the block is not entered,
\* and the tags added so far stay.
AddTagRaises(t) ==
    LET c == call[t]
    IN  /\ c.op = "add" /\ c.tags[c.next] \in BadTags
        /\ call' = [call EXCEPT ![t] = NoCall]
        /\ leaked' = leaked \cup {ThreadTag(t, c.tags[i]) : i \in 1 .. c.next - 1}
        /\ UNCHANGED <<agent, rules, open, hand, buffer, drops, count, recorded>> /\ NoLabel

Exit(t) ==
    /\ call[t] = NoCall
    /\ \E i \in DOMAIN open[t] :
         LET tags == open[t][i].tags
         IN  /\ call' = [call EXCEPT ![t] = [op |-> "remove", tags |-> tags, next |-> 1,
                                             own |-> {}]]
             /\ open' = [open EXCEPT ![t] = RemoveAt(@, i)]
             /\ hand' = Lost(t, tags)
    /\ UNCHANGED <<agent, rules, buffer, drops, count, leaked, recorded>> /\ NoLabel

RemoveTag(t) ==
    LET c == call[t]
        rule == ThreadTag(t, c.tags[c.next])
        removed == {x \in {rule} : state = "Running"}
    IN  /\ c.op = "remove"
        /\ rules' = rules \ removed /\ leaked' = leaked \ removed
        /\ call' = [call EXCEPT ![t] = IF c.next < Len(c.tags)
                                       THEN [c EXCEPT !.next = @ + 1] ELSE NoCall]
        /\ UNCHANGED <<agent, open, hand, buffer, drops, count, recorded>> /\ NoLabel

-----------------------------------------------------------------------------
\* StackTrace::new, with the thread's ident and name where the backend knows
\* them.
NewTrace(t, frames) ==
    LET Tagged(flag, key, value) ==
            {[key |-> key, value |-> v] : v \in {x \in {value} : BackendConfig[flag]}}
        known(flag, key) == IF t = "none" THEN {} ELSE Tagged(flag, key, t)
    IN  [thread |-> t, frames |-> frames,
         tags |-> Tagged("report_pid", "pid", "1")
                  \cup known("report_thread_id", "thread_id")
                  \cup known("report_thread_name", "thread_name")]

\* Wrong: the rules of every thread apply.
add_all_rules(trace) == [trace EXCEPT !.tags = @ \cup {r.tag : r \in rules}]

add_tag_rules(trace) ==
    [trace EXCEPT !.tags = @ \cup {r.tag : r \in {x \in rules : x.tid = trace.thread}}]

\* A sample of py-spy without blocking: the traces of those threads that are
\* active and, with gil_only, own the GIL.
Sample ==
    /\ state # "Idle" /\ backend = "PySpy" /\ hand = <<>> /\ Counts("samples", MaxSamples)
    /\ \E kept \in SUBSET Threads \ {{}}, f \in [Threads -> Stacks] :
         LET s == SetToSeq(kept)
         IN  hand' = [i \in DOMAIN s |->
                        [thread |-> s[i], frames |-> f[s[i]],
                         may |-> OpenTags(s[i]) \cup {r.tag : r \in {x \in leaked : x.tid = s[i]}},
                         must |-> OwnTags(s[i])]]
    /\ UNCHANGED <<agent, rules, wrapper, buffer, drops, recorded>> /\ NoLabel

\* What a reader of the profile should see of a trace.
Reading(trace) == [frames |-> trace.frames, tags |-> trace.tags]

\* StackBuffer::record_with_count
Record(trace, n) ==
    /\ buffer' = Plus(buffer, trace, n)
    /\ recorded' = Plus(recorded, Reading(trace), n)

\* One turn of the loop over the traces of a sample.
RecordTrace ==
    /\ hand # <<>>
    /\ LET h == Head(hand)
           new == NewTrace(h.thread, h.frames)
           trace == add_tag_rules(new)
       IN  /\ Record(trace, 1)
           /\ labelled' = IF state = "Stopping" THEN labelled
                          ELSE [tags |-> trace.tags, may |-> h.may \cup new.tags,
                                must |-> h.must \cup new.tags]
    /\ hand' = Tail(hand)
    /\ UNCHANGED <<agent, rules, wrapper, drops, count>>

\* The signal backend drains a stack, or the handler drops one.
Drained ==
    /\ state # "Idle" /\ backend = "Signal" /\ Counts("samples", MaxSamples)
    /\ \/ \E s \in Stacks : Record(NewTrace("none", s), 1) /\ UNCHANGED drops
       \/ \E r \in Reasons : drops' = [drops EXCEPT ![r] = @ + 1] /\ UNCHANGED <<buffer, recorded>>
    /\ UNCHANGED <<agent, rules, wrapper, hand>> /\ NoLabel

-----------------------------------------------------------------------------
\* Reporter::report and the encoding, in place (signal) or in Session::push.

DropTrace(r) == NewTrace("none", <<[name |-> "[dropped: " \o r \o "]", file |-> "", line |-> 0]>>)

record_dropped_stacks(f, entry) ==
    FoldLeft(LAMBDA g, r : IF drops[r] = 0 THEN g ELSE Plus(g, entry[r], drops[r]),
             f, SetToSeq(Reasons))

\* Wrong: a report keeps one stack trace for each metadata.
to_reports_insert(data) ==
    {[metadata |-> trace.tags, data |-> [x \in {trace} |-> data[x]]] :
        trace \in {CHOOSE y \in DOMAIN data : Id(y.tags) = Id(x.tags) : x \in DOMAIN data}}

\* From<StackBuffer> for Vec<Report>; the first trace of a report gives it its
\* metadata.
to_reports(data) ==
    LET Same(trace) == {x \in DOMAIN data : Id(x.tags) = Id(trace.tags)}
    IN  {[metadata |-> (CHOOSE x \in Same(trace) : TRUE).tags,
          data |-> [x \in Same(trace) |-> data[x]]] : trace \in DOMAIN data}

Reported ==
    IF backend = "Signal" THEN record_dropped_stacks(buffer, [r \in Reasons |-> DropTrace(r)]) ELSE buffer

Report ==
    /\ state # "Idle"
    /\ drops' = IF backend = "Signal" THEN Zero ELSE drops
    /\ buffer' = Empty /\ recorded' = Empty
    /\ UNCHANGED <<agent, rules, wrapper, hand, count>> /\ NoLabel

Next ==
    \/ Start \/ AgentStep
    \/ \E t \in Threads :
         \/ \E tags \in TagLists : Enter(t, tags)
         \/ AddTag(t) \/ AddTagRaises(t) \/ Exit(t) \/ RemoveTag(t)
    \/ Sample \/ RecordTrace \/ Drained \/ Report

Spec == Init /\ [][Next]_vars

-----------------------------------------------------------------------------
\* Properties

AllTags == UNION {ToSet(tags) : tags \in TagLists}

\* Every variable has its type; no rule holds a tag that is not text.
TypeOK ==
    /\ state \in {"Idle", "Starting", "Running", "Stopping"} /\ backend \in Backends
    /\ rules \subseteq [tid : Threads, tag : AllTags \ BadTags]
    /\ \A t \in Threads :
         /\ \A i \in DOMAIN open[t] :
              /\ open[t][i].tags \in TagLists
              /\ open[t][i].own \subseteq TagsOf(open[t][i]) \ BadTags
         /\ call[t].op \in {"none", "add", "remove"}
         /\ call[t].op # "none" => call[t].next \in DOMAIN call[t].tags
    /\ Len(hand) =< Cardinality(Threads)
    /\ \A trace \in DOMAIN buffer : buffer[trace] \in 1 .. MaxSamples * Cardinality(Threads)
    /\ drops \in [Reasons -> 0 .. MaxSamples]

\* A thread that is outside its tag_wrapper blocks has no tag left in the
\* ruleset of the running agent, whatever agents came and went while it was
\* inside; the exception is a block whose entry raised half way.
NoLeakedTags ==
    state = "Running" =>
        \A r \in rules : r.tag \in OpenTags(r.tid) \/ r \in leaked

\* The labels a trace gets when it is recorded are true of the thread it was
\* taken from: tags of blocks the thread was in since the sample was taken, all
\* those of blocks it has been in all the while (the tags are read after the
\* sample, add_tag_rules).  Blocks that share a tag, and samples recorded while
\* the agent stops, are left out: there the labels may be wrong.
LabelsTrue ==
    labelled # <<>> =>
        labelled.must \subseteq labelled.tags /\ labelled.tags \subseteq labelled.may

\* The value of the samples of p that read as r.
Total(p, r) ==
    FoldLeft(LAMBDA n, s : IF Seen(p, s) = r THEN n + s.value[1] ELSE n, 0, p.pprof.sample)

\* The profile of the next report, when it is not empty and so is sent, is
\* exactly what was recorded since the last one, read back with its string
\* table: each stack with its labels, and its count times the period, drops by
\* reason among them.  Stack traces that share a report, even by a collision of
\* hashes, keep their own labels.
ProfileExact ==
    Reported # Empty =>
        LET p == encode(to_reports(Reported), Period)
            samples == p.pprof.sample
            expected == IF backend = "Signal"
                        THEN record_dropped_stacks(recorded, [r \in Reasons |-> Reading(DropTrace(r))])
                        ELSE recorded
        IN  /\ SeenTypes(p) = Types["pyspy"]
            /\ \A i \in DOMAIN samples :
                 Resolves(p, samples[i]) /\ Seen(p, samples[i]) \in DOMAIN expected
            /\ \A r \in DOMAIN expected : Total(p, r) = expected[r] * Period
=============================================================================
