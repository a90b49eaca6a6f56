-------------------------------- MODULE Pprof --------------------------------
(***************************************************************************)
(* The pprof encoder: the string table, the builder that gives functions   *)
(* and locations their ids, the samples of the C profilers, and encode()   *)
(* for the stack traces of the py-spy and signal backends                  *)
(* (rust/src/encode/pprof.rs).                                             *)
(***************************************************************************)
EXTENDS Integers, Sequences, SequencesExt, FiniteSets

CONSTANT MaxValue   \* i64::MAX

ASSUME ValueAssumption == MaxValue \in Nat \ {0}

\* StringTable: the string with index i is at i + 1; index 0 is the empty one.
NewTable == <<"">>

add(t, s) == IF Contains(t, s) THEN t ELSE Append(t, s)

\* The index add returns.
IndexOf(t, s) == (CHOOSE i \in DOMAIN t : t[i] = s) - 1

add_all(t, strings) == FoldLeft(add, t, strings)

-----------------------------------------------------------------------------
\* The strings of a stack of frames, and of labels, in the order of their ids.
Frame == [name : STRING, file : STRING, line : Int]

Strings(s) == [i \in 1 .. 2 * Len(s) |->
                 IF i % 2 = 1 THEN s[(i + 1) \div 2].name ELSE s[i \div 2].file]
LabelStrings(s) == [i \in 1 .. 2 * Len(s) |->
                      IF i % 2 = 1 THEN s[(i + 1) \div 2].key ELSE s[i \div 2].value]

-----------------------------------------------------------------------------
\* The kinds of profile: the allocations, the stack sampler without and with
\* wall times, and the stack traces of encode().

\* Type and unit of each value, then of the period.
Types ==
    [memory |-> <<"alloc_objects", "count", "alloc_space", "bytes",
                  "inuse_objects", "count", "inuse_space", "bytes",
                  "space", "bytes">>,
     wall   |-> <<"cpu", "nanoseconds", "wall", "nanoseconds",
                  "cpu", "nanoseconds">>,
     cpu    |-> <<"cpu", "nanoseconds", "cpu", "nanoseconds">>,
     pyspy  |-> <<"cpu", "nanoseconds", "cpu", "nanoseconds">>]

\* One ValueType: its type, then its unit, at i and i + 1.
add_type(t, kind, i) == add(add(t, Types[kind][i]), Types[kind][i + 1])

set_profile_type(t, kind) ==
    LET values == CASE kind = "memory" -> add_type(add_type(add_type(add_type(t, kind, 1),
                                                   kind, 3), kind, 5), kind, 7)
                    [] kind = "wall"   -> add_type(add_type(t, kind, 1), kind, 3)
                    [] OTHER           -> add_type(t, kind, 1)
    IN  add_type(values, kind, Len(Types[kind]) - 1)

\* The types of a profile with the string table t.
TypeIds(t, kind) == [i \in DOMAIN Types[kind] |-> IndexOf(t, Types[kind][i])]

value_slots(kind, v) ==
    CASE kind = "memory" -> <<v.alloc_count, v.alloc_space, v.heap_count, v.heap_space>>
      [] kind = "wall"   -> <<v.cpu_time, v.wall_time>>
      [] kind = "cpu"    -> <<v.cpu_time>>

-----------------------------------------------------------------------------
\* PProfBuilder: functions and locations in the order of their ids, the rows of
\* the C profilers by their locations, the samples of the profile.

NewBuilder == [functions |-> <<>>, locations |-> <<>>, rows |-> <<>>, sample |-> <<>>]

\* Index of x in the sequence s extended with x when it is new; ids start at 1.
IdIn(s, x) == IF Contains(s, x) THEN CHOOSE i \in DOMAIN s : s[i] = x ELSE Len(s) + 1
With(s, x) == IF Contains(s, x) THEN s ELSE Append(s, x)

\* add_function_mirror and add_location_mirror for one frame.
AddFrame(b, f) ==
    LET fm == [name |-> f.name, file |-> f.file]
        lm == [function |-> IdIn(b.functions, fm), line |-> f.line]
    IN  [b EXCEPT !.functions = With(@, fm), !.locations = With(@, lm)]

LocationIds(b, frames) ==
    [i \in DOMAIN frames |->
        LET fm == [name |-> frames[i].name, file |-> frames[i].file]
        IN  IdIn(b.locations, [function |-> IdIn(b.functions, fm), line |-> frames[i].line])]

\* Wrong: i64 addition without saturation.
plain_add(x, y) == x + y

saturating_add(x, y) == IF x + y > MaxValue THEN MaxValue ELSE x + y

Accumulate(rows, key, v) ==
    IF key \in DOMAIN rows
    THEN [rows EXCEPT ![key] = [i \in DOMAIN v |-> saturating_add(@[i], v[i])]]
    ELSE [r \in DOMAIN rows \cup {key} |-> IF r = key THEN v ELSE rows[r]]

\* The frames hold the ids of strings that are interned.
add_ffi_sample(b, frames, v) ==
    LET c == FoldLeft(AddFrame, b, frames)
    IN  [c EXCEPT !.rows = Accumulate(@, LocationIds(c, frames), v)]

\* The rows come in any order.
flush_ffi_samples(b) ==
    LET Sample(row) == [location_id |-> row, value |-> b.rows[row], label |-> {}]
        rows == SetToSeq(DOMAIN b.rows)
    IN  [b EXCEPT !.sample = @ \o [i \in DOMAIN rows |-> Sample(rows[i])], !.rows = <<>>]

\* Wrong: the rows survive the locations and functions they refer to.
ResetKeepsRows(b) == [NewBuilder EXCEPT !.rows = b.rows]

reset(b) == NewBuilder

-----------------------------------------------------------------------------
\* encode()

frame(t, f) == [name |-> IndexOf(t, f.name), file |-> IndexOf(t, f.file), line |-> f.line]

\* acc holds the string table and the builder, with the period of its profile.
add_stacktrace(acc, trace, value) ==
    LET t      == add_all(add_all(acc.strings, Strings(trace.frames)),
                          LabelStrings(SetToSeq(trace.tags)))
        frames == [i \in DOMAIN trace.frames |-> frame(t, trace.frames[i])]
        b      == FoldLeft(AddFrame, acc.builder, frames)
        labels == {[key |-> IndexOf(t, l.key), str |-> IndexOf(t, l.value)] : l \in trace.tags}
        sample == [location_id |-> LocationIds(b, frames), value |-> <<value * acc.period>>,
                   label |-> labels]
    IN  [acc EXCEPT !.strings = t, !.builder = [b EXCEPT !.sample = Append(@, sample)]]

\* Each report is a function from its stack traces to their counts.
Entries(r) == SetToSeq({<<trace, r.data[trace]>> : trace \in DOMAIN r.data})
AddEntry(acc, e) == add_stacktrace(acc, e[1], e[2])
AddReport(acc, r) == FoldLeft(AddEntry, acc, Entries(r))

encode(reports, period) ==
    LET new  == [strings |-> set_profile_type(NewTable, "pyspy"), builder |-> NewBuilder,
                 period |-> period]
        done == FoldLeft(AddReport, new, SetToSeq(reports))
    IN  [pprof |-> done.builder, string_table |-> done.strings,
         types |-> TypeIds(done.strings, "pyspy")]

-----------------------------------------------------------------------------
\* What a reader of the profile p, with its string table, sees.

Str(p, i) == p.string_table[i + 1]

Resolves(p, s) ==
    /\ \A i \in DOMAIN s.location_id :
         LET l == p.pprof.locations[s.location_id[i]]
             f == p.pprof.functions[l.function]
         IN  /\ s.location_id[i] \in DOMAIN p.pprof.locations
             /\ l.function \in DOMAIN p.pprof.functions
             /\ {f.name, f.file} \subseteq 0 .. Len(p.string_table) - 1
    /\ \A l \in s.label : {l.key, l.str} \subseteq 0 .. Len(p.string_table) - 1

Seen(p, s) ==
    [frames |-> [i \in DOMAIN s.location_id |->
                    LET l == p.pprof.locations[s.location_id[i]]
                        f == p.pprof.functions[l.function]
                    IN  [name |-> Str(p, f.name), file |-> Str(p, f.file), line |-> l.line]],
     tags |-> {[key |-> Str(p, l.key), value |-> Str(p, l.str)] : l \in s.label}]

SeenTypes(p) == [i \in DOMAIN p.types |-> Str(p, p.types[i])]
=============================================================================
