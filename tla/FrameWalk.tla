------------------------------ MODULE FrameWalk ------------------------------
(***************************************************************************)
(* The unwinder of a signal handler: it walks the frame chain of the       *)
(* thread it interrupted, through reads that may fail, into a slice, and   *)
(* the sampler thread later turns the recorded code objects into lines     *)
(* (rust/crates/python-unwind/src/lib.rs, signal_sampler/resolve.rs).      *)
(*                                                                         *)
(* The interrupted thread is paused and owns its chain, so memory does not *)
(* change during the walk; it is any memory at all, of any version of      *)
(* Python the crate is built for.  A read is a word, or one of two         *)
(* failures, which are no words.  An iteration of the loop is one step.    *)
(***************************************************************************)
EXTENDS Integers, Sequences, SequencesExt, FiniteSets, FiniteSetsExt

CONSTANTS
    Memories,    \* what the thread state, the frames and the code objects hold
    Unmapped,    \* a read of memory that is not mapped
    Overflows,   \* a read whose address overflows
    CodeType,    \* address of PyCode_Type
    MaxFrames,   \* MAX_FRAMES
    Rooms,       \* lengths of the slice to unwind into
    LastLine,    \* Lines::LastInstruction
    MaxOffset    \* i32::MAX

Failures == {Unmapped, Overflows}
Offsets == -(MaxOffset + 1) .. MaxOffset   \* i32

ASSUME BoundsAssumption ==
    /\ MaxFrames \in Nat \ {0} /\ Rooms \subseteq Nat
    /\ MaxOffset \in Nat /\ LastLine \in BOOLEAN
ASSUME FailureAssumption == Unmapped # Overflows /\ \A w \in Failures : w \notin Int

\* Memory is that of an interpreter of version 3.minor.  A word of the thread
\* state or of a frame that is taken for the address of a frame is null, could
\* not be read, or is one whose fields are in the memory; 3.11 and 3.12 reach
\* the current frame through a CFrame.  The instruction is the address of one,
\* on 3.10 the signed four bytes of f_lasti.
ASSUME MemoryAssumption ==
    \A m \in Memories :
      LET links == {0} \cup Failures \cup DOMAIN m.frames
      IN  /\ m.minor \in Nat /\ m.minor >= 10
          /\ IsFiniteSet(DOMAIN m.frames) /\ DOMAIN m.frames \cap ({0} \cup Failures) = {}
          /\ m.current \in Seq(Nat \cup Failures) /\ Last(m.current) \in links
          /\ Len(m.current) = IF m.minor \in {11, 12} THEN 2 ELSE 1
          /\ \A f \in DOMAIN m.frames :
               LET r == m.frames[f]
               IN  /\ r.previous \in links /\ r.executable \in Nat \cup Failures
                   /\ r.instr \in (IF m.minor >= 11 THEN Nat ELSE Offsets) \cup Failures

VARIABLES
    mem, room,   \* memory and length of the slice, fixed for a walk
    at,          \* "entry", "walk", "ring" or "done"
    frame,       \* the frame the loop is at, 0 at the end
    visited,     \* number of frames visited
    pushed,      \* the frames written to the slice
    raw,         \* what the resolver hands to py-spy
    result       \* "none", "ok", or the reason the stack is dropped

vars == <<mem, room, at, frame, visited, pushed, raw, result>>

ReadError(w) == IF w = Unmapped THEN "Read" ELSE "Invalid"

\* read_usize, read_u8 and read_bytes one after the other: the first that
\* fails ends the walk.
FirstError(words) ==
    LET failed == {i \in DOMAIN words : words[i] \in Failures}
    IN  IF failed = {} THEN "none" ELSE ReadError(words[Min(failed)])

-----------------------------------------------------------------------------
\* One frame

Prev(f) == mem.frames[f].previous

\* cfg(Py_3_11): the instruction is an address.  cfg(Py_3_12): frames have an
\* owner.
Py311 == mem.minor >= 11
HasOwner == mem.minor >= 12

\* FRAME_OWNED_BY_CSTACK up to 3.14, FRAME_OWNED_BY_INTERPRETER from 3.14 on.
SKIP_OWNERS == IF mem.minor = 14 THEN {3, 4} ELSE {3}

\* SKIP_OWNERS & (1 << owner) # 0, for the owners CPython has.
Skipped(f) == HasOwner /\ mem.frames[f].owner \in SKIP_OWNERS

\* EXECUTABLE_MASK: the lowest two bits are tags on 3.14 and later.
TagModulus == IF mem.minor >= 14 THEN 4 ELSE 1

\* executable & EXECUTABLE_MASK, when it could be read.
Code(f) == mem.frames[f].executable - (mem.frames[f].executable % TagModulus)
CodeRead(f) == mem.frames[f].executable \notin Failures

\* What an iteration reads of a frame, in this order.
Reads(f) ==
    LET r == mem.frames[f]
    IN  <<r.previous>> \o (IF HasOwner THEN <<r.owner>> ELSE <<>>)
          \o IF Skipped(f) THEN <<>>
             ELSE <<r.executable, r.instr>>
                    \o IF CodeRead(f) /\ Code(f) # 0 THEN <<mem.types[Code(f)]>> ELSE <<>>

\* Why the stack is dropped at a frame, leaving aside how long it is.
FrameError(f) ==
    IF FirstError(Reads(f)) # "none" THEN FirstError(Reads(f))
    ELSE IF Skipped(f) THEN "none"
    ELSE IF Code(f) = 0 THEN "InvalidCodeType"
    ELSE IF mem.types[Code(f)] # CodeType THEN "InvalidCodeType"
    ELSE "none"

-----------------------------------------------------------------------------
\* unwind_thread

Init ==
    /\ mem \in Memories /\ room \in Rooms
    /\ at = "entry" /\ frame = 0 /\ visited = 0 /\ pushed = <<>> /\ raw = <<>>
    /\ result = "none"

\* A reason is counted once, and nothing of the stack is published.
Drop(reason) == at' = "done" /\ result' = reason

Enter ==
    /\ at = "entry"
    /\ IF mem.tstate = 0 THEN Drop("NoThreadState") /\ UNCHANGED frame
       ELSE IF FirstError(mem.current) # "none"
            THEN Drop(FirstError(mem.current)) /\ UNCHANGED frame
            ELSE at' = "walk" /\ frame' = Last(mem.current) /\ UNCHANGED result
    /\ UNCHANGED <<mem, room, visited, pushed, raw>>

\* Wrong: the last frame that fits is already too many.
StackErrorEarly ==
    IF visited + 1 >= MaxFrames THEN "Truncated"
    ELSE IF FrameError(frame) # "none" THEN FrameError(frame)
    ELSE IF ~Skipped(frame) /\ Len(pushed) >= room THEN "Truncated"
    ELSE "none"

\* Wrong: the slice is taken to be as long as a chain may be.
StackErrorNoRoom ==
    IF visited >= MaxFrames THEN "Truncated" ELSE FrameError(frame)

\* Why an iteration drops the stack: too many frames, a frame that cannot be
\* read or is not Python's, or no room left.
StackError ==
    IF visited >= MaxFrames THEN "Truncated"
    ELSE IF FrameError(frame) # "none" THEN FrameError(frame)
    ELSE IF ~Skipped(frame) /\ Len(pushed) >= room THEN "Truncated"
    ELSE "none"

Visit == at = "walk" /\ frame # 0 /\ StackError = "none" /\ frame' = Prev(frame)

\* Wrong: only the frames that are written count.
VisitSkippedUncounted ==
    /\ Visit /\ Skipped(frame)
    /\ UNCHANGED <<mem, room, at, visited, pushed, raw, result>>

\* A frame of the interpreter is left out.
VisitSkipped ==
    /\ Visit /\ Skipped(frame)
    /\ visited' = visited + 1
    /\ UNCHANGED <<mem, room, at, pushed, raw, result>>

\* A frame is written into the slice.
VisitFrame ==
    /\ Visit /\ ~Skipped(frame)
    /\ visited' = visited + 1 /\ pushed' = Append(pushed, frame)
    /\ UNCHANGED <<mem, room, at, raw, result>>

\* Wrong: a frame that cannot be read ends the chain.
VisitFailsPartial ==
    /\ at = "walk" /\ frame # 0 /\ StackError # "none"
    /\ IF pushed = <<>> THEN Drop(StackError) ELSE at' = "ring" /\ UNCHANGED result
    /\ UNCHANGED <<mem, room, frame, visited, pushed, raw>>

\* The whole stack is dropped.
VisitFails ==
    /\ at = "walk" /\ frame # 0 /\ StackError # "none"
    /\ Drop(StackError)
    /\ UNCHANGED <<mem, room, frame, visited, pushed, raw>>

\* The end of the chain; the handler records the frames.
WalkEnds ==
    /\ at = "walk" /\ frame = 0
    /\ at' = "ring"
    /\ UNCHANGED <<mem, room, frame, visited, pushed, raw, result>>

-----------------------------------------------------------------------------
\* Resolver::resolve_stack, in the sampler thread

Instr(f) == mem.frames[f].instr

\* What py-spy wants for f_lasti: bytes from the code object on, on 3.10 the
\* index as it is, -1 before the first instruction.
instruction_offset(f) == IF Py311 THEN Instr(f) - Code(f) ELSE Instr(f)

\* InstructionBeforeCode, or InstructionOffset.
OffsetFails(f) == \/ Py311 /\ Instr(f) < Code(f)
                  \/ instruction_offset(f) \notin Offsets

RawFrame(f) == [code |-> Code(f), lasti |-> IF LastLine THEN instruction_offset(f) ELSE 0]

\* py-spy may fail on any stack: its code objects may be gone by now.
Resolve ==
    /\ at = "ring" /\ at' = "done"
    /\ IF LastLine /\ \E i \in DOMAIN pushed : OffsetFails(pushed[i])
       THEN result' = "resolve_error" /\ UNCHANGED raw
       ELSE /\ raw' = [i \in DOMAIN pushed |-> RawFrame(pushed[i])]
            /\ result' \in {"ok", "resolve_error"}
    /\ UNCHANGED <<mem, room, frame, visited, pushed>>

Next == \/ Enter \/ VisitSkipped \/ VisitFrame \/ VisitFails \/ WalkEnds \/ Resolve

\* A handler that was entered runs, and the sampler thread drains the ring.
Spec == Init /\ [][Next]_vars /\ WF_vars(Next)

-----------------------------------------------------------------------------
\* The chain of the interrupted thread, defined without a walk

Top == Last(mem.current)
Entered == mem.tstate # 0 /\ FirstError(mem.current) = "none"

\* The chain is the least set of frames that holds the current one and, of each
\* of its frames, the caller.
Closed(S) == \A f \in S : Prev(f) \in Failures \cup {0} \cup S

\* The frame f, its caller, and so on.
Callers(f) == CHOOSE S \in SUBSET DOMAIN mem.frames :
                 /\ f \in S /\ Closed(S)
                 /\ \A T \in SUBSET S : f \in T /\ Closed(T) => S \subseteq T

Chain == IF Entered /\ Top # 0 THEN Callers(Top) ELSE {}
Loops == Chain # {} /\ \A f \in Chain : Prev(f) \in Chain
Visible == {f \in Chain : ~Skipped(f)}

-----------------------------------------------------------------------------
\* Properties

Reasons == {"NoThreadState", "Read", "InvalidCodeType", "Truncated", "Invalid",
            "resolve_error"}

\* Every variable has its type; the walk stays inside the slice and the bound.
TypeOK ==
    /\ room \in Rooms /\ at \in {"entry", "walk", "ring", "done"}
    /\ frame \in {0} \cup DOMAIN mem.frames
    /\ visited \in 0 .. MaxFrames
    /\ Len(pushed) =< room /\ Range(pushed) \subseteq DOMAIN mem.frames
    /\ result \in {"none", "ok"} \cup Reasons
    /\ (at = "done") = (result # "none")

\* A stack that reaches the ring is the whole stack of the thread, innermost
\* frame first: every visible frame of the chain once, each before its callers,
\* no frame of it unreadable, and at most MAX_FRAMES of them (walk: "Never
\* publish a partial stack").  What reaches py-spy are their code objects, each
\* with an offset inside i32: f_lasti itself on 3.10, negative or not, and from
\* 3.11 on one that leads from the code object to the instruction
\* (instruction_offset, resolve_stack).
CompleteStack ==
    at = "ring" \/ result = "ok" =>
        /\ Entered /\ ~Loops /\ Cardinality(Chain) =< MaxFrames
        /\ \A f \in Chain : FrameError(f) = "none"
        /\ IsInjective(pushed) /\ Range(pushed) = Visible
        /\ \A i, j \in DOMAIN pushed : i < j => pushed[j] \in Callers(pushed[i])
        /\ result = "ok" =>
             /\ DOMAIN raw = DOMAIN pushed
             /\ \A i \in DOMAIN raw :
                  /\ mem.types[raw[i].code] = CodeType /\ raw[i].lasti \in Offsets
                  /\ LastLine /\ Py311 => /\ raw[i].lasti >= 0
                                          /\ raw[i].code + raw[i].lasti = Instr(pushed[i])
                  /\ LastLine /\ ~Py311 => raw[i].lasti = Instr(pushed[i])

\* No stack is dropped without a reason, and the reason that is counted is one
\* the stack has: a chain that can be read, ends and fits is never dropped, not
\* even one of exactly MAX_FRAMES frames or one that just fits the slice.
DroppedForAReason ==
    at = "done" /\ result \notin {"ok", "resolve_error"} =>
        \/ result = "NoThreadState" /\ mem.tstate = 0
        \/ result = FirstError(mem.current) /\ mem.tstate # 0
        \/ \E f \in Chain : result = FrameError(f)
        \/ /\ result = "Truncated"
           /\ Loops \/ Cardinality(Chain) > MaxFrames \/ Cardinality(Visible) > room

\* The handler returns, also from a chain that loops, through frames that are
\* written or frames that are skipped.
HandlerReturns == at = "entry" ~> at \in {"ring", "done"}
=============================================================================
