----------------------------- MODULE MCFrameWalk -----------------------------
(***************************************************************************)
(* TLC instance of FrameWalk: every chain over three frames, with at most  *)
(* one frame that differs in one field from a good one, on 3.14; and on    *)
(* 3.10 to 3.13 those of them whose good frames are all visible.           *)
(***************************************************************************)
EXTENDS FrameWalk

FrameAddrs == 1 .. 3

\* Code objects: a good one, one that is not mapped, one at the end of the
\* address space; all the rest is of another type.
MCTypes == [c \in {1, 12, 13, 16, 20, 24} |->
              CASE c = 12 -> CodeType [] c = 20 -> Unmapped [] c = 24 -> Overflows
                [] OTHER -> CodeType + 1]

\* An instruction one past the code object; on 3.10 the first one.
GoodInstr(minor) == IF minor >= 11 THEN 13 ELSE 0

GoodFrames(minor, owners) ==
    [previous : {0} \cup FrameAddrs, owner : owners, executable : {12},
     instr : {GoodInstr(minor)}]

\* A tagged pointer, null, tagged null and the code objects that are not good;
\* an instruction before its code object, the last offset and one too far; on
\* 3.10 no instruction yet and both ends of i32; other owners; failures.
Odd(r, minor) ==
    LET instrs == IF minor >= 11 THEN {11, 12, 17, 18} ELSE {-1, MaxOffset, -(MaxOffset + 1)}
    IN  {[r EXCEPT !.executable = e] : e \in {13, 0, 1, 16, 20, 24} \cup Failures}
          \cup {[r EXCEPT !.instr = i] : i \in instrs \cup Failures}
          \cup {[r EXCEPT !.owner = o] : o \in {3, 4} \cup Failures}
          \cup {[r EXCEPT !.previous = p] : p \in Failures}

Chains(minor, owners) ==
    LET frames == GoodFrames(minor, owners)
        good == [FrameAddrs -> frames]
    IN  good \cup {[c EXCEPT ![f] = r] : c \in good, f \in FrameAddrs,
                                         r \in UNION {Odd(g, minor) : g \in frames}}

\* The words read to reach the current frame, after the CFrame if there is one.
Current(minor, w) == IF minor \in {11, 12} THEN <<28, w>> ELSE <<w>>

MemoriesOf(minor, owners) ==
    LET memory(t, c, fs) == [minor |-> minor, tstate |-> t, current |-> c, frames |-> fs,
                             types |-> MCTypes]
        one == [f \in FrameAddrs |-> [previous |-> 0, owner |-> 0, executable |-> 12,
                                      instr |-> GoodInstr(minor)]]
    IN  {memory(1, Current(minor, 1), fs) : fs \in Chains(minor, owners)}
          \cup {memory(0, Current(minor, 1), one), memory(1, Current(minor, 0), one)}
          \cup {memory(1, Current(minor, w), one) : w \in Failures}
          \cup {memory(1, <<w, 1>>, one) : w \in IF minor \in {11, 12} THEN Failures ELSE {}}

MCMemories == MemoriesOf(14, {0, 3}) \cup UNION {MemoriesOf(minor, {0}) : minor \in 10 .. 13}
=============================================================================
