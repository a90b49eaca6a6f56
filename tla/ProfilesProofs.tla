-------------------------- MODULE ProfilesProofs --------------------------
(***************************************************************************)
(* Proofs about Profiles, for any stacks, strings and number of samples:   *)
(* ids that are handed out keep their strings, a profile reads as the      *)
(* samples recorded for it, shutdown() and the hook of a child leave       *)
(* nothing behind, and no child waits for a lock that a thread it does not *)
(* have held.                                                              *)
(***************************************************************************)
EXTENDS Profiles, PprofProofs

-----------------------------------------------------------------------------
(***************************************************************************)
(* The invariant                                                           *)
(***************************************************************************)

\* The places of a teardown, of a child's hook before it, and of a memory dump.
Teardown == {"stop_memory", "stop_stack", "sampler_stop", "clear", "clear_table"}
Hook == {"hook_memory", "hook_stack", "hook_table"}
MemoryDump == {"memory_heap", "memory_lock", "memory_table", "memory_take"}

\* The stacks and ids of recorders and tracebacks.
Traceback == [stack : Stacks \cup {<<>>}, ids : Seq(Nat)]

\* There is a builder of each kind.
Builders == /\ builder = [k \in Kinds |-> builder[k]]
            /\ recorded = [k \in Kinds |-> recorded[k]]

\* The types of what is not data.
ControlTypes ==
    /\ on \in [Kinds -> BOOLEAN] /\ rec \in [Kinds -> Traceback] /\ live \subseteq Traceback
    /\ gil \in {"free", "hook", "dump", "caller"}
    /\ snapshot \in MemoryDump \cup {"none", "wait", "cpu_lock", "cpu_table", "cpu_take"}
    /\ life \in Teardown \cup Hook \cup {"off", "start_stack", "install", "on", "attach"}
    /\ proc \in {"parent", "hook", "child"} /\ locked \subseteq Kinds \cup {"table"}

\* The GIL is with the hook, the dump and the caller while they need it, and the
\* snapshot thread exists while the agent is on.
Turns ==
    /\ rec["memory"] # Idle => gil = "hook"
    /\ gil = "dump" <=> snapshot \in MemoryDump
    /\ gil = "caller" <=>
         life \in (Teardown \ {"sampler_stop"}) \cup Hook \cup {"start_stack"}
    /\ snapshot # "none" <=> life = "on"

\* A lock that the fork copied is replaced by the step of the hook for it.
Inherited ==
    /\ locked # {} => life \in Hook
    /\ life = "hook_stack" => "memory" \notin locked
    /\ life = "hook_table" => locked \subseteq {"table"}
    /\ life \in Hook => proc = "hook"
    /\ proc = "hook" => life \in Hook \cup Teardown

\* What each step of the teardown has left clean, and keeps clean.
Clean ==
    /\ rec["cpu"] # Idle => on["cpu"] \/ life = "sampler_stop"
    /\ proc = "hook" => \A k \in Kinds : rec[k] = Idle
    /\ life \in (Teardown \ {"stop_memory"}) \cup {"off"} =>
         /\ ~on["memory"] /\ live = {}
         /\ builder["memory"] = NewBuilder /\ rec["memory"] = Idle
    /\ life \in {"sampler_stop", "clear", "clear_table", "off"} => ~on["cpu"]
    /\ life \in {"clear", "clear_table", "off"} => rec["cpu"] = Idle
    /\ life \in {"clear_table", "off"} => builder["cpu"] = NewBuilder
    /\ life = "off" => table = NewTable
    /\ life \in {"hook_stack", "hook_table"} => builder["memory"] = NewBuilder
    /\ life = "hook_table" => builder["cpu"] = NewBuilder

\* The ids of r stand for its strings in the table t.
Resolved(r, t) ==
    \A i \in DOMAIN r.ids : r.ids[i] < Len(t) /\ t[r.ids[i] + 1] = Text(Strings(r.stack)[i])

\* The ids that are held outside the hook of a child do.
Held == proc # "hook" => /\ \A k \in Kinds : Resolved(rec[k], table)
                         /\ \A r \in live : Resolved(r, table)

ProfilesInv ==
    ControlTypes /\ Builders /\ Turns /\ Inherited /\ Clean /\ Held /\ IsTable(table)

-----------------------------------------------------------------------------
(***************************************************************************)
(* Its steps                                                               *)
(***************************************************************************)

\* What the samples of the live heap leave alone, whichever they are.
LEMMA HeapFacts ==
    ASSUME HeapSamples
    PROVE  /\ snapshot = "memory_heap" /\ snapshot' = "memory_lock"
           /\ UNCHANGED <<table, on, rec, live, gil, life, proc, locked, captured>>
           /\ \E b : builder' = [builder EXCEPT !["memory"] = b]
           /\ \E h : recorded' = [recorded EXCEPT !["memory"] = h]
BY Zenon DEF HeapSamples, Push, At, fork

\* The types are inductive.
LEMMA TypesStep ==
    ASSUME ControlTypes, Turns, Clean, IsTable(table), Next
    PROVE  ControlTypes'
<1> USE DEF Teardown, Hook, MemoryDump, Kinds, Idle, NoProfile, fork
<1>1. ASSUME NEW k \in Kinds, Capture(k) PROVE ControlTypes'
  BY <1>1, StackAssumption DEF Capture, ControlTypes, Traceback
<1>2. ASSUME NEW k \in Kinds, Intern(k) PROVE ControlTypes'
  <2> DEFINE s == Text(Strings(rec[k].stack)[Len(rec[k].ids) + 1])
  <2> DEFINE n == IndexOf(add(table, s), s)
  <2>1. rec' = [rec EXCEPT ![k].ids = Append(@, n)]
    BY <1>2, Zenon DEF Intern
  <2>2. n \in Nat
    BY AddKeeps, IndexResolves
  <2> HIDE DEF n
  <2>3. rec[k] \in Traceback /\ Append(rec[k].ids, n) \in Seq(Nat)
    BY <2>2 DEF ControlTypes, Traceback
  <2>4. [rec[k] EXCEPT !.ids = Append(@, n)] \in Traceback
    BY <2>3 DEF Traceback
  <2>5. rec' = [rec EXCEPT ![k] = [rec[k] EXCEPT !.ids = Append(@, n)]]
    BY <2>1
  <2>6. rec' \in [Kinds -> Traceback]
    BY <2>4, <2>5, Zenon DEF ControlTypes
  <2> QED BY <2>6, <1>2 DEF Intern, ControlTypes
<1>3. ASSUME NEW k \in Kinds, PushSample(k) PROVE ControlTypes'
  BY <1>3, StackAssumption DEF PushSample, Push, Interned, ControlTypes, Traceback
<1>4. CASE Free
  BY <1>4, StackAssumption DEF Free, ControlTypes, Traceback
<1>5. CASE DumpAttach
  BY <1>5, StackAssumption DEF DumpAttach, At, ControlTypes, Traceback
<1>6. CASE HeapSamples
  BY HeapFacts, <1>6 DEF ControlTypes, Traceback
<1>7. CASE LockTable
  BY <1>7, StackAssumption DEF LockTable, At, ControlTypes, Traceback
<1>8. CASE LockBuilder
  BY <1>8, StackAssumption DEF LockBuilder, At, ControlTypes, Traceback
<1>9. CASE TakeMemory
  BY <1>9, StackAssumption DEF TakeMemory, At, Take, reset, ControlTypes, Traceback
<1>10. CASE TakeCpu
  BY <1>10, StackAssumption DEF TakeCpu, At, Take, reset, ControlTypes, Traceback
<1>11. CASE StartMemory
  BY <1>11, StackAssumption DEF StartMemory, Goto, ControlTypes, Traceback
<1>12. CASE StartStack
  BY <1>12, StackAssumption DEF StartStack, Goto, ControlTypes, Traceback
<1>13. CASE StartAgent
  BY <1>13, StackAssumption DEF StartAgent, Goto, ControlTypes, Traceback
<1>14. CASE StartFails
  BY <1>14, StackAssumption DEF StartFails, Goto, ControlTypes, Traceback
<1>15. CASE JoinSnapshot
  BY <1>15, StackAssumption DEF JoinSnapshot, Goto, At, ControlTypes, Traceback
<1>16. CASE Attach
  BY <1>16, StackAssumption DEF Attach, Goto, ControlTypes, Traceback
<1>17. CASE StopMemory
  BY <1>17, StackAssumption DEF StopMemory, Goto, ClearSamples, reset, ControlTypes,
      Traceback
<1>18. CASE StopStack
  BY <1>18, StackAssumption DEF StopStack, Goto, ControlTypes, Traceback
<1>19. CASE SamplerStop
  BY <1>19, StackAssumption DEF SamplerStop, Goto, ControlTypes, Traceback
<1>20. CASE ClearStack
  BY <1>20, StackAssumption DEF ClearStack, Goto, ClearSamples, reset, ControlTypes,
      Traceback
<1>21. CASE ClearTable
  BY <1>21, StackAssumption DEF ClearTable, Goto, ControlTypes, Traceback
<1>22. CASE Fork
  BY <1>22, StackAssumption DEF Fork, SamplerLocks, TableInUse, InDump, ControlTypes,
      Traceback
<1>23. CASE HookMemory
  BY <1>23, StackAssumption DEF HookMemory, Goto, LeakBuilder, ControlTypes, Traceback
<1>24. CASE HookStack
  BY <1>24, StackAssumption DEF HookStack, Goto, LeakBuilder, ControlTypes, Traceback
<1>25. CASE HookTable
  BY <1>25, StackAssumption DEF HookTable, Goto, ControlTypes, Traceback
<1> QED BY <1>1, <1>2, <1>3, <1>4, <1>5, <1>6, <1>7, <1>8, <1>9, <1>10, <1>11, <1>12,
    <1>13, <1>14, <1>15, <1>16, <1>17, <1>18, <1>19, <1>20, <1>21, <1>22, <1>23, <1>24,
    <1>25 DEF Next

\* There is still a builder of each kind.
LEMMA BuildersStep == ASSUME Builders, Next PROVE Builders'
<1> USE DEF Teardown, Hook, MemoryDump, Kinds, Idle, NoProfile, fork
<1>1. ASSUME NEW k \in Kinds, Capture(k) PROVE Builders'
  BY <1>1, StackAssumption DEF Capture, Builders
<1>2. ASSUME NEW k \in Kinds, Intern(k) PROVE Builders'
  BY <1>2, StackAssumption DEF Intern, Interned, Builders
<1>3. ASSUME NEW k \in Kinds, PushSample(k) PROVE Builders'
  BY <1>3, StackAssumption DEF PushSample, Push, Interned, Builders
<1>4. CASE Free
  BY <1>4, StackAssumption DEF Free, Builders
<1>5. CASE DumpAttach
  BY <1>5, StackAssumption DEF DumpAttach, At, Builders
<1>6. CASE HeapSamples
  BY HeapFacts, <1>6 DEF Builders
<1>7. CASE LockTable
  BY <1>7, StackAssumption DEF LockTable, At, Builders
<1>8. CASE LockBuilder
  BY <1>8, StackAssumption DEF LockBuilder, At, Builders
<1>9. CASE TakeMemory
  BY <1>9, StackAssumption DEF TakeMemory, At, Take, reset, Builders
<1>10. CASE TakeCpu
  BY <1>10, StackAssumption DEF TakeCpu, At, Take, reset, Builders
<1>11. CASE StartMemory
  BY <1>11, StackAssumption DEF StartMemory, Goto, Builders
<1>12. CASE StartStack
  BY <1>12, StackAssumption DEF StartStack, Goto, Builders
<1>13. CASE StartAgent
  BY <1>13, StackAssumption DEF StartAgent, Goto, Builders
<1>14. CASE StartFails
  BY <1>14, StackAssumption DEF StartFails, Goto, Builders
<1>15. CASE JoinSnapshot
  BY <1>15, StackAssumption DEF JoinSnapshot, Goto, At, Builders
<1>16. CASE Attach
  BY <1>16, StackAssumption DEF Attach, Goto, Builders
<1>17. CASE StopMemory
  BY <1>17, StackAssumption DEF StopMemory, Goto, ClearSamples, reset, Builders
<1>18. CASE StopStack
  BY <1>18, StackAssumption DEF StopStack, Goto, Builders
<1>19. CASE SamplerStop
  BY <1>19, StackAssumption DEF SamplerStop, Goto, Builders
<1>20. CASE ClearStack
  BY <1>20, StackAssumption DEF ClearStack, Goto, ClearSamples, reset, Builders
<1>21. CASE ClearTable
  BY <1>21, StackAssumption DEF ClearTable, Goto, Builders
<1>22. CASE Fork
  BY <1>22, StackAssumption DEF Fork, SamplerLocks, TableInUse, InDump, Builders
<1>23. CASE HookMemory
  BY <1>23, StackAssumption DEF HookMemory, Goto, LeakBuilder, Builders
<1>24. CASE HookStack
  BY <1>24, StackAssumption DEF HookStack, Goto, LeakBuilder, Builders
<1>25. CASE HookTable
  BY <1>25, StackAssumption DEF HookTable, Goto, Builders
<1> QED BY <1>1, <1>2, <1>3, <1>4, <1>5, <1>6, <1>7, <1>8, <1>9, <1>10, <1>11, <1>12,
    <1>13, <1>14, <1>15, <1>16, <1>17, <1>18, <1>19, <1>20, <1>21, <1>22, <1>23, <1>24,
    <1>25 DEF Next

\* The GIL and the snapshot thread.
LEMMA TurnsStep == ASSUME ControlTypes, Turns, Clean, Next PROVE Turns'
<1> USE DEF Teardown, Hook, MemoryDump, Kinds, Idle, NoProfile, fork
<1>1. ASSUME NEW k \in Kinds, Capture(k) PROVE Turns'
  BY <1>1, StackAssumption DEF Capture, ControlTypes, Traceback, Turns
<1>2. ASSUME NEW k \in Kinds, Intern(k) PROVE Turns'
  BY <1>2, StackAssumption DEF Intern, Interned, ControlTypes, Traceback, Turns
<1>3. ASSUME NEW k \in Kinds, PushSample(k) PROVE Turns'
  BY <1>3, StackAssumption DEF PushSample, Push, Interned, ControlTypes, Traceback, Turns
<1>4. CASE Free
  BY <1>4, StackAssumption DEF Free, ControlTypes, Traceback, Turns
<1>5. CASE DumpAttach
  BY <1>5, StackAssumption DEF DumpAttach, At, ControlTypes, Traceback, Turns
<1>6. CASE HeapSamples
  BY HeapFacts, <1>6 DEF ControlTypes, Traceback, Turns
<1>7. CASE LockTable
  BY <1>7, StackAssumption DEF LockTable, At, ControlTypes, Traceback, Turns
<1>8. CASE LockBuilder
  BY <1>8, StackAssumption DEF LockBuilder, At, ControlTypes, Traceback, Turns
<1>9. CASE TakeMemory
  BY <1>9, StackAssumption DEF TakeMemory, At, Take, reset, ControlTypes, Traceback, Turns
<1>10. CASE TakeCpu
  BY <1>10, StackAssumption DEF TakeCpu, At, Take, reset, ControlTypes, Traceback, Turns
<1>11. CASE StartMemory
  BY <1>11, StackAssumption DEF StartMemory, Goto, ControlTypes, Traceback, Turns
<1>12. CASE StartStack
  BY <1>12, StackAssumption DEF StartStack, Goto, ControlTypes, Traceback, Turns
<1>13. CASE StartAgent
  BY <1>13, StackAssumption DEF StartAgent, Goto, ControlTypes, Traceback, Turns
<1>14. CASE StartFails
  BY <1>14, StackAssumption DEF StartFails, Goto, ControlTypes, Traceback, Turns
<1>15. CASE JoinSnapshot
  BY <1>15, StackAssumption DEF JoinSnapshot, Goto, At, ControlTypes, Traceback, Turns
<1>16. CASE Attach
  BY <1>16, StackAssumption DEF Attach, Goto, ControlTypes, Traceback, Turns
<1>17. CASE StopMemory
  BY <1>17, StackAssumption DEF StopMemory, Goto, ClearSamples, reset, ControlTypes,
      Traceback, Turns
<1>18. CASE StopStack
  BY <1>18, StackAssumption DEF StopStack, Goto, ControlTypes, Traceback, Turns
<1>19. CASE SamplerStop
  BY <1>19, StackAssumption DEF SamplerStop, Goto, ControlTypes, Traceback, Turns
<1>20. CASE ClearStack
  BY <1>20, StackAssumption DEF ClearStack, Goto, ClearSamples, reset, ControlTypes,
      Traceback, Turns
<1>21. CASE ClearTable
  BY <1>21, StackAssumption DEF ClearTable, Goto, ControlTypes, Traceback, Turns
<1>22. CASE Fork
  BY <1>22, StackAssumption DEF Fork, SamplerLocks, TableInUse, InDump, ControlTypes,
      Traceback, Turns
<1>23. CASE HookMemory
  BY <1>23, StackAssumption DEF HookMemory, Goto, LeakBuilder, ControlTypes, Traceback,
      Turns
<1>24. CASE HookStack
  BY <1>24, StackAssumption DEF HookStack, Goto, LeakBuilder, ControlTypes, Traceback,
      Turns
<1>25. CASE HookTable
  BY <1>25, StackAssumption DEF HookTable, Goto, ControlTypes, Traceback, Turns
<1> QED BY <1>1, <1>2, <1>3, <1>4, <1>5, <1>6, <1>7, <1>8, <1>9, <1>10, <1>11, <1>12,
    <1>13, <1>14, <1>15, <1>16, <1>17, <1>18, <1>19, <1>20, <1>21, <1>22, <1>23, <1>24,
    <1>25 DEF Next

\* The locks of a child.
LEMMA InheritedStep == ASSUME ControlTypes, Turns, Inherited, Next PROVE Inherited'
<1> USE DEF Teardown, Hook, MemoryDump, Kinds, Idle, NoProfile, fork
<1>1. ASSUME NEW k \in Kinds, Capture(k) PROVE Inherited'
  BY <1>1, StackAssumption DEF Capture, ControlTypes, Inherited
<1>2. ASSUME NEW k \in Kinds, Intern(k) PROVE Inherited'
  BY <1>2, StackAssumption DEF Intern, Interned, ControlTypes, Inherited
<1>3. ASSUME NEW k \in Kinds, PushSample(k) PROVE Inherited'
  BY <1>3, StackAssumption DEF PushSample, Push, Interned, ControlTypes, Inherited
<1>4. CASE Free
  BY <1>4, StackAssumption DEF Free, ControlTypes, Inherited
<1>5. CASE DumpAttach
  BY <1>5, StackAssumption DEF DumpAttach, At, ControlTypes, Inherited
<1>6. CASE HeapSamples
  BY HeapFacts, <1>6 DEF Turns, Inherited
<1>7. CASE LockTable
  BY <1>7, StackAssumption DEF LockTable, At, ControlTypes, Inherited
<1>8. CASE LockBuilder
  BY <1>8, StackAssumption DEF LockBuilder, At, ControlTypes, Inherited
<1>9. CASE TakeMemory
  BY <1>9, StackAssumption DEF TakeMemory, At, Take, reset, ControlTypes, Inherited
<1>10. CASE TakeCpu
  BY <1>10, StackAssumption DEF TakeCpu, At, Take, reset, ControlTypes, Inherited
<1>11. CASE StartMemory
  BY <1>11, StackAssumption DEF StartMemory, Goto, ControlTypes, Inherited
<1>12. CASE StartStack
  BY <1>12, StackAssumption DEF StartStack, Goto, ControlTypes, Inherited
<1>13. CASE StartAgent
  BY <1>13, StackAssumption DEF StartAgent, Goto, ControlTypes, Inherited
<1>14. CASE StartFails
  BY <1>14, StackAssumption DEF StartFails, Goto, ControlTypes, Inherited
<1>15. CASE JoinSnapshot
  BY <1>15, StackAssumption DEF JoinSnapshot, Goto, At, ControlTypes, Inherited
<1>16. CASE Attach
  BY <1>16, StackAssumption DEF Attach, Goto, ControlTypes, Inherited
<1>17. CASE StopMemory
  BY <1>17, StackAssumption DEF StopMemory, Goto, ClearSamples, reset, ControlTypes,
      Inherited
<1>18. CASE StopStack
  BY <1>18, StackAssumption DEF StopStack, Goto, ControlTypes, Inherited
<1>19. CASE SamplerStop
  BY <1>19, StackAssumption DEF SamplerStop, Goto, ControlTypes, Inherited
<1>20. CASE ClearStack
  BY <1>20, StackAssumption DEF ClearStack, Goto, ClearSamples, reset, ControlTypes,
      Inherited
<1>21. CASE ClearTable
  BY <1>21, StackAssumption DEF ClearTable, Goto, ControlTypes, Inherited
<1>22. CASE Fork
  BY <1>22, StackAssumption DEF Fork, SamplerLocks, TableInUse, InDump, ControlTypes,
      Inherited
<1>23. CASE HookMemory
  BY <1>23, StackAssumption DEF HookMemory, Goto, LeakBuilder, ControlTypes, Inherited
<1>24. CASE HookStack
  BY <1>24, StackAssumption DEF HookStack, Goto, LeakBuilder, ControlTypes, Inherited
<1>25. CASE HookTable
  <2>1. life = "hook_table" /\ life' = "stop_memory" /\ proc' = proc
    BY <1>25 DEF HookTable, Goto
  <2>2. locked' = {}
    BY <1>25, <2>1 DEF HookTable, Inherited
  <2> QED BY <2>1, <2>2 DEF Inherited
<1> QED BY <1>1, <1>2, <1>3, <1>4, <1>5, <1>6, <1>7, <1>8, <1>9, <1>10, <1>11, <1>12,
    <1>13, <1>14, <1>15, <1>16, <1>17, <1>18, <1>19, <1>20, <1>21, <1>22, <1>23, <1>24,
    <1>25 DEF Next

\* What the teardown cleans.
LEMMA CleanStep == ASSUME ControlTypes, Builders, Turns, Inherited, Clean, Next PROVE Clean'
<1> USE DEF Teardown, Hook, MemoryDump, Kinds, Idle, NoProfile, fork
<1>1. ASSUME NEW k \in Kinds, Capture(k) PROVE Clean'
  BY <1>1, StackAssumption DEF Capture, ControlTypes, Traceback, Turns, Inherited, Clean
<1>2. ASSUME NEW k \in Kinds, Intern(k) PROVE Clean'
  <2>1. /\ rec[k] # Idle /\ \A j \in Kinds : rec[j] = Idle => rec'[j] = Idle
        /\ UNCHANGED <<builder, on, live, life, proc, gil>>
    BY <1>2 DEF Intern, ControlTypes, Traceback
  <2>2. life # "off"
    BY <2>1 DEF Clean
  <2> QED BY <2>1, <2>2 DEF Clean
<1>3. ASSUME NEW k \in Kinds, PushSample(k) PROVE Clean'
  BY <1>3, StackAssumption DEF PushSample, Push, Interned, ControlTypes, Traceback, Turns,
      Inherited, Clean
<1>4. CASE Free
  BY <1>4, StackAssumption DEF Free, ControlTypes, Traceback, Turns, Inherited, Clean
<1>5. CASE DumpAttach
  BY <1>5, StackAssumption DEF DumpAttach, At, ControlTypes, Traceback, Turns, Inherited,
      Clean
<1>6. CASE HeapSamples
  BY HeapFacts, <1>6 DEF Turns, Inherited, Clean
<1>7. CASE LockTable
  BY <1>7, StackAssumption DEF LockTable, At, ControlTypes, Traceback, Turns, Inherited,
      Clean
<1>8. CASE LockBuilder
  BY <1>8, StackAssumption DEF LockBuilder, At, ControlTypes, Traceback, Turns, Inherited,
      Clean
<1>9. CASE TakeMemory
  BY <1>9, StackAssumption DEF TakeMemory, At, Take, reset, ControlTypes, Traceback,
      Turns, Inherited, Clean
<1>10. CASE TakeCpu
  BY <1>10, StackAssumption DEF TakeCpu, At, Take, reset, ControlTypes, Traceback, Turns,
      Inherited, Clean
<1>11. CASE StartMemory
  BY <1>11, StackAssumption DEF StartMemory, Goto, ControlTypes, Traceback, Turns,
      Inherited, Clean
<1>12. CASE StartStack
  BY <1>12, StackAssumption DEF StartStack, Goto, ControlTypes, Traceback, Turns,
      Inherited, Clean
<1>13. CASE StartAgent
  BY <1>13, StackAssumption DEF StartAgent, Goto, ControlTypes, Traceback, Turns,
      Inherited, Clean
<1>14. CASE StartFails
  BY <1>14, StackAssumption DEF StartFails, Goto, ControlTypes, Traceback, Turns,
      Inherited, Clean
<1>15. CASE JoinSnapshot
  BY <1>15, StackAssumption DEF JoinSnapshot, Goto, At, ControlTypes, Traceback, Turns,
      Inherited, Clean
<1>16. CASE Attach
  BY <1>16, StackAssumption DEF Attach, Goto, ControlTypes, Traceback, Turns, Inherited,
      Clean
<1>17. CASE StopMemory
  <2>1. builder'["memory"] = NewBuilder
    BY <1>17 DEF StopMemory, ClearSamples, reset, Builders
  <2>2. life = "stop_memory" /\ life' = "stop_stack" /\ live' = {} /\ ~on'["memory"]
    BY <1>17 DEF StopMemory, Goto, ControlTypes
  <2>3. rec["memory"] = Idle /\ rec' = rec /\ on'["cpu"] = on["cpu"] /\ proc' = proc
    BY <1>17, <2>2 DEF StopMemory, Turns, ControlTypes
  <2> QED BY <2>1, <2>2, <2>3 DEF Clean
<1>18. CASE StopStack
  BY <1>18, StackAssumption DEF StopStack, Goto, ControlTypes, Traceback, Turns,
      Inherited, Clean
<1>19. CASE SamplerStop
  BY <1>19, StackAssumption DEF SamplerStop, Goto, ControlTypes, Traceback, Turns,
      Inherited, Clean
<1>20. CASE ClearStack
  <2>1. builder'["cpu"] = NewBuilder /\ builder'["memory"] = builder["memory"]
    BY <1>20 DEF ClearStack, ClearSamples, reset, Builders
  <2>2. life = "clear" /\ life' = "clear_table" /\ UNCHANGED <<on, rec, live, proc>>
    BY <1>20, Zenon DEF ClearStack, Goto, fork
  <2> QED BY <2>1, <2>2 DEF Clean
<1>21. CASE ClearTable
  BY <1>21, StackAssumption DEF ClearTable, Goto, ControlTypes, Traceback, Turns,
      Inherited, Clean
<1>22. CASE Fork
  BY <1>22, StackAssumption DEF Fork, SamplerLocks, TableInUse, InDump, ControlTypes,
      Traceback, Turns, Inherited, Clean
<1>23. CASE HookMemory
  <2>1. builder'["memory"] = NewBuilder
    BY <1>23 DEF HookMemory, LeakBuilder, Builders
  <2>2. life' = "hook_stack" /\ life = "hook_memory" /\ UNCHANGED <<on, rec, live, proc>>
    BY <1>23, Zenon DEF HookMemory, LeakBuilder, Goto
  <2> QED BY <2>1, <2>2 DEF Clean
<1>24. CASE HookStack
  <2>1. builder'["cpu"] = NewBuilder /\ builder'["memory"] = builder["memory"]
    BY <1>24 DEF HookStack, LeakBuilder, Builders
  <2>2. life' = "hook_table" /\ life = "hook_stack" /\ UNCHANGED <<on, rec, live, proc>>
    BY <1>24, Zenon DEF HookStack, LeakBuilder, Goto
  <2> QED BY <2>1, <2>2 DEF Clean
<1>25. CASE HookTable
  BY <1>25, StackAssumption DEF HookTable, Goto, ControlTypes, Traceback, Turns,
      Inherited, Clean
<1> QED BY <1>1, <1>2, <1>3, <1>4, <1>5, <1>6, <1>7, <1>8, <1>9, <1>10, <1>11, <1>12,
    <1>13, <1>14, <1>15, <1>16, <1>17, <1>18, <1>19, <1>20, <1>21, <1>22, <1>23, <1>24,
    <1>25 DEF Next

\* The table stays one.
LEMMA TableStep == ASSUME IsTable(table), Next PROVE IsTable(table')
<1> USE DEF NoProfile, fork
<1>1. ASSUME NEW k \in Kinds, Capture(k) PROVE IsTable(table')
  BY <1>1, Zenon DEF Capture
<1>2. ASSUME NEW k \in Kinds, Intern(k) PROVE IsTable(table')
  <2> DEFINE u == add(table, Text(Strings(rec[k].stack)[Len(rec[k].ids) + 1]))
  <2>1. table' = u
    BY <1>2, Zenon DEF Intern
  <2>2. IsTable(u)
    BY AddKeeps
  <2> QED BY <2>1, <2>2
<1>3. ASSUME NEW k \in Kinds, PushSample(k) PROVE IsTable(table')
  BY <1>3, Zenon DEF PushSample
<1>4. CASE Free
  BY <1>4, Zenon DEF Free
<1>5. CASE DumpAttach
  BY <1>5, Zenon DEF DumpAttach
<1>6. CASE HeapSamples
  BY HeapFacts, <1>6
<1>7. CASE LockTable
  BY <1>7, Zenon DEF LockTable
<1>8. CASE LockBuilder
  BY <1>8, Zenon DEF LockBuilder
<1>9. CASE TakeMemory
  <2>1. table' = set_profile_type(table, "memory")
    BY <1>9, Zenon DEF TakeMemory, Take
  <2> QED BY <2>1, TypesAdded DEF Kinds, Types
<1>10. CASE TakeCpu
  <2>1. table' = set_profile_type(table, "cpu")
    BY <1>10, Zenon DEF TakeCpu, Take
  <2> QED BY <2>1, TypesAdded DEF Kinds, Types
<1>11. CASE StartMemory
  BY <1>11, Zenon DEF StartMemory
<1>12. CASE StartStack
  BY <1>12, Zenon DEF StartStack
<1>13. CASE StartAgent
  BY <1>13, Zenon DEF StartAgent
<1>14. CASE StartFails
  BY <1>14, Zenon DEF StartFails
<1>15. CASE JoinSnapshot
  BY <1>15, Zenon DEF JoinSnapshot
<1>16. CASE Attach
  BY <1>16, Zenon DEF Attach
<1>17. CASE StopMemory
  BY <1>17, Zenon DEF StopMemory
<1>18. CASE StopStack
  BY <1>18, Zenon DEF StopStack
<1>19. CASE SamplerStop
  BY <1>19, Zenon DEF SamplerStop
<1>20. CASE ClearStack
  BY <1>20, Zenon DEF ClearStack
<1>21. CASE ClearTable
  BY <1>21, NewIsTable DEF ClearTable
<1>22. CASE Fork
  BY <1>22, Zenon DEF Fork
<1>23. CASE HookMemory
  BY <1>23, Zenon DEF HookMemory, LeakBuilder
<1>24. CASE HookStack
  BY <1>24, Zenon DEF HookStack, LeakBuilder
<1>25. CASE HookTable
  BY <1>25, NewIsTable DEF HookTable
<1> QED BY <1>1, <1>2, <1>3, <1>4, <1>5, <1>6, <1>7, <1>8, <1>9, <1>10, <1>11, <1>12,
    <1>13, <1>14, <1>15, <1>16, <1>17, <1>18, <1>19, <1>20, <1>21, <1>22, <1>23, <1>24,
    <1>25 DEF Next

\* A traceback that resolves does so in a table that extends the one it was made
\* with.
LEMMA ResolvedExtends ==
    ASSUME NEW r \in Traceback, NEW t, NEW u, IsTable(t), IsTable(u), Extends(t, u),
           Resolved(r, t)
    PROVE  Resolved(r, u)
<1>1. Len(t) \in Nat /\ Len(u) \in Nat
  BY SeqFacts, Zenon DEF IsTable
<1>2. r.ids \in Seq(Nat)
  BY DEF Traceback
<1>3. \A i \in DOMAIN r.ids : r.ids[i] \in Nat
  BY <1>2
<1> SUFFICES ASSUME NEW i \in DOMAIN r.ids
             PROVE  r.ids[i] < Len(u) /\ u[r.ids[i] + 1] = Text(Strings(r.stack)[i])
  BY Zenon DEF Resolved
<1>4. r.ids[i] < Len(t) /\ t[r.ids[i] + 1] = Text(Strings(r.stack)[i])
  BY Zenon DEF Resolved
<1>5. Len(t) =< Len(u) /\ u[r.ids[i] + 1] = t[r.ids[i] + 1]
  BY <1>1, <1>3, <1>4 DEF Extends
<1> QED BY <1>1, <1>3, <1>4, <1>5

\* So do all that are held.
LEMMA HeldExtends ==
    ASSUME ControlTypes, Held, NEW u, IsTable(table), IsTable(u), Extends(table, u),
           proc # "hook"
    PROVE  /\ \A k \in Kinds : Resolved(rec[k], u)
           /\ \A r \in live : Resolved(r, u)
BY ResolvedExtends, Zenon DEF ControlTypes, Held

\* A traceback with one more string interned resolves.
LEMMA InternResolves ==
    ASSUME NEW r \in Traceback, NEW t, IsTable(t), NEW n \in Nat, n < Len(t),
           Resolved(r, t), t[n + 1] = Text(Strings(r.stack)[Len(r.ids) + 1])
    PROVE  Resolved([r EXCEPT !.ids = Append(@, n)], t)
<1> DEFINE q == [r EXCEPT !.ids = Append(@, n)]
<1>1. r.ids \in Seq(Nat)
  BY DEF Traceback
<1>2. q.ids = Append(r.ids, n) /\ q.stack = r.stack
  BY DEF Traceback
<1> HIDE DEF q
<1>3. DOMAIN r.ids = 1 .. Len(r.ids) /\ Len(r.ids) \in Nat
  BY <1>1
<1>4. /\ DOMAIN q.ids = 1 .. Len(r.ids) + 1 /\ q.ids[Len(r.ids) + 1] = n
      /\ \A i \in 1 .. Len(r.ids) : q.ids[i] = r.ids[i]
  BY <1>1, <1>2, AppendProperties, LenProperties
<1> SUFFICES ASSUME NEW i \in DOMAIN q.ids
             PROVE  q.ids[i] < Len(t) /\ t[q.ids[i] + 1] = Text(Strings(q.stack)[i])
  BY Zenon DEF Resolved, q
<1>5. CASE i = Len(r.ids) + 1
  BY <1>2, <1>4, <1>5
<1>6. CASE i # Len(r.ids) + 1
  <2>1. i \in DOMAIN r.ids /\ q.ids[i] = r.ids[i]
    BY <1>3, <1>4, <1>6
  <2> QED BY <1>2, <2>1, Zenon DEF Resolved
<1> QED BY <1>5, <1>6

\* Every id that is held resolves in the table as it grows, and none is held when
\* it is cleared.
LEMMA HeldStep ==
    ASSUME ControlTypes, Inherited, Clean, Held, IsTable(table), Next
    PROVE  Held'
<1> USE DEF NoProfile, fork
<1>1. ASSUME NEW k \in Kinds, Capture(k) PROVE Held'
  <2> PICK s \in Stacks : rec' = [rec EXCEPT ![k].stack = s]
    BY <1>1, Zenon DEF Capture
  <2>1. rec[k] = Idle /\ UNCHANGED <<table, live, proc>>
    BY <1>1, Zenon DEF Capture
  <2>2. \A j \in Kinds : rec'[j] = IF j = k THEN [Idle EXCEPT !.stack = s] ELSE rec[j]
    BY <2>1, Zenon DEF ControlTypes
  <2>3. Resolved([Idle EXCEPT !.stack = s], table)
    BY DEF Resolved, Idle
  <2> QED BY <2>1, <2>2, <2>3, Zenon DEF Held
<1>2. ASSUME NEW k \in Kinds, Intern(k) PROVE Held'
  <2> DEFINE s == Text(Strings(rec[k].stack)[Len(rec[k].ids) + 1])
  <2> DEFINE u == add(table, s)
  <2> DEFINE n == IndexOf(u, s)
  <2>1. table' = u /\ rec' = [rec EXCEPT ![k].ids = Append(@, n)] /\ live' = live
    BY <1>2, Zenon DEF Intern
  <2>2. IsTable(u) /\ Extends(table, u) /\ Contains(u, s)
    BY AddKeeps
  <2> HIDE DEF u
  <2>3. n \in Nat /\ n < Len(u) /\ u[n + 1] = s
    BY <2>2, IndexResolves
  <2> HIDE DEF n
  <2>4. proc # "hook"
    BY <1>2 DEF Intern, Clean, Idle
  <2>5. /\ \A j \in Kinds : Resolved(rec[j], u)
        /\ \A r \in live : Resolved(r, u)
    BY <2>2, <2>4, HeldExtends
  <2>6. Resolved([rec[k] EXCEPT !.ids = Append(@, n)], u)
    BY <2>2, <2>3, <2>5, InternResolves DEF ControlTypes
  <2>7. \A j \in Kinds :
          rec'[j] = IF j = k THEN [rec[k] EXCEPT !.ids = Append(@, n)] ELSE rec[j]
    BY <2>1, Zenon DEF ControlTypes
  <2>8. \A j \in Kinds : Resolved(rec'[j], u)
    BY <2>5, <2>6, <2>7, Zenon
  <2> QED BY <2>1, <2>5, <2>8, Zenon DEF Held
<1>3. ASSUME NEW k \in Kinds, PushSample(k) PROVE Held'
  <2>1. rec' = [rec EXCEPT ![k] = Idle] /\ live' \subseteq live \cup {rec[k]}
    BY <1>3 DEF PushSample
  <2>2. UNCHANGED <<table, proc>>
    BY <1>3, Zenon DEF PushSample
  <2>3. \A j \in Kinds : rec'[j] = IF j = k THEN Idle ELSE rec[j]
    BY <2>1, Zenon DEF ControlTypes
  <2>4. Resolved(Idle, table)
    BY DEF Resolved, Idle
  <2> QED BY <2>1, <2>2, <2>3, <2>4, Zenon DEF Held
<1>4. CASE Free
  BY <1>4, Zenon DEF Free, Held
<1>5. CASE DumpAttach
  BY <1>5, Zenon DEF DumpAttach, Held
<1>6. CASE HeapSamples
  BY HeapFacts, <1>6 DEF Held
<1>7. CASE LockTable
  BY <1>7, Zenon DEF LockTable, Held
<1>8. CASE LockBuilder
  BY <1>8, Zenon DEF LockBuilder, Held
<1>9. CASE TakeMemory
  <2> DEFINE u == set_profile_type(table, "memory")
  <2>1. table' = u /\ UNCHANGED <<rec, live, proc>>
    BY <1>9, Zenon DEF TakeMemory, Take
  <2>2. IsTable(u) /\ Extends(table, u)
    BY TypesAdded DEF Kinds, Types
  <2> HIDE DEF u
  <2> QED BY <2>1, <2>2, HeldExtends, Zenon DEF Held
<1>10. CASE TakeCpu
  <2> DEFINE u == set_profile_type(table, "cpu")
  <2>1. table' = u /\ UNCHANGED <<rec, live, proc>>
    BY <1>10, Zenon DEF TakeCpu, Take
  <2>2. IsTable(u) /\ Extends(table, u)
    BY TypesAdded DEF Kinds, Types
  <2> HIDE DEF u
  <2> QED BY <2>1, <2>2, HeldExtends, Zenon DEF Held
<1>11. CASE StartMemory
  BY <1>11, Zenon DEF StartMemory, Held
<1>12. CASE StartStack
  BY <1>12, Zenon DEF StartStack, Held
<1>13. CASE StartAgent
  BY <1>13, Zenon DEF StartAgent, Held
<1>14. CASE StartFails
  BY <1>14, Zenon DEF StartFails, Held
<1>15. CASE JoinSnapshot
  BY <1>15, Zenon DEF JoinSnapshot, Held
<1>16. CASE Attach
  BY <1>16, Zenon DEF Attach, Held
<1>17. CASE StopMemory
  BY <1>17 DEF StopMemory, Held
<1>18. CASE StopStack
  BY <1>18, Zenon DEF StopStack, Held
<1>19. CASE SamplerStop
  BY <1>19, Zenon DEF SamplerStop, Held
<1>20. CASE ClearStack
  BY <1>20, Zenon DEF ClearStack, Held
<1>21. CASE ClearTable
  <2>1. live = {} /\ \A k \in Kinds : rec[k] = Idle
    BY <1>21 DEF ClearTable, Goto, Clean, Teardown, Kinds
  <2>2. live' = {} /\ \A k \in Kinds : rec'[k] = Idle
    BY <1>21, <2>1 DEF ClearTable
  <2>3. Resolved(Idle, table')
    BY DEF Resolved, Idle
  <2> QED BY <2>2, <2>3, Zenon DEF Held
<1>22. CASE Fork
  BY <1>22 DEF Fork, Held
<1>23. CASE HookMemory
  BY <1>23, Zenon DEF HookMemory, LeakBuilder, Held
<1>24. CASE HookStack
  BY <1>24, Zenon DEF HookStack, LeakBuilder, Held
<1>25. CASE HookTable
  BY <1>25 DEF HookTable, Goto, Inherited, Hook, Held
<1> QED BY <1>1, <1>2, <1>3, <1>4, <1>5, <1>6, <1>7, <1>8, <1>9, <1>10, <1>11, <1>12,
    <1>13, <1>14, <1>15, <1>16, <1>17, <1>18, <1>19, <1>20, <1>21, <1>22, <1>23, <1>24,
    <1>25 DEF Next

\* The invariant holds at first.
LEMMA ProfilesInit == Init => ProfilesInv
<1> SUFFICES ASSUME Init PROVE ProfilesInv
  OBVIOUS
<1> USE DEF Init, Kinds, Idle, Teardown, Hook, MemoryDump
<1>1. ControlTypes
  BY DEF ControlTypes, Traceback
<1>2. Builders
  BY DEF Builders
<1>3. Turns /\ Inherited
  BY DEF Turns, Inherited
<1>4. Clean
  BY DEF Clean
<1>5. IsTable(table)
  BY NewIsTable
<1>6. Held
  BY DEF Held, Resolved
<1> QED BY <1>1, <1>2, <1>3, <1>4, <1>5, <1>6 DEF ProfilesInv

\* The invariant is inductive.
LEMMA ProfilesStep == ProfilesInv /\ [Next]_vars => ProfilesInv'
<1> SUFFICES ASSUME ProfilesInv, [Next]_vars PROVE ProfilesInv'
  OBVIOUS
<1> USE DEF ProfilesInv
<1>1. CASE Next
  BY <1>1, TypesStep, BuildersStep, TurnsStep, InheritedStep, CleanStep, HeldStep,
     TableStep
<1>2. CASE UNCHANGED vars
  BY <1>2 DEF vars, fork, ControlTypes, Builders, Turns, Inherited, Clean, Held, Resolved
<1> QED BY <1>1, <1>2

\* So it holds in every state.
LEMMA ProfilesInvariant == Spec => []ProfilesInv
BY ProfilesInit, ProfilesStep, PTL DEF Spec

-----------------------------------------------------------------------------
(***************************************************************************)
(* What it gives                                                           *)
(***************************************************************************)

\* No string is in the table twice, and index 0 is the empty one, whatever is
\* interned, taken and cleared in whichever order (StringTable::add).
THEOREM TableSound == Spec => []TableOK
<1>1. ProfilesInv => TableOK
  BY DEF ProfilesInv, IsTable, TableOK
<1> QED BY <1>1, ProfilesInvariant, PTL

\* An id that was handed out still stands for the string it was given for, in
\* every upload window and while any profiler is being stopped (interner::clear
\* and its place in stop_profilers).
THEOREM IdsResolve == Spec => []HeldIdsResolve
<1>1. ProfilesInv => HeldIdsResolve
  BY DEF ProfilesInv, Held, Resolved, HeldIdsResolve
<1> QED BY <1>1, ProfilesInvariant, PTL

\* After shutdown() or a failed configure(), and in a child that was forked at
\* any moment of these, nothing is left that the next agent would report
\* (stop_profilers, at_fork_after_in_child).
THEOREM NothingLeft == Spec => []OffIsClean
<1>1. ASSUME ProfilesInv, life = "off" PROVE ~on["memory"] /\ ~on["cpu"] /\ live = {}
  BY <1>1, Zenon DEF ProfilesInv, Clean, Teardown
<1>2. ASSUME ProfilesInv, life = "off" PROVE \A k \in Kinds : rec[k] = Idle
  BY <1>2 DEF ProfilesInv, Clean, Kinds, Teardown
<1>3. ASSUME ProfilesInv, life = "off"
      PROVE  table = NewTable /\ \A k \in Kinds : builder[k] = NewBuilder
  BY <1>3 DEF ProfilesInv, Clean, Kinds, Teardown
<1>4. ASSUME ProfilesInv, life = "off" PROVE gil # "dump" /\ snapshot = "none"
  BY <1>4 DEF ProfilesInv, Turns, MemoryDump
<1>5. ASSUME ProfilesInv, life = "off" PROVE on = [k \in Kinds |-> FALSE]
  BY <1>1, <1>5 DEF ProfilesInv, ControlTypes, Kinds
<1>6. ASSUME ProfilesInv, life = "off" PROVE rec = [k \in Kinds |-> Idle]
  BY <1>2, <1>6 DEF ProfilesInv, ControlTypes
<1>7. ProfilesInv => OffIsClean
  BY <1>1, <1>3, <1>4, <1>5, <1>6 DEF OffIsClean
<1> QED BY <1>7, ProfilesInvariant, PTL

\* The hook of a child replaces each lock before anything in it takes it (the
\* order of at_fork_after_in_child).
THEOREM ChildNeverWaits == Spec => []NoInheritedWait
<1>1. ASSUME ProfilesInv,
             proc = "child" \/ life \in {"stop_memory", "clear", "clear_table"}
      PROVE  locked = {}
  BY <1>1 DEF ProfilesInv, Inherited, Hook
<1>2. ProfilesInv => NoInheritedWait
  BY <1>1, Zenon DEF NoInheritedWait
<1> QED BY <1>2, ProfilesInvariant, PTL

-----------------------------------------------------------------------------
(***************************************************************************)
(* Builders, and what is recorded for them                                 *)
(***************************************************************************)

\* The values of a sample with w slots.
Values(w) == [1 .. w -> Value]

\* The rows of b are the samples of h, by what they read as with the strings of t.
Agrees(b, t, h, w) ==
    /\ IsFcn(b.rows) /\ IsFcn(h) /\ b.sample = <<>>
    /\ IsFiniteSet(DOMAIN b.rows)
    /\ \A row \in DOMAIN b.rows : /\ IsRow(b, row) /\ b.rows[row] \in Values(w)
                                  /\ RowReads(b, t, row) \in DOMAIN h
                                  /\ b.rows[row] = h[RowReads(b, t, row)]
    /\ \A s \in DOMAIN h : \E row \in DOMAIN b.rows : RowReads(b, t, row) = s

\* A builder and what is recorded for it.
Faithful(p, t, w) == Sound(p.builder, t) /\ Agrees(p.builder, t, p.recorded, w)

\* Values stay in i64.
LEMMA SaturatedValues ==
    ASSUME NEW w, NEW x \in Values(w), NEW y \in Values(w)
    PROVE  [i \in DOMAIN y |-> saturating_add(x[i], y[i])] \in Values(w)
<1>1. \A m, n \in Value : saturating_add(m, n) \in Value
  BY ValueAssumption DEF Value, saturating_add
<1>2. DOMAIN y = 1 .. w /\ \A i \in 1 .. w : x[i] \in Value /\ y[i] \in Value
  BY DEF Values
<1> QED BY <1>1, <1>2 DEF Values

\* The values v added to those of key, the rest as it was.
Added(rows, key, v, new) ==
    /\ DOMAIN new = DOMAIN rows \cup {key} /\ IsFcn(new)
    /\ new[key] = IF key \in DOMAIN rows
                  THEN [i \in DOMAIN v |-> saturating_add(rows[key][i], v[i])] ELSE v
    /\ \A r \in DOMAIN rows : r # key => new[r] = rows[r]

\* What a sample does to the row it is added to, and to the others.
LEMMA Accumulated ==
    ASSUME NEW rows, IsFcn(rows), NEW key, NEW v
    PROVE  Added(rows, key, v, Accumulate(rows, key, v))
<1> USE DEF Added
<1>1. CASE key \in DOMAIN rows
  <2> DEFINE x == [i \in DOMAIN v |-> saturating_add(rows[key][i], v[i])]
  <2>1. Accumulate(rows, key, v) = [rows EXCEPT ![key] = x]
    BY <1>1 DEF Accumulate
  <2> HIDE DEF x
  <2>2. [rows EXCEPT ![key] = x] = [r \in DOMAIN rows |-> IF r = key THEN x ELSE rows[r]]
    BY DEF IsFcn
  <2> DEFINE new == [r \in DOMAIN rows |-> IF r = key THEN x ELSE rows[r]]
  <2>3. /\ DOMAIN new = DOMAIN rows \cup {key} /\ IsFcn(new) /\ new[key] = x
        /\ \A r \in DOMAIN rows : r # key => new[r] = rows[r]
    BY <1>1 DEF IsFcn
  <2> HIDE DEF new
  <2> QED BY <1>1, <2>1, <2>2, <2>3, Zenon DEF x, new
<1>2. CASE key \notin DOMAIN rows
  <2> DEFINE new == [r \in DOMAIN rows \cup {key} |-> IF r = key THEN v ELSE rows[r]]
  <2>1. Accumulate(rows, key, v) = new
    BY <1>2 DEF Accumulate
  <2>2. /\ DOMAIN new = DOMAIN rows \cup {key} /\ IsFcn(new) /\ new[key] = v
        /\ \A r \in DOMAIN rows : r # key => new[r] = rows[r]
    BY <1>2 DEF IsFcn
  <2> HIDE DEF new
  <2> QED BY <1>2, <2>1, <2>2
<1> QED BY <1>1, <1>2

\* Builder and table grow without a sample.
LEMMA AgreesGrows ==
    ASSUME NEW b, NEW t, Sound(b, t), IsTable(t), NEW c, NEW u, Sound(c, u), IsTable(u),
           Grows(b, c), Extends(t, u), NEW h, NEW w, Agrees(b, t, h, w)
    PROVE  Agrees(c, u, h, w)
<1>1. c.rows = b.rows /\ c.sample = b.sample
  BY DEF Grows
<1>2. \A row \in DOMAIN b.rows :
        IsRow(c, row) /\ RowReads(c, u, row) = RowReads(b, t, row)
  <2> SUFFICES ASSUME NEW row \in DOMAIN b.rows
               PROVE  IsRow(c, row) /\ RowReads(c, u, row) = RowReads(b, t, row)
    OBVIOUS
  <2>1. IsRow(b, row)
    BY Zenon DEF Agrees
  <2> QED BY <2>1, ReadsGrow
<1> QED BY <1>1, <1>2, Zenon DEF Agrees

\* A row is added to, and so is what is recorded under what it reads as.
LEMMA AgreesSampled ==
    ASSUME NEW b, NEW t, Sound(b, t), IsTable(t), NEW h, NEW w, Agrees(b, t, h, w),
           NEW key, IsRow(b, key), NEW v \in Values(w)
    PROVE  LET c == [b EXCEPT !.rows = Accumulate(@, key, v)]
           IN  Sound(c, t) /\ Agrees(c, t, Accumulate(h, RowReads(b, t, key), v), w)
<1> DEFINE s == RowReads(b, t, key)
<1> DEFINE rows == Accumulate(b.rows, key, v)
<1> DEFINE g == Accumulate(h, s, v)
<1> DEFINE c == [b EXCEPT !.rows = rows]
<1>1. c = [functions |-> b.functions, locations |-> b.locations, rows |-> rows,
           sample |-> b.sample]
  <2>1. b = [functions |-> b.functions, locations |-> b.locations, rows |-> b.rows,
             sample |-> b.sample]
    BY Zenon DEF Sound
  <2> HIDE DEF rows
  <2> QED BY <2>1
<1>2. /\ DOMAIN rows = DOMAIN b.rows \cup {key} /\ IsFcn(rows)
      /\ rows[key] = IF key \in DOMAIN b.rows
                     THEN [i \in DOMAIN v |-> saturating_add(b.rows[key][i], v[i])] ELSE v
      /\ \A r \in DOMAIN b.rows : r # key => rows[r] = b.rows[r]
  <2>1. IsFcn(b.rows)
    BY Zenon DEF Agrees
  <2>2. Added(b.rows, key, v, rows)
    BY <2>1, Accumulated
  <2> HIDE DEF rows
  <2> QED BY <2>2, Zenon DEF Added
<1> HIDE DEF s
<1>3. /\ DOMAIN g = DOMAIN h \cup {s} /\ IsFcn(g)
      /\ g[s] = IF s \in DOMAIN h
                THEN [i \in DOMAIN v |-> saturating_add(h[s][i], v[i])] ELSE v
      /\ \A r \in DOMAIN h : r # s => g[r] = h[r]
  <2>1. IsFcn(h)
    BY Zenon DEF Agrees
  <2>2. Added(h, s, v, g)
    BY <2>1, Accumulated
  <2> HIDE DEF g
  <2> QED BY <2>2, Zenon DEF Added
<1> HIDE DEF rows, g, c
<1>4. /\ c.functions = b.functions /\ c.locations = b.locations /\ c.rows = rows
      /\ c.sample = b.sample
  BY <1>1
<1>5. Sound(c, t)
  BY <1>1, <1>4, Zenon DEF Sound
<1>6. /\ \A r : RowReads(c, t, r) = RowReads(b, t, r)
      /\ \A r : IsRow(c, r) <=> IsRow(b, r)
  BY <1>4, Zenon DEF RowReads, IsRow
<1>7. \A r \in DOMAIN b.rows : RowReads(b, t, r) = s => r = key
  BY ReadsInjective, Zenon DEF Agrees, s
<1>8. key \in DOMAIN b.rows <=> s \in DOMAIN h
  BY <1>7, Zenon DEF Agrees, s
<1>9. rows[key] = g[s] /\ rows[key] \in Values(w)
  <2>1. CASE key \in DOMAIN b.rows
    <3>1. b.rows[key] = h[s] /\ b.rows[key] \in Values(w)
      BY <2>1, Zenon DEF Agrees, s
    <3> QED BY <1>2, <1>3, <1>8, <2>1, <3>1, SaturatedValues
  <2>2. CASE key \notin DOMAIN b.rows
    BY <1>2, <1>3, <1>8, <2>2, Zenon
  <2> QED BY <2>1, <2>2
<1>10. \A r \in DOMAIN rows : /\ IsRow(b, r) /\ rows[r] \in Values(w)
                              /\ RowReads(b, t, r) \in DOMAIN g /\ rows[r] = g[RowReads(b, t, r)]
  <2> SUFFICES ASSUME NEW r \in DOMAIN rows, r # key
               PROVE  /\ IsRow(b, r) /\ rows[r] \in Values(w)
                      /\ RowReads(b, t, r) \in DOMAIN g /\ rows[r] = g[RowReads(b, t, r)]
    BY <1>3, <1>9 DEF s
  <2>1. r \in DOMAIN b.rows /\ rows[r] = b.rows[r]
    BY <1>2
  <2>2. RowReads(b, t, r) # s
    BY <1>7, <2>1
  <2>3. /\ IsRow(b, r) /\ b.rows[r] \in Values(w)
        /\ RowReads(b, t, r) \in DOMAIN h /\ b.rows[r] = h[RowReads(b, t, r)]
    BY <2>1, Zenon DEF Agrees
  <2>4. RowReads(b, t, r) \in DOMAIN g /\ g[RowReads(b, t, r)] = h[RowReads(b, t, r)]
    BY <1>3, <2>2, <2>3
  <2> QED BY <2>1, <2>3, <2>4
<1>11. \A x \in DOMAIN g : \E r \in DOMAIN rows : RowReads(b, t, r) = x
  <2> SUFFICES ASSUME NEW x \in DOMAIN g PROVE \E r \in DOMAIN rows : RowReads(b, t, r) = x
    OBVIOUS
  <2>1. CASE x = s
    BY <1>2, <2>1 DEF s
  <2>2. CASE x # s
    <3>1. x \in DOMAIN h
      BY <1>3, <2>2
    <3>2. PICK r \in DOMAIN b.rows : RowReads(b, t, r) = x
      BY <3>1, Zenon DEF Agrees
    <3> QED BY <1>2, <3>2
  <2> QED BY <2>1, <2>2
<1>12. IsFiniteSet(DOMAIN rows)
  <2>1. IsFiniteSet(DOMAIN b.rows)
    BY Zenon DEF Agrees
  <2> QED BY <1>2, <2>1, FS_AddElement
<1>13. Agrees(c, t, g, w)
  BY <1>2, <1>3, <1>4, <1>6, <1>10, <1>11, <1>12, Zenon DEF Agrees
<1>14. c = [b EXCEPT !.rows = Accumulate(@, key, v)]
  BY DEF c, rows
<1> QED BY <1>5, <1>13, <1>14 DEF g, s

\* A traceback that is interned has frames of strings of the table, which read as
\* its stack.
LEMMA InternedReads ==
    ASSUME NEW r \in Traceback, Interned(r), NEW t, IsTable(t), Resolved(r, t)
    PROVE  /\ Len(r.stack) \in Nat /\ DOMAIN FramesOf(r) = 1 .. Len(r.stack)
           /\ \A i \in 1 .. Len(r.stack) : IsFrame(FramesOf(r)[i], t)
           /\ [i \in 1 .. Len(r.stack) |->
                 [name |-> t[FramesOf(r)[i].name + 1], file |-> t[FramesOf(r)[i].file + 1],
                  line |-> FramesOf(r)[i].line]] = Shown(r)
<1> DEFINE s == r.stack
<1> DEFINE n == Len(s)
<1>1. s \in Seq(Frame) /\ r.ids \in Seq(Nat)
  BY StackAssumption DEF Interned, Traceback
<1>2. n \in Nat /\ DOMAIN s = 1 .. n /\ \A i \in 1 .. n : s[i] \in Frame
  BY <1>1
<1>3. Len(r.ids) = 2 * n /\ DOMAIN r.ids = 1 .. 2 * n /\ \A j \in 1 .. 2 * n : r.ids[j] \in Nat
  <2>1. Len(r.ids) = Len(Strings(s))
    BY Zenon DEF Interned
  <2>2. Len(Strings(s)) = 2 * n
    BY <1>2, StringsAt
  <2> HIDE DEF n
  <2>3. Len(r.ids) = 2 * n
    BY <2>1, <2>2
  <2> QED BY <1>1, <2>3
<1>4. Len(t) \in Nat
  BY SeqFacts, Zenon DEF IsTable
<1> HIDE DEF n
<1> DEFINE frames == FramesOf(r)
<1>5. DOMAIN frames = 1 .. n
  BY <1>2 DEF FramesOf
<1>6. ASSUME NEW i \in 1 .. n
      PROVE  /\ IsFrame(frames[i], t)
             /\ t[frames[i].name + 1] = Text(s[i].name)
             /\ t[frames[i].file + 1] = Text(s[i].file) /\ frames[i].line = s[i].line
  <2>1. frames[i] = [name |-> r.ids[2 * i - 1], file |-> r.ids[2 * i], line |-> s[i].line]
    BY <1>2 DEF FramesOf
  <2>2. /\ 2 * i - 1 \in 1 .. 2 * n /\ 2 * i \in 1 .. 2 * n
        /\ Strings(s)[2 * i - 1] = s[i].name /\ Strings(s)[2 * i] = s[i].file
    BY <1>2, StringsAt DEF n
  <2>3. \A j \in 1 .. 2 * n : r.ids[j] < Len(t) /\ t[r.ids[j] + 1] = Text(Strings(s)[j])
    BY <1>3 DEF Resolved
  <2>4. \A j \in 1 .. 2 * n : r.ids[j] \in Ids(t)
    BY <1>3, <1>4, <2>3 DEF Ids
  <2>5. s[i].line \in Int
    BY <1>2 DEF Frame
  <2> HIDE DEF frames
  <2> QED BY <2>1, <2>2, <2>3, <2>4, <2>5 DEF IsFrame
<1> HIDE DEF frames
<1>7. Shown(r) = [i \in 1 .. n |-> [name |-> Text(s[i].name), file |-> Text(s[i].file),
                                    line |-> s[i].line]]
  BY <1>2, Zenon DEF Shown
<1>8. [i \in 1 .. n |-> [name |-> t[frames[i].name + 1], file |-> t[frames[i].file + 1],
                         line |-> frames[i].line]] = Shown(r)
  BY <1>6, <1>7
<1> QED BY <1>2, <1>5, <1>6, <1>8 DEF n, frames

\* A sample: the builder gets the frames and the row, and what is recorded the
\* stack.
LEMMA SampledFaithful ==
    ASSUME NEW p, NEW t, IsTable(t), NEW w, Faithful(p, t, w), NEW r \in Traceback,
           Interned(r), Resolved(r, t), NEW v \in Values(w)
    PROVE  Faithful(Sampled(p, r, v), t, w)
<1> DEFINE b == p.builder
<1> DEFINE h == p.recorded
<1> DEFINE n == Len(r.stack)
<1> DEFINE frames == FramesOf(r)
<1> DEFINE c == Framed(b, frames)
<1> DEFINE key == LocationIds(c, frames)
<1>1. Sound(b, t) /\ Agrees(b, t, h, w)
  BY Zenon DEF Faithful
<1>2. /\ n \in Nat /\ DOMAIN frames = 1 .. n /\ \A i \in 1 .. n : IsFrame(frames[i], t)
      /\ [i \in 1 .. n |->
            [name |-> t[frames[i].name + 1], file |-> t[frames[i].file + 1],
             line |-> frames[i].line]] = Shown(r)
  BY InternedReads
<1> HIDE DEF n, frames, b, h
<1>3. Sound(c, t) /\ Grows(b, c) /\ \A i \in 1 .. n : HasFrame(c, frames[i])
  BY <1>1, <1>2, FramesAdded
<1> HIDE DEF c
<1>4. IsRow(c, key) /\ RowReads(c, t, key) = Shown(r)
  BY <1>2, <1>3, PlacedReads
<1> HIDE DEF key
<1>5. Extends(t, t)
  BY ExtendsSelf, Zenon DEF IsTable
<1>6. Agrees(c, t, h, w)
  BY <1>1, <1>3, <1>5, AgreesGrows
<1> DEFINE d == [c EXCEPT !.rows = Accumulate(@, key, v)]
<1>7. Sound(d, t) /\ Agrees(d, t, Accumulate(h, Shown(r), v), w)
  BY <1>3, <1>4, <1>6, AgreesSampled
<1>8. Sampled(p, r, v) = [builder |-> d, recorded |-> Accumulate(h, Shown(r), v)]
  BY DEF Sampled, add_ffi_sample, d, key, c, frames, b, h, Framed
<1> HIDE DEF d
<1> QED BY <1>7, <1>8 DEF Faithful

\* A builder and what is recorded for it, with a heap sample of each traceback.
Heaped(p, s) == FoldLeft(HeapSample, p, s)

\* The function that Heaped(p, s) is defined by, on the first n, and what it goes
\* through.
HeapFold(f, p, s, n) ==
    f = [T \in SUBSET (1 .. n) |->
           IF T = {} THEN p ELSE HeapSample(f[T \ {Max(T)}], s[Max(T)])]

HeapRun(g, p, s, n) ==
    /\ g[0] = p /\ g[n] = Heaped(p, s)
    /\ \A i \in 0 .. n - 1 : g[i + 1] = HeapSample(g[i], s[i + 1])

\* HeapSamples goes through a builder for each live traceback.
LEMMA HeapSteps ==
    ASSUME NEW p, NEW s, NEW n \in Nat, DOMAIN s = 1 .. n
    PROVE  \E g : HeapRun(g, p, s, n)
<1> DEFINE S == {m \in Nat : \E f : HeapFold(f, p, s, m)}
<1>1. 0 \in S
  <2> DEFINE f == [T \in SUBSET (1 .. 0) |-> p]
  <2>1. HeapFold(f, p, s, 0)
    BY DEF HeapFold
  <2> QED BY <2>1
<1>2. ASSUME NEW m \in Nat, m \in S PROVE m + 1 \in S
  <2> PICK f : HeapFold(f, p, s, m)
    BY <1>2
  <2> DEFINE v == [U \in SUBSET (1 .. m) |-> HeapSample(f[U], s[m + 1])]
  <2> PICK g : Grown(g, f, v, m)
    BY Growth
  <2>1. g = [T \in SUBSET (1 .. m + 1) |-> g[T]] /\ g[{}] = p
    BY DEF Grown, HeapFold
  <2>2. ASSUME NEW T \in SUBSET (1 .. m + 1), T # {}
        PROVE  g[T] = HeapSample(g[T \ {Max(T)}], s[Max(T)])
    <3> DEFINE U == T \ {Max(T)}
    <3>1. /\ U \in SUBSET (1 .. m) /\ g[U] = f[U]
          /\ \/ Max(T) = m + 1 /\ g[T] = v[U]
             \/ T \in SUBSET (1 .. m) /\ g[T] = f[T]
      BY <2>2, Zenon DEF Grown
    <3>2. T \in SUBSET (1 .. m) => f[T] = HeapSample(f[U], s[Max(T)])
      BY <2>2, Zenon DEF HeapFold
    <3>3. v[U] = HeapSample(f[U], s[m + 1])
      BY <3>1
    <3> QED BY <3>1, <3>2, <3>3, Zenon
  <2>3. HeapFold(g, p, s, m + 1)
    BY <2>1, <2>2, Zenon DEF HeapFold
  <2> QED BY <2>3
<1> HIDE DEF S
<1>3. n \in S
  BY <1>1, <1>2, Induct
<1> DEFINE f == CHOOSE f : HeapFold(f, p, s, n)
<1>4. HeapFold(f, p, s, n)
  BY <1>3 DEF S
<1>5. Heaped(p, s) = f[1 .. n]
  BY DEF Heaped, FoldLeft, MapThenFoldSet, HeapFold
<1> HIDE DEF f
<1> DEFINE g == [i \in 0 .. n |-> f[1 .. i]]
<1>6. g[0] = p /\ g[n] = Heaped(p, s)
  <2>1. f[{}] = p
    BY <1>4, Zenon DEF HeapFold
  <2> QED BY <1>5, <2>1, FirstIndices
<1>7. ASSUME NEW i \in 0 .. n - 1 PROVE g[i + 1] = HeapSample(g[i], s[i + 1])
  <2> DEFINE T == 1 .. i + 1
  <2>1. /\ T \in SUBSET (1 .. n) /\ T # {} /\ Max(T) = i + 1 /\ T \ {i + 1} = 1 .. i
        /\ i \in 0 .. n /\ i + 1 \in 0 .. n
    BY FirstIndices
  <2>2. f[T] = HeapSample(f[T \ {Max(T)}], s[Max(T)])
    BY <1>4, <2>1, Zenon DEF HeapFold
  <2> QED BY <2>1, <2>2
<1> QED BY <1>6, <1>7 DEF HeapRun

\* The slots of the values of a sample (value_slots).
Slots(k) == IF k = "memory" THEN 4 ELSE 1

\* A builder that is new is faithful to nothing recorded.
LEMMA EmptyFaithful ==
    ASSUME NEW h, IsFcn(h), DOMAIN h = {}, NEW t, NEW w
    PROVE  Faithful([builder |-> NewBuilder, recorded |-> h], t, w)
<1>1. NewBuilder.rows = <<>> /\ NewBuilder.sample = <<>> /\ DOMAIN <<>> = {} /\ IsFcn(<<>>)
  BY DEF NewBuilder, IsFcn
<1>2. IsFiniteSet({})
  BY FS_EmptySet
<1>3. Agrees(NewBuilder, t, h, w)
  BY <1>1, <1>2 DEF Agrees
<1> QED BY <1>3, NewSound DEF Faithful

\* The same, for the empty sequence.
LEMMA NewFaithful ==
    ASSUME NEW t, NEW w
    PROVE  Faithful([builder |-> NewBuilder, recorded |-> <<>>], t, w)
<1>1. DOMAIN <<>> = {} /\ IsFcn(<<>>)
  BY DEF IsFcn
<1> QED BY <1>1, EmptyFaithful

\* So is what is recorded for it.
LEMMA NewStaysFaithful ==
    ASSUME NEW h, NEW t, NEW w, Faithful([builder |-> NewBuilder, recorded |-> h], t, w), NEW u
    PROVE  Faithful([builder |-> NewBuilder, recorded |-> h], u, w)
<1>1. NewBuilder.rows = <<>> /\ DOMAIN <<>> = {}
  BY DEF NewBuilder
<1>2. Agrees(NewBuilder, t, h, w)
  BY DEF Faithful
<1>3. IsFcn(h) /\ DOMAIN h = {}
  BY <1>1, <1>2 DEF Agrees
<1> QED BY <1>3, EmptyFaithful

\* A builder stays faithful while its table grows.
LEMMA FaithfulExtends ==
    ASSUME NEW p, NEW t, IsTable(t), NEW w, Faithful(p, t, w), NEW u, IsTable(u), Extends(t, u)
    PROVE  Faithful(p, u, w)
<1> DEFINE b == p.builder
<1>1. Sound(b, t) /\ Agrees(b, t, p.recorded, w)
  BY Zenon DEF Faithful
<1> HIDE DEF b
<1>2. Sound(b, u)
  BY <1>1, SoundExtends
<1>3. Grows(b, b)
  BY <1>1, GrowsSelf
<1>4. Agrees(b, u, p.recorded, w)
  BY <1>1, <1>2, <1>3, AgreesGrows
<1> QED BY <1>2, <1>4 DEF Faithful, b

\* The values of one sample.
LEMMA OneSample ==
    /\ value_slots("memory", AllocValues) \in Values(4)
    /\ value_slots("memory", HeapValues) \in Values(4)
    /\ value_slots("cpu", CpuValues) \in Values(1)
<1>1. {0, 1} \subseteq Value
  BY ValueAssumption DEF Value
<1>2. \A a, b, c, d \in Value : <<a, b, c, d>> \in [1 .. 4 -> Value]
  OBVIOUS
<1>3. \A a \in Value : <<a>> \in [1 .. 1 -> Value]
  OBVIOUS
<1>4. value_slots("memory", AllocValues) = <<1, 1, 0, 0>>
  BY DEF value_slots, AllocValues, NoValues
<1>5. value_slots("memory", HeapValues) = <<0, 0, 1, 1>>
  BY DEF value_slots, HeapValues, NoValues
<1>6. value_slots("cpu", CpuValues) = <<1>>
  BY DEF value_slots, CpuValues, NoValues
<1> QED BY <1>1, <1>2, <1>3, <1>4, <1>5, <1>6 DEF Values

\* The heap samples.
LEMMA HeapedFaithful ==
    ASSUME NEW p, NEW t, IsTable(t), Faithful(p, t, 4), NEW S, IsFiniteSet(S),
           \A r \in S : r \in Traceback /\ Interned(r) /\ Resolved(r, t)
    PROVE  Faithful(Heaped(p, SetToSeq(S)), t, 4)
<1> DEFINE n == Cardinality(S)
<1> DEFINE s == SetToSeq(S)
<1>1. n \in Nat /\ s \in [1 .. n -> S]
  BY Listed DEF Injection
<1> HIDE DEF n, s
<1>2. DOMAIN s = 1 .. n
  BY <1>1
<1>3. PICK g : HeapRun(g, p, s, n)
  BY <1>1, <1>2, HeapSteps
<1> DEFINE M == {m \in Nat : m =< n => Faithful(g[m], t, 4)}
<1>4. 0 \in M
  BY <1>3 DEF HeapRun
<1>5. ASSUME NEW m \in Nat, m \in M PROVE m + 1 \in M
  <2> SUFFICES ASSUME m + 1 =< n PROVE Faithful(g[m + 1], t, 4)
    OBVIOUS
  <2>1. Faithful(g[m], t, 4)
    BY <1>1, <1>5
  <2>2. m \in 0 .. n - 1 /\ m + 1 \in 1 .. n
    BY <1>1
  <2>3. g[m + 1] = Sampled(g[m], s[m + 1], value_slots("memory", HeapValues))
    BY <1>3, <2>2, Zenon DEF HeapRun, HeapSample
  <2>4. s[m + 1] \in S
    BY <1>1, <2>2
  <2> QED BY <2>1, <2>3, <2>4, SampledFaithful, OneSample
<1> HIDE DEF M
<1>6. n \in M
  BY <1>1, <1>4, <1>5, Induct
<1>7. Faithful(g[n], t, 4)
  BY <1>1, <1>6 DEF M
<1> QED BY <1>3, <1>7 DEF HeapRun, s

-----------------------------------------------------------------------------
(***************************************************************************)
(* The profile                                                             *)
(***************************************************************************)

\* What a dump takes: the profile of kind k with the string table u, from what is
\* in its builder.
Profile(p, k, u) ==
    [kind |-> k, pprof |-> flush_ffi_samples(p.builder), string_table |-> u,
     types |-> TypeIds(u, k), expected |-> p.recorded]

\* The samples are the rows, once each.
LEMMA Flushed ==
    ASSUME NEW b, NEW t, Sound(b, t), NEW h, NEW w, Agrees(b, t, h, w)
    PROVE  LET c == flush_ffi_samples(b)
               rows == SetToSeq(DOMAIN b.rows)
           IN  /\ c.functions = b.functions /\ c.locations = b.locations
               /\ Len(c.sample) = Cardinality(DOMAIN b.rows)
               /\ DOMAIN c.sample = 1 .. Cardinality(DOMAIN b.rows)
               /\ \A i \in DOMAIN c.sample :
                    /\ rows[i] \in DOMAIN b.rows
                    /\ c.sample[i] = [location_id |-> rows[i], value |-> b.rows[rows[i]],
                                      label |-> {}]
<1> DEFINE rows == SetToSeq(DOMAIN b.rows)
<1> DEFINE n == Cardinality(DOMAIN b.rows)
<1> DEFINE V == {[location_id |-> rows[i], value |-> b.rows[rows[i]], label |-> {}] :
                   i \in 1 .. n}
<1> DEFINE s == [i \in DOMAIN rows |->
                   [location_id |-> rows[i], value |-> b.rows[rows[i]], label |-> {}]]
<1>1. n \in Nat /\ rows \in [1 .. n -> DOMAIN b.rows]
  BY Listed DEF Injection, Agrees
<1>2. b = [functions |-> b.functions, locations |-> b.locations, rows |-> b.rows,
           sample |-> <<>>]
  BY Zenon DEF Sound, Agrees
<1>3. flush_ffi_samples(b) = [b EXCEPT !.sample = @ \o s, !.rows = <<>>]
  BY DEF flush_ffi_samples
<1> HIDE DEF rows, n
<1>4. /\ DOMAIN s = 1 .. n
      /\ \A i \in 1 .. n : s[i] = [location_id |-> rows[i], value |-> b.rows[rows[i]],
                                   label |-> {}]
  BY <1>1
<1>5. s \in [1 .. n -> V]
  BY <1>1
<1> HIDE DEF V, s
<1>6. s \in Seq(V) /\ Len(s) = n
  BY <1>1, <1>5
<1>7. <<>> \o s = s
  BY <1>6
<1>8. flush_ffi_samples(b) = [functions |-> b.functions, locations |-> b.locations,
                              rows |-> <<>>, sample |-> s]
  <2>1. b.sample = <<>>
    BY Zenon DEF Agrees
  <2>2. flush_ffi_samples(b) = [b EXCEPT !.sample = s, !.rows = <<>>]
    BY <1>3, <1>7, <2>1
  <2> QED BY ONLY <1>2, <2>2
<1> QED BY <1>1, <1>4, <1>6, <1>8 DEF rows, n

\* The profile reads as what was recorded.
LEMMA TakenFaithful ==
    ASSUME NEW p, NEW k \in Kinds, NEW u, IsTable(u), Typed(u, k), NEW w, Faithful(p, u, w)
    PROVE  LET q == Profile(p, k, u)
               samples == q.pprof.sample
           IN  /\ SeenTypes(q) = Types[q.kind]
               /\ Len(samples) = Cardinality(DOMAIN q.expected)
               /\ \A i \in DOMAIN samples :
                    /\ Resolves(q, samples[i])
                    /\ \E s \in DOMAIN q.expected :
                         /\ Seen(q, samples[i]).frames = s
                         /\ samples[i].value = q.expected[s]
<1> DEFINE q == Profile(p, k, u)
<1> DEFINE b == p.builder
<1> DEFINE h == p.recorded
<1> DEFINE rows == SetToSeq(DOMAIN b.rows)
<1>1. Sound(b, u) /\ Agrees(b, u, h, w)
  BY Zenon DEF Faithful
<1>2. /\ q.kind = k /\ q.pprof = flush_ffi_samples(b) /\ q.string_table = u /\ q.expected = h
  BY DEF Profile
<1>3. SeenTypes(q) = Types[k]
  BY TypesSeen DEF Profile, Kinds, Types
<1> HIDE DEF q, b, h
<1>4. /\ q.pprof.functions = b.functions /\ q.pprof.locations = b.locations
      /\ Len(q.pprof.sample) = Cardinality(DOMAIN b.rows)
      /\ DOMAIN q.pprof.sample = 1 .. Cardinality(DOMAIN b.rows)
      /\ \A i \in DOMAIN q.pprof.sample :
           /\ rows[i] \in DOMAIN b.rows
           /\ q.pprof.sample[i] = [location_id |-> rows[i], value |-> b.rows[rows[i]],
                                   label |-> {}]
  BY <1>1, <1>2, Flushed
<1> HIDE DEF rows
<1>5. Cardinality(DOMAIN b.rows) = Cardinality(DOMAIN h)
  <2> DEFINE f == [row \in DOMAIN b.rows |-> RowReads(b, u, row)]
  <2>1. \A row \in DOMAIN b.rows : IsRow(b, row) /\ RowReads(b, u, row) \in DOMAIN h
    BY <1>1, Zenon DEF Agrees
  <2>2. \A x, y \in DOMAIN b.rows : RowReads(b, u, x) = RowReads(b, u, y) => x = y
    BY <1>1, <2>1, ReadsInjective
  <2>3. \A s \in DOMAIN h : \E row \in DOMAIN b.rows : RowReads(b, u, row) = s
    BY <1>1, Zenon DEF Agrees
  <2>4. f \in Bijection(DOMAIN b.rows, DOMAIN h)
    <3>1. f \in [DOMAIN b.rows -> DOMAIN h] /\ \A x \in DOMAIN b.rows : f[x] = RowReads(b, u, x)
      BY <2>1
    <3> HIDE DEF f
    <3>2. \A x, y \in DOMAIN b.rows : f[x] = f[y] => x = y
      BY <2>2, <3>1, Zenon
    <3>3. \A s \in DOMAIN h : \E x \in DOMAIN b.rows : f[x] = s
      BY <2>3, <3>1
    <3>4. IsInjective(f)
      BY <3>1, <3>2 DEF IsInjective
    <3>5. f \in Surjection(DOMAIN b.rows, DOMAIN h)
      BY <3>1, <3>3 DEF Surjection
    <3> QED BY <3>1, <3>4, <3>5 DEF Bijection, Injection
  <2>5. ExistsBijection(DOMAIN b.rows, DOMAIN h)
    BY <2>4, Zenon DEF ExistsBijection
  <2>6. IsFiniteSet(DOMAIN b.rows)
    BY <1>1, Zenon DEF Agrees
  <2> QED BY <2>5, <2>6, FS_Bijection
<1>6. ASSUME NEW i \in DOMAIN q.pprof.sample
      PROVE  /\ Resolves(q, q.pprof.sample[i])
             /\ Seen(q, q.pprof.sample[i]).frames = RowReads(b, u, rows[i])
             /\ RowReads(b, u, rows[i]) \in DOMAIN h
             /\ q.pprof.sample[i].value = h[RowReads(b, u, rows[i])]
  <2> DEFINE row == rows[i]
  <2>1. /\ row \in DOMAIN b.rows
        /\ q.pprof.sample[i] = [location_id |-> row, value |-> b.rows[row], label |-> {}]
    BY <1>4
  <2>2. /\ IsRow(b, row) /\ RowReads(b, u, row) \in DOMAIN h
        /\ b.rows[row] = h[RowReads(b, u, row)]
    BY <1>1, <2>1, Zenon DEF Agrees
  <2> HIDE DEF row
  <2>3. Resolves(q, q.pprof.sample[i]) /\ Seen(q, q.pprof.sample[i]).frames = RowReads(b, u, row)
    BY <1>1, <1>2, <1>4, <2>1, <2>2, RowSeen
  <2> QED BY <2>1, <2>2, <2>3 DEF row
<1>7. Len(q.pprof.sample) = Cardinality(DOMAIN h)
  BY <1>4, <1>5
<1> QED BY <1>2, <1>3, <1>6, <1>7 DEF q

-----------------------------------------------------------------------------
(***************************************************************************)
(* The data, step by step                                                  *)
(***************************************************************************)

\* The builders of p, and what is recorded for them, with the strings of t.
AllFaithful(b, h, t) ==
    \A k \in Kinds : Faithful([builder |-> b[k], recorded |-> h[k]], t, Slots(k))

\* Every builder holds what is recorded for it.
Recorded == AllFaithful(builder, recorded, table)

\* The live tracebacks are finitely many, and have all their ids.
Traced == IsFiniteSet(live) /\ \A r \in live : Interned(r)

\* No recorder has more ids than its stack has strings.
Bounds == /\ captured \in 0 .. MaxSamples
          /\ \A k \in Kinds : Len(rec[k].ids) =< Len(Strings(rec[k].stack))

\* The steps that change a builder, the table or the profile that was taken.
LEMMA Changes ==
    ASSUME Next
    PROVE  \/ UNCHANGED <<table, builder, recorded>> /\ taken' = <<>>
           \/ \E k \in Kinds : Intern(k) \/ PushSample(k)
           \/ HeapSamples \/ TakeMemory \/ TakeCpu \/ StopMemory \/ ClearStack \/ ClearTable
           \/ HookMemory \/ HookStack \/ HookTable
<1> DEFINE Same == UNCHANGED <<table, builder, recorded>> /\ taken' = <<>>
<1>1. ASSUME NEW k \in Kinds, Capture(k) PROVE Same
  BY <1>1, Zenon DEF Capture, NoProfile
<1>2. Free \/ DumpAttach \/ LockTable \/ LockBuilder => Same
  BY Zenon DEF Free, DumpAttach, LockTable, LockBuilder, NoProfile
<1>3. StartMemory \/ StartStack \/ StartAgent \/ StartFails => Same
  BY Zenon DEF StartMemory, StartStack, StartAgent, StartFails, NoProfile
<1>4. JoinSnapshot \/ Attach \/ StopStack \/ SamplerStop \/ Fork => Same
  BY Zenon DEF JoinSnapshot, Attach, StopStack, SamplerStop, Fork, NoProfile
<1> HIDE DEF Same
<1> QED BY <1>1, <1>2, <1>3, <1>4, Zenon DEF Next, Same

\* The builder of one kind changes, the others stay as they are.
LEMMA OneChanges ==
    ASSUME Builders, Recorded, IsTable(table), NEW u, IsTable(u), Extends(table, u),
           NEW k \in Kinds, NEW b, NEW h,
           Faithful([builder |-> b, recorded |-> h], u, Slots(k))
    PROVE  AllFaithful([builder EXCEPT ![k] = b], [recorded EXCEPT ![k] = h], u)
<1>1. /\ [builder EXCEPT ![k] = b] = [j \in Kinds |-> IF j = k THEN b ELSE builder[j]]
      /\ [recorded EXCEPT ![k] = h] = [j \in Kinds |-> IF j = k THEN h ELSE recorded[j]]
  BY DEF Builders
<1>2. \A j \in Kinds : Faithful([builder |-> builder[j], recorded |-> recorded[j]], u, Slots(j))
  BY FaithfulExtends DEF Recorded, AllFaithful
<1> QED BY <1>1, <1>2 DEF AllFaithful

\* A builder is made new, and what is recorded for it is forgotten.
LEMMA OneCleared ==
    ASSUME Builders, Recorded, IsTable(table), NEW k \in Kinds,
           builder' = [builder EXCEPT ![k] = NewBuilder],
           recorded' = [recorded EXCEPT ![k] = <<>>], table' = table
    PROVE  Recorded'
<1>1. Extends(table, table)
  BY ExtendsSelf, Zenon DEF IsTable
<1>2. Faithful([builder |-> NewBuilder, recorded |-> <<>>], table, Slots(k))
  BY NewFaithful
<1>3. AllFaithful([builder EXCEPT ![k] = NewBuilder], [recorded EXCEPT ![k] = <<>>], table)
  BY <1>1, <1>2, OneChanges
<1> QED BY <1>3, Zenon DEF Recorded

\* The table is cleared when all builders are new.
LEMMA TableCleared ==
    ASSUME Recorded, \A k \in Kinds : builder[k] = NewBuilder,
           UNCHANGED <<builder, recorded>>
    PROVE  Recorded'
<1>1. \A k \in Kinds :
        Faithful([builder |-> NewBuilder, recorded |-> recorded[k]], table', Slots(k))
  <2> SUFFICES ASSUME NEW k \in Kinds
               PROVE  Faithful([builder |-> NewBuilder, recorded |-> recorded[k]], table', Slots(k))
    OBVIOUS
  <2>1. Faithful([builder |-> NewBuilder, recorded |-> recorded[k]], table, Slots(k))
    BY Zenon DEF Recorded, AllFaithful
  <2> QED BY <2>1, NewStaysFaithful
<1>2. \A k \in Kinds : builder'[k] = NewBuilder /\ recorded'[k] = recorded[k]
  BY Zenon
<1>3. AllFaithful(builder', recorded', table')
  BY <1>1, <1>2, Zenon DEF AllFaithful
<1> QED BY <1>3 DEF Recorded

\* What a dump takes, and leaves.
LEMMA TakeFacts ==
    ASSUME Builders, Recorded, IsTable(table), NEW k \in Kinds, Take(k)
    PROVE  Recorded' /\ ProfileFaithful'
<1> DEFINE u == set_profile_type(table, k)
<1> DEFINE p == [builder |-> builder[k], recorded |-> recorded[k]]
<1>1. IsTable(u) /\ Extends(table, u) /\ Typed(u, k)
  BY TypesAdded DEF Kinds, Types
<1>2. /\ table' = u
      /\ taken' = IF flush_ffi_samples(builder[k]).sample = <<>> THEN <<>> ELSE Profile(p, k, u)
      /\ builder' = [builder EXCEPT ![k] = NewBuilder]
      /\ recorded' = [recorded EXCEPT ![k] = <<>>]
  BY DEF Take, Profile, reset
<1> HIDE DEF u
<1>3. Faithful(p, table, Slots(k))
  BY Zenon DEF Recorded, AllFaithful
<1> HIDE DEF p
<1>4. Faithful(p, u, Slots(k))
  BY <1>1, <1>3, FaithfulExtends
<1>5. Recorded'
  <2>1. Faithful([builder |-> NewBuilder, recorded |-> <<>>], u, Slots(k))
    BY NewFaithful
  <2>2. AllFaithful([builder EXCEPT ![k] = NewBuilder], [recorded EXCEPT ![k] = <<>>], u)
    BY <1>1, <2>1, OneChanges
  <2> QED BY <1>2, <2>2, Zenon DEF Recorded
<1>6. ProfileFaithful'
  <2> SUFFICES ASSUME taken' # <<>> PROVE ProfileFaithful'
    BY DEF ProfileFaithful
  <2>1. taken' = Profile(p, k, u)
    BY <1>2
  <2> QED BY <1>1, <1>4, <2>1, TakenFaithful DEF ProfileFaithful
<1> QED BY <1>5, <1>6

\* Builders and recorded samples stay the same.
LEMMA RecordedStep ==
    ASSUME ControlTypes, Builders, Turns, Inherited, Clean, Held, Traced, IsTable(table),
           Recorded, Next
    PROVE  Recorded' /\ ProfileFaithful'
<1>0. taken' = <<>> => ProfileFaithful'
  BY DEF ProfileFaithful
<1>1. CASE UNCHANGED <<table, builder, recorded>> /\ taken' = <<>>
  BY <1>0, <1>1 DEF Recorded
<1>2. ASSUME NEW k \in Kinds, Intern(k) PROVE Recorded' /\ ProfileFaithful'
  <2> DEFINE u == add(table, Text(Strings(rec[k].stack)[Len(rec[k].ids) + 1]))
  <2>1. table' = u /\ UNCHANGED <<builder, recorded>> /\ taken' = <<>>
    BY <1>2, Zenon DEF Intern, NoProfile
  <2>2. IsTable(u) /\ Extends(table, u)
    BY AddKeeps
  <2> HIDE DEF u
  <2>3. AllFaithful(builder, recorded, u)
    BY <2>2, FaithfulExtends DEF Recorded, AllFaithful
  <2> QED BY <1>0, <2>1, <2>3, Zenon DEF Recorded
<1>3. ASSUME NEW k \in Kinds, PushSample(k) PROVE Recorded' /\ ProfileFaithful'
  <2> DEFINE v == value_slots(k, IF k = "memory" THEN AllocValues ELSE CpuValues)
  <2> DEFINE p == Sampled(Both(k), rec[k], v)
  <2>1. /\ builder' = [builder EXCEPT ![k] = p.builder]
        /\ recorded' = [recorded EXCEPT ![k] = p.recorded]
        /\ table' = table /\ taken' = <<>> /\ Interned(rec[k])
    BY <1>3, Zenon DEF PushSample, Push, NoProfile
  <2>2. v \in Values(Slots(k))
    BY OneSample DEF Kinds, Slots
  <2> HIDE DEF v
  <2>3. rec[k] \in Traceback /\ Resolved(rec[k], table)
    <3>1. rec[k] # Idle
      BY <2>1 DEF Interned, Idle
    <3>2. proc # "hook"
      BY <3>1, Zenon DEF Clean
    <3> QED BY <3>2 DEF ControlTypes, Held
  <2>4. Faithful(Both(k), table, Slots(k))
    BY Zenon DEF Recorded, AllFaithful, Both
  <2>5. Faithful(p, table, Slots(k))
    BY <2>1, <2>2, <2>3, <2>4, SampledFaithful
  <2> HIDE DEF p
  <2>6. Faithful([builder |-> p.builder, recorded |-> p.recorded], table, Slots(k))
    BY <2>5 DEF Faithful
  <2>7. Extends(table, table)
    BY ExtendsSelf, Zenon DEF IsTable
  <2>8. AllFaithful([builder EXCEPT ![k] = p.builder], [recorded EXCEPT ![k] = p.recorded], table)
    BY <2>6, <2>7, OneChanges
  <2> QED BY <1>0, <2>1, <2>8, Zenon DEF Recorded
<1>4. CASE HeapSamples
  <2> DEFINE p == Heaped(Both("memory"), SetToSeq(live))
  <2>1. /\ builder' = [builder EXCEPT !["memory"] = p.builder]
        /\ recorded' = [recorded EXCEPT !["memory"] = p.recorded]
        /\ table' = table /\ taken' = <<>> /\ snapshot = "memory_heap"
    BY <1>4, Zenon DEF HeapSamples, Push, NoProfile, Heaped, At
  <2>2. proc # "hook"
    BY <2>1 DEF Turns, Inherited, Hook, Teardown
  <2>3. \A r \in live : r \in Traceback /\ Interned(r) /\ Resolved(r, table)
    BY <2>2 DEF ControlTypes, Traced, Held
  <2>4. Faithful(Both("memory"), table, 4)
    BY DEF Recorded, AllFaithful, Both, Slots, Kinds
  <2>5. Faithful(p, table, 4)
    BY <2>3, <2>4, HeapedFaithful DEF Traced
  <2> HIDE DEF p
  <2>6. Faithful([builder |-> p.builder, recorded |-> p.recorded], table, Slots("memory"))
    BY <2>5 DEF Faithful, Slots
  <2>7. Extends(table, table)
    BY ExtendsSelf, Zenon DEF IsTable
  <2>8. AllFaithful([builder EXCEPT !["memory"] = p.builder],
                    [recorded EXCEPT !["memory"] = p.recorded], table)
    BY <2>6, <2>7, OneChanges DEF Kinds
  <2> QED BY <1>0, <2>1, <2>8, Zenon DEF Recorded
<1>5. CASE TakeMemory
  BY <1>5, TakeFacts DEF TakeMemory, Kinds
<1>6. CASE TakeCpu
  BY <1>6, TakeFacts DEF TakeCpu, Kinds
<1>7. CASE StopMemory
  <2>1. /\ builder' = [builder EXCEPT !["memory"] = NewBuilder]
        /\ recorded' = [recorded EXCEPT !["memory"] = <<>>] /\ table' = table /\ taken' = <<>>
    BY <1>7, Zenon DEF StopMemory, ClearSamples, reset, NoProfile
  <2> QED BY <1>0, <2>1, OneCleared DEF Kinds
<1>8. CASE ClearStack
  <2>1. /\ builder' = [builder EXCEPT !["cpu"] = NewBuilder]
        /\ recorded' = [recorded EXCEPT !["cpu"] = <<>>] /\ table' = table /\ taken' = <<>>
    BY <1>8, Zenon DEF ClearStack, ClearSamples, reset, NoProfile
  <2> QED BY <1>0, <2>1, OneCleared DEF Kinds
<1>9. CASE ClearTable
  <2>1. UNCHANGED <<builder, recorded>> /\ taken' = <<>> /\ life = "clear_table"
    BY <1>9, Zenon DEF ClearTable, Goto, NoProfile
  <2>2. \A k \in Kinds : builder[k] = NewBuilder
    BY <2>1 DEF Clean, Teardown, Kinds
  <2> QED BY <1>0, <2>1, <2>2, TableCleared
<1>10. CASE HookMemory
  <2>1. /\ builder' = [builder EXCEPT !["memory"] = NewBuilder]
        /\ recorded' = [recorded EXCEPT !["memory"] = <<>>] /\ table' = table /\ taken' = <<>>
    BY <1>10, Zenon DEF HookMemory, LeakBuilder, NoProfile
  <2> QED BY <1>0, <2>1, OneCleared DEF Kinds
<1>11. CASE HookStack
  <2>1. /\ builder' = [builder EXCEPT !["cpu"] = NewBuilder]
        /\ recorded' = [recorded EXCEPT !["cpu"] = <<>>] /\ table' = table /\ taken' = <<>>
    BY <1>11, Zenon DEF HookStack, LeakBuilder, NoProfile
  <2> QED BY <1>0, <2>1, OneCleared DEF Kinds
<1>12. CASE HookTable
  <2>1. UNCHANGED <<builder, recorded>> /\ taken' = <<>> /\ life = "hook_table"
    BY <1>12, Zenon DEF HookTable, Goto, NoProfile
  <2>2. \A k \in Kinds : builder[k] = NewBuilder
    BY <2>1 DEF Clean, Kinds
  <2> QED BY <1>0, <2>1, <2>2, TableCleared
<1> QED BY <1>1, <1>2, <1>3, <1>4, <1>5, <1>6, <1>7, <1>8, <1>9, <1>10, <1>11, <1>12,
    Changes, Zenon

\* A stack has two strings for each frame.
LEMMA StringsCount ==
    ASSUME NEW s \in Stacks \cup {<<>>}
    PROVE  Len(Strings(s)) \in Nat /\ Len(<<>>) =< Len(Strings(s))
<1>1. Len(s) \in Nat
  BY StackAssumption
<1>2. Len(Strings(s)) = 2 * Len(s)
  BY <1>1 DEF Strings
<1> QED BY <1>1, <1>2

\* The steps that change a recorder, the number of samples or a live traceback.
LEMMA RecorderChanges ==
    ASSUME Next
    PROVE  \/ UNCHANGED <<rec, captured, live>>
           \/ UNCHANGED <<rec, captured>> /\ (live' = {} \/ \E r \in live : live' = live \ {r})
           \/ Fork
           \/ \E k \in Kinds : Capture(k) \/ Intern(k) \/ PushSample(k)
<1> DEFINE Same == UNCHANGED <<rec, captured, live>>
<1>1. DumpAttach \/ LockTable \/ LockBuilder => Same
  BY Zenon DEF DumpAttach, LockTable, LockBuilder
<1>2. HeapSamples => Same
  BY HeapFacts
<1>3. TakeMemory \/ TakeCpu => Same
  BY Zenon DEF TakeMemory, TakeCpu, Take
<1>4. StartMemory \/ StartStack \/ StartAgent \/ StartFails => Same
  BY Zenon DEF StartMemory, StartStack, StartAgent, StartFails
<1>5. JoinSnapshot \/ Attach \/ StopStack \/ SamplerStop => Same
  BY Zenon DEF JoinSnapshot, Attach, StopStack, SamplerStop
<1>6. ClearStack \/ ClearTable => Same
  BY Zenon DEF ClearStack, ClearTable
<1>7. HookMemory \/ HookStack \/ HookTable => Same
  BY Zenon DEF HookMemory, HookStack, HookTable, LeakBuilder
<1>8. StopMemory => UNCHANGED <<rec, captured>> /\ live' = {}
  BY Zenon DEF StopMemory
<1>9. Free => UNCHANGED <<rec, captured>> /\ \E r \in live : live' = live \ {r}
  BY Zenon DEF Free
<1> HIDE DEF Same
<1> QED BY <1>1, <1>2, <1>3, <1>4, <1>5, <1>6, <1>7, <1>8, <1>9, Zenon DEF Next, Same

\* What is live stays finite and has all its ids.
LEMMA TracedStep == ASSUME Traced, Next PROVE Traced'
<1>1. CASE live' \in {live, {}} \/ \E r \in live : live' = live \ {r}
  <2>1. live' \subseteq live
    BY <1>1
  <2>2. IsFiniteSet(live')
    BY <2>1, FS_Subset DEF Traced
  <2> QED BY <2>1, <2>2, Zenon DEF Traced
<1>2. ASSUME NEW k \in Kinds, PushSample(k) PROVE Traced'
  <2>1. Interned(rec[k]) /\ (live' = live \/ live' = live \cup {rec[k]})
    BY <1>2 DEF PushSample
  <2>2. IsFiniteSet(live \cup {rec[k]})
    BY FS_AddElement DEF Traced
  <2> QED BY <2>1, <2>2 DEF Traced
<1>3. ASSUME NEW k \in Kinds, Capture(k) \/ Intern(k) \/ Fork PROVE live' = live
  BY <1>3, Zenon DEF Capture, Intern, Fork
<1>4. Fork => live' = live
  BY Zenon DEF Fork
<1> QED BY <1>1, <1>2, <1>3, <1>4, RecorderChanges

\* The bounds.
LEMMA BoundsStep == ASSUME ControlTypes, Bounds, Next PROVE Bounds'
<1> DEFINE Fits(r) == Len(r.ids) =< Len(Strings(r.stack))
<1>0. captured \in 0 .. MaxSamples /\ \A k \in Kinds : Fits(rec[k])
  BY Zenon DEF Bounds
<1>1. Fits(Idle)
  BY StringsCount DEF Idle
<1>2. CASE UNCHANGED <<rec, captured>>
  BY <1>2 DEF Bounds
<1>3. ASSUME NEW k \in Kinds, Capture(k) PROVE Bounds'
  <2> PICK s \in Stacks : rec' = [rec EXCEPT ![k].stack = s]
    BY <1>3, Zenon DEF Capture
  <2>1. rec[k] = Idle /\ captured' = captured + 1 /\ captured < MaxSamples
    BY <1>3, Zenon DEF Capture
  <2>2. \A j \in Kinds : rec'[j] = IF j = k THEN [Idle EXCEPT !.stack = s] ELSE rec[j]
    BY <2>1, Zenon DEF ControlTypes
  <2>3. Fits([Idle EXCEPT !.stack = s])
    BY StringsCount DEF Idle
  <2>4. captured' \in 0 .. MaxSamples
    BY <1>0, <2>1, BoundAssumption
  <2> HIDE DEF Fits
  <2>5. \A j \in Kinds : Fits(rec'[j])
    BY <1>0, <2>2, <2>3, Zenon
  <2> QED BY <2>4, <2>5, Zenon DEF Bounds, Fits
<1>4. ASSUME NEW k \in Kinds, Intern(k) PROVE Bounds'
  <2> DEFINE s == Text(Strings(rec[k].stack)[Len(rec[k].ids) + 1])
  <2> DEFINE n == IndexOf(add(table, s), s)
  <2>1. /\ rec' = [rec EXCEPT ![k].ids = Append(@, n)] /\ captured' = captured
        /\ rec[k].stack # <<>> /\ ~Interned(rec[k])
    BY <1>4, Zenon DEF Intern
  <2> HIDE DEF n
  <2> DEFINE q == [rec[k] EXCEPT !.ids = Append(@, n)]
  <2>2. rec[k].stack \in Stacks \cup {<<>>} /\ rec[k].ids \in Seq(Nat)
    BY DEF ControlTypes, Traceback
  <2>3. Len(rec[k].ids) # Len(Strings(rec[k].stack))
    BY <2>1, Zenon DEF Interned
  <2>4. q.stack = rec[k].stack /\ q.ids = Append(rec[k].ids, n)
    BY DEF ControlTypes, Traceback
  <2> HIDE DEF q
  <2>5. \A j \in Kinds : rec'[j] = IF j = k THEN q ELSE rec[j]
    BY <2>1, Zenon DEF ControlTypes, q
  <2>6. Len(q.ids) = Len(rec[k].ids) + 1 /\ Len(rec[k].ids) \in Nat
    BY ONLY <2>2, <2>4, AppendProperties, LenProperties
  <2>7. Fits(rec[k]) /\ Len(Strings(rec[k].stack)) \in Nat
    BY <1>0, <2>2, StringsCount
  <2>8. Fits(q)
    BY ONLY <2>3, <2>4, <2>6, <2>7, Zenon, SMT
  <2> HIDE DEF Fits
  <2>9. \A j \in Kinds : Fits(rec'[j])
    BY <1>0, <2>5, <2>8, Zenon
  <2> QED BY <1>0, <2>1, <2>9, Zenon DEF Bounds, Fits
<1>5. ASSUME NEW k \in Kinds, PushSample(k) PROVE Bounds'
  <2>1. rec' = [rec EXCEPT ![k] = Idle] /\ captured' = captured
    BY <1>5, Zenon DEF PushSample
  <2>2. \A j \in Kinds : rec'[j] = IF j = k THEN Idle ELSE rec[j]
    BY <2>1, Zenon DEF ControlTypes
  <2> HIDE DEF Fits
  <2>3. \A j \in Kinds : Fits(rec'[j])
    BY <1>0, <1>1, <2>2, Zenon
  <2> QED BY <1>0, <2>1, <2>3, Zenon DEF Bounds, Fits
<1>6. CASE Fork
  <2>1. rec' = [rec EXCEPT !["cpu"] = Idle] /\ captured' = captured
    BY <1>6, Zenon DEF Fork
  <2>2. \A j \in Kinds : rec'[j] = IF j = "cpu" THEN Idle ELSE rec[j]
    BY <2>1, Zenon DEF ControlTypes
  <2> HIDE DEF Fits
  <2>3. \A j \in Kinds : Fits(rec'[j])
    BY <1>0, <1>1, <2>2, Zenon
  <2> QED BY <1>0, <2>1, <2>3, Zenon DEF Bounds, Fits
<1> QED BY <1>2, <1>3, <1>4, <1>5, <1>6, RecorderChanges, Zenon

\* The invariant of the data.
DataInv == Recorded /\ Traced /\ Bounds /\ ProfileFaithful

\* It holds at first.
LEMMA DataInit == Init => DataInv
<1> SUFFICES ASSUME Init PROVE DataInv
  OBVIOUS
<1>1. Recorded
  <2>1. \A k \in Kinds : builder[k] = NewBuilder /\ recorded[k] = <<>>
    BY DEF Init
  <2>2. \A k \in Kinds : Faithful([builder |-> NewBuilder, recorded |-> <<>>], table, Slots(k))
    BY NewFaithful
  <2> QED BY <2>1, <2>2, Zenon DEF Recorded, AllFaithful
<1>2. Traced
  BY FS_EmptySet DEF Init, Traced
<1>3. Bounds
  BY BoundAssumption, StringsCount DEF Init, Bounds, Idle
<1>4. ProfileFaithful
  BY DEF Init, ProfileFaithful
<1> QED BY <1>1, <1>2, <1>3, <1>4 DEF DataInv

\* It is inductive.
LEMMA DataStep == ProfilesInv /\ DataInv /\ [Next]_vars => DataInv'
<1> SUFFICES ASSUME ProfilesInv, DataInv, [Next]_vars PROVE DataInv'
  OBVIOUS
<1>1. CASE Next
  <2>1. Recorded' /\ ProfileFaithful'
    BY <1>1, RecordedStep, Zenon DEF ProfilesInv, DataInv
  <2>2. Traced' /\ Bounds'
    BY <1>1, TracedStep, BoundsStep, Zenon DEF ProfilesInv, DataInv
  <2> QED BY <2>1, <2>2, Zenon DEF DataInv
<1>2. CASE UNCHANGED vars
  <2>1. UNCHANGED <<builder, recorded, table, live, captured, rec, taken>>
    BY <1>2 DEF vars
  <2>2. Recorded' /\ Traced' /\ Bounds'
    BY <2>1, Zenon DEF DataInv, Recorded, Traced, Bounds
  <2>3. ProfileFaithful'
    BY <2>1, Zenon DEF DataInv, ProfileFaithful
  <2> QED BY <2>2, <2>3, Zenon DEF DataInv
<1> QED BY <1>1, <1>2

\* So it holds in every state.
LEMMA DataInvariant == Spec => []DataInv
BY ProfilesInvariant, ProfilesInit, DataInit, ProfilesStep, DataStep, PTL DEF Spec

\* A profile that is taken reads as what was recorded for it since the last one.
THEOREM ProfilesFaithful == Spec => []ProfileFaithful
<1>1. DataInv => ProfileFaithful
  BY DEF DataInv
<1> QED BY <1>1, DataInvariant, PTL

\* Every variable has its type.
THEOREM ProfileTypes == Spec => []TypeOK
<1> SUFFICES ASSUME ProfilesInv, DataInv PROVE TypeOK
  BY ProfilesInvariant, DataInvariant, PTL
<1>1. TableOK
  BY DEF ProfilesInv, IsTable, TableOK
<1>2. ASSUME NEW k \in Kinds
      PROVE  /\ IsInjective(builder[k].functions) /\ IsInjective(builder[k].locations)
             /\ \A r \in DOMAIN builder[k].rows : Range(builder[k].rows[r]) \subseteq Value
             /\ Len(rec[k].ids) =< Len(Strings(rec[k].stack))
  <2>1. Faithful([builder |-> builder[k], recorded |-> recorded[k]], table, Slots(k))
    BY Zenon DEF DataInv, Recorded, AllFaithful
  <2>2. Sound(builder[k], table) /\ Agrees(builder[k], table, recorded[k], Slots(k))
    BY <2>1 DEF Faithful
  <2>3. IsInjective(builder[k].functions) /\ IsInjective(builder[k].locations)
    BY <2>2, Zenon DEF Sound, Distinct
  <2>4. \A r \in DOMAIN builder[k].rows : builder[k].rows[r] \in Values(Slots(k))
    BY <2>2, Zenon DEF Agrees
  <2>5. ASSUME NEW v \in Values(Slots(k)) PROVE Range(v) \subseteq Value
    BY DEF Values, Range
  <2>6. Len(rec[k].ids) =< Len(Strings(rec[k].stack))
    BY Zenon DEF DataInv, Bounds
  <2> QED BY <2>3, <2>4, <2>5, <2>6, Zenon
<1>3. captured \in 0 .. MaxSamples
  BY Zenon DEF DataInv, Bounds
<1>4. ControlTypes
  BY DEF ProfilesInv
<1>5. /\ on \in [Kinds -> BOOLEAN]
      /\ gil \in {"free", "hook", "dump", "caller"}
      /\ snapshot \in {"none", "wait", "memory_heap", "memory_lock", "memory_table",
                       "memory_take", "cpu_lock", "cpu_table", "cpu_take"}
      /\ life \in {"off", "start_stack", "install", "on", "attach", "stop_memory",
                   "stop_stack", "sampler_stop", "clear", "clear_table",
                   "hook_memory", "hook_stack", "hook_table"}
      /\ proc \in {"parent", "hook", "child"} /\ locked \subseteq Kinds \cup {"table"}
  BY <1>4 DEF ControlTypes, Teardown, Hook, MemoryDump
<1> QED BY <1>1, <1>2, <1>3, <1>5, Zenon DEF TypeOK
=============================================================================
