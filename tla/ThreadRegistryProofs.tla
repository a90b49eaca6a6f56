------------------------ MODULE ThreadRegistryProofs ------------------------
(***************************************************************************)
(* Proofs about ThreadRegistry, for any number of threads, idents and      *)
(* native ids, both Python versions, and parent and child: LIVE is exactly *)
(* the threads that run, and the timers of a session are theirs.           *)
(***************************************************************************)
EXTENDS ThreadRegistry, TLAPS

USE DEF vars, threadVars, instVars, hookVars, procVars, sessVars

-----------------------------------------------------------------------------
(***************************************************************************)
(* The invariant                                                           *)
(***************************************************************************)

\* Its ids are of the sets of ids while a thread exists, and in the listing.
IdsOf ==
    /\ \A n \in Threads : Exists(n) => ident[n] \in Idents /\ tid[n] \in Tids
    /\ \A n \in Threads : pc[n] \in {"named", "active"} \/ n \in snap =>
         native_id[n] \in Tids /\ ident[n] \in Idents /\ tid[n] \in Tids
    /\ \A m, n \in Threads : Exists(m) /\ Exists(n) /\ m # n =>
         ident[m] # ident[n] /\ tid[m] # tid[n]

\* Which hooks are there at which place of the installation.
Hooked ==
    /\ py310 => inst # "start_hook"
    /\ ~py310 => inst # "exit_hook" /\ (startHook => exitHook)
    /\ inst = "start_hook" => exitHook
    /\ inst = "exit_hook" => startHook
    /\ inst \in {"list", "loop", "done", "stale"} => startHook /\ exitHook
    /\ inst # "loop" => snap = {}
    /\ caller # None => pc[caller] = "active"

\* A session runs after an installation only, and leaves no timer.
Sessions ==
    /\ session # "off" => inst = "done"
    /\ slot <=> session = "on"
    /\ session = "off" => \A t \in Tids : timers[t] = None

\* An entry of LIVE is of a thread that was registered and not unregistered.
Sound ==
    \A i \in Idents : live[i] # None =>
        /\ startHook
        /\ \E n \in Running \cup Leaving : ident[n] = i /\ tid[n] = live[i]

\* After the listing every thread that runs is in LIVE, or is listed.
Complete ==
    /\ \A n \in snap : pc[n] = "active"
    /\ inst \in {"loop", "done"} =>
         \A n \in Running : live[ident[n]] = tid[n] \/ n \in snap

\* The thread for which a native function runs.
Pending ==
    /\ native # None /\ native.do = "register" =>
         /\ native.previous \in {None, native.tid}
         /\ \E n \in Running : tid[n] = native.tid /\ live[ident[n]] = native.tid
    /\ native # None /\ native.do = "unregister" =>
         /\ \E n \in Threads : pc[n] = "exiting" /\ tid[n] = native.tid
         /\ \A i \in Idents : live[i] # native.tid

\* Timers of a session, but for the one a native function is about to make or
\* to delete.
Adding(t) == native # None /\ native.do = "register" /\ native.tid = t
Removing(t) == native # None /\ native.do = "unregister" /\ native.tid = t
Timed ==
    slot =>
      /\ \A n \in Running : timers[tid[n]] = n \/ Adding(tid[n])
      /\ \A t \in Tids : timers[t] # None =>
           /\ tid[timers[t]] = t
           /\ \/ timers[t] \in Running \cup Leaving /\ live[ident[timers[t]]] = t
              \/ Removing(t) /\ pc[timers[t]] = "exiting"

RegistryInv ==
    /\ TypeOK /\ IdsOf /\ Hooked /\ Sessions
    /\ ~raced => Sound /\ Complete /\ Pending /\ Timed

-----------------------------------------------------------------------------
(***************************************************************************)
(* Each part of it is kept by each step                                    *)
(***************************************************************************)

\* The flags are Boolean.
LEMMA FlagTypes ==
    ASSUME TypeOK, Next
    PROVE  {py310, forked, exitHook, startHook, slot, raced}' \subseteq BOOLEAN
<1>1. /\ py310' \in BOOLEAN /\ forked' \in BOOLEAN /\ exitHook' \in BOOLEAN
      /\ startHook' \in BOOLEAN /\ slot' \in BOOLEAN /\ raced' \in BOOLEAN
  BY Zenon
  DEF TypeOK, Next, Install, ThreadStep, RegisterTimer, UnregisterTimer, InstallExitHook,
      InstallStartHook, Refresh, ListActive, RegisterListed, Installed, Attach, Detach,
      DropTimers, Fork, Begin, SetNativeId, EnterActive, Delete, Unregister, End
<1> QED BY <1>1

\* A timer runs on the clock of a thread.
LEMMA CreatedType ==
    ASSUME NEW ts \in [Tids -> Threads \cup {None}], NEW t \in Tids
    PROVE  /\ thread_created(ts, t) \in [Tids -> Threads \cup {None}]
           /\ thread_removed(ts, t) \in [Tids -> Threads \cup {None}]
<1>1. Of(t) # {} => (CHOOSE n \in Of(t) : TRUE) \in Threads
  BY DEF Of
<1> QED BY <1>1 DEF thread_created, thread_removed

\* Every variable keeps its type.
LEMMA TypesStep ==
    ASSUME TypeOK, IdsOf, Hooked, Next
    PROVE  TypeOK'
<1> USE NoneAssumption
    DEF TypeOK, IdsOf, Exists, Idle, NativeCalls, Hooked
<1>1. CASE RegisterTimer
  <2>1. timers' \in [Tids -> Threads \cup {None}]
    BY <1>1, CreatedType DEF RegisterTimer
  <2> QED BY <1>1, <2>1, FlagTypes DEF RegisterTimer
<1>2. CASE UnregisterTimer
  BY <1>2 DEF UnregisterTimer, thread_removed
<1>3. CASE InstallExitHook
  BY <1>3 DEF InstallExitHook, Goto, Callers
<1>4. CASE InstallStartHook
  BY <1>4 DEF InstallStartHook, Goto, Callers
<1>5. CASE Refresh
  BY <1>5, FlagTypes DEF Refresh, Goto, Callers
<1>6. CASE ListActive
  BY <1>6 DEF ListActive, Goto
<1>7. CASE RegisterListed
  BY <1>7 DEF RegisterListed, InsertLive
<1>8. CASE Installed
  BY <1>8 DEF Installed, Goto
<1>9. CASE Attach
  <2>1. timers' \in [Tids -> Threads \cup {None}]
    BY <1>9, CreatedType DEF Attach
  <2>2. live' \in [Idents -> Tids \cup {None}]
    BY <1>9 DEF Attach, Callers
  <2>3. session' \in {"off", "on", "detached"}
    BY <1>9 DEF Attach
  <2> QED BY <1>9, <2>1, <2>2, <2>3, FlagTypes DEF Attach
<1>10. CASE Detach
  BY <1>10, FlagTypes DEF Detach
<1>11. CASE DropTimers
  BY <1>11 DEF DropTimers
<1>12. CASE Fork
  BY <1>12 DEF Fork, Callers
<1>13. CASE \E n \in Threads : Begin(n)
  BY <1>13 DEF Begin
<1>14. CASE \E n \in Threads : SetNativeId(n)
  BY <1>14 DEF SetNativeId, InsertLive
<1>15. CASE \E n \in Threads : EnterActive(n)
  BY <1>15 DEF EnterActive
<1>16. CASE \E n \in Threads : Delete(n)
  BY <1>16 DEF Delete, LeavesHooked
<1>17. CASE \E n \in Threads : Unregister(n)
  BY <1>17 DEF Unregister, RemoveLive
<1>18. CASE \E n \in Threads : End(n)
  BY <1>18 DEF End
<1> QED
  BY <1>1, <1>2, <1>3, <1>4, <1>5, <1>6, <1>7, <1>8, <1>9, <1>10, <1>11, <1>12,
     <1>13, <1>14, <1>15, <1>16, <1>17, <1>18
  DEF Next, Install, ThreadStep

\* Ids are used again only when their thread has ended.
LEMMA IdsStep ==
    ASSUME TypeOK, IdsOf, Hooked, Next
    PROVE  IdsOf'
<1> USE DEF TypeOK, IdsOf, Exists, Idle, Hooked
<1>1. CASE RegisterTimer
  BY <1>1 DEF RegisterTimer, thread_created, thread_removed
<1>2. CASE UnregisterTimer
  BY <1>2 DEF UnregisterTimer, thread_removed
<1>3. CASE InstallExitHook
  BY <1>3 DEF InstallExitHook, Goto, Callers
<1>4. CASE InstallStartHook
  BY <1>4 DEF InstallStartHook, Goto, Callers
<1>5. CASE Refresh
  BY <1>5 DEF Refresh, Goto, Callers
<1>6. CASE ListActive
  BY <1>6 DEF ListActive, Goto
<1>7. CASE RegisterListed
  BY <1>7 DEF RegisterListed, InsertLive
<1>8. CASE Installed
  BY <1>8 DEF Installed, Goto
<1>9. CASE Attach
  BY <1>9 DEF Attach, Callers, thread_created
<1>10. CASE Detach
  BY <1>10 DEF Detach
<1>11. CASE DropTimers
  BY <1>11 DEF DropTimers
<1>12. CASE Fork
  BY <1>12 DEF Fork, Callers
<1>13. CASE \E n \in Threads : Begin(n)
  BY <1>13 DEF Begin
<1>14. CASE \E n \in Threads : SetNativeId(n)
  BY <1>14 DEF SetNativeId, InsertLive
<1>15. CASE \E n \in Threads : EnterActive(n)
  BY <1>15 DEF EnterActive
<1>16. CASE \E n \in Threads : Delete(n)
  BY <1>16 DEF Delete, LeavesHooked
<1>17. CASE \E n \in Threads : Unregister(n)
  BY <1>17 DEF Unregister, RemoveLive
<1>18. CASE \E n \in Threads : End(n)
  BY <1>18 DEF End
<1> QED
  BY <1>1, <1>2, <1>3, <1>4, <1>5, <1>6, <1>7, <1>8, <1>9, <1>10, <1>11, <1>12,
     <1>13, <1>14, <1>15, <1>16, <1>17, <1>18
  DEF Next, Install, ThreadStep

\* The hooks are set in the order of the version, and stay.
LEMMA HookedStep ==
    ASSUME TypeOK, Hooked, Next
    PROVE  Hooked'
<1> USE DEF TypeOK, Hooked, Exists
<1>1. CASE RegisterTimer
  BY <1>1 DEF RegisterTimer, thread_created, thread_removed
<1>2. CASE UnregisterTimer
  BY <1>2 DEF UnregisterTimer, thread_removed
<1>3. CASE InstallExitHook
  BY <1>3 DEF InstallExitHook, Goto, Callers
<1>4. CASE InstallStartHook
  BY <1>4 DEF InstallStartHook, Goto, Callers
<1>5. CASE Refresh
  BY <1>5 DEF Refresh, Goto, Callers
<1>6. CASE ListActive
  BY <1>6 DEF ListActive, Goto
<1>7. CASE RegisterListed
  BY <1>7 DEF RegisterListed, InsertLive
<1>8. CASE Installed
  BY <1>8 DEF Installed, Goto
<1>9. CASE Attach
  BY <1>9 DEF Attach, Callers, thread_created
<1>10. CASE Detach
  BY <1>10 DEF Detach
<1>11. CASE DropTimers
  BY <1>11 DEF DropTimers
<1>12. CASE Fork
  BY <1>12 DEF Fork, Callers
<1>13. CASE \E n \in Threads : Begin(n)
  BY <1>13 DEF Begin
<1>14. CASE \E n \in Threads : SetNativeId(n)
  BY <1>14 DEF SetNativeId, InsertLive
<1>15. CASE \E n \in Threads : EnterActive(n)
  BY <1>15 DEF EnterActive
<1>16. CASE \E n \in Threads : Delete(n)
  BY <1>16 DEF Delete, LeavesHooked
<1>17. CASE \E n \in Threads : Unregister(n)
  BY <1>17 DEF Unregister, RemoveLive
<1>18. CASE \E n \in Threads : End(n)
  BY <1>18 DEF End
<1> QED
  BY <1>1, <1>2, <1>3, <1>4, <1>5, <1>6, <1>7, <1>8, <1>9, <1>10, <1>11, <1>12,
     <1>13, <1>14, <1>15, <1>16, <1>17, <1>18
  DEF Next, Install, ThreadStep

\* fork() and the installation keep away from a session.
LEMMA SessionsStep ==
    ASSUME TypeOK, Hooked, Sessions, Next
    PROVE  Sessions'
<1> USE DEF TypeOK, Sessions, Hooked
<1>1. CASE RegisterTimer
  BY <1>1 DEF RegisterTimer, thread_created, thread_removed
<1>2. CASE UnregisterTimer
  BY <1>2 DEF UnregisterTimer, thread_removed
<1>3. CASE InstallExitHook
  BY <1>3 DEF InstallExitHook, Goto, Callers
<1>4. CASE InstallStartHook
  BY <1>4 DEF InstallStartHook, Goto, Callers
<1>5. CASE Refresh
  BY <1>5 DEF Refresh, Goto, Callers
<1>6. CASE ListActive
  BY <1>6 DEF ListActive, Goto
<1>7. CASE RegisterListed
  BY <1>7 DEF RegisterListed, InsertLive
<1>8. CASE Installed
  BY <1>8 DEF Installed, Goto
<1>9. CASE Attach
  BY <1>9 DEF Attach, Callers, thread_created
<1>10. CASE Detach
  BY <1>10 DEF Detach
<1>11. CASE DropTimers
  BY <1>11 DEF DropTimers
<1>12. CASE Fork
  BY <1>12 DEF Fork, Callers
<1>13. CASE \E n \in Threads : Begin(n)
  BY <1>13 DEF Begin
<1>14. CASE \E n \in Threads : SetNativeId(n)
  BY <1>14 DEF SetNativeId, InsertLive
<1>15. CASE \E n \in Threads : EnterActive(n)
  BY <1>15 DEF EnterActive
<1>16. CASE \E n \in Threads : Delete(n)
  BY <1>16 DEF Delete, LeavesHooked
<1>17. CASE \E n \in Threads : Unregister(n)
  BY <1>17 DEF Unregister, RemoveLive
<1>18. CASE \E n \in Threads : End(n)
  BY <1>18 DEF End
<1> QED
  BY <1>1, <1>2, <1>3, <1>4, <1>5, <1>6, <1>7, <1>8, <1>9, <1>10, <1>11, <1>12,
     <1>13, <1>14, <1>15, <1>16, <1>17, <1>18
  DEF Next, Install, ThreadStep

\* An entry of LIVE comes with a thread, and leaves before it.
LEMMA SoundStep ==
    ASSUME RegistryInv, Next, ~raced'
    PROVE  Sound'
<1> USE DEF RegistryInv, TypeOK, IdsOf, Hooked, Sound, Complete, Pending, Running,
            Leaving, Idle, Exists
<1>1. CASE RegisterTimer
  BY <1>1 DEF RegisterTimer, thread_created, thread_removed
<1>2. CASE UnregisterTimer
  BY <1>2 DEF UnregisterTimer, thread_removed
<1>3. CASE InstallExitHook
  BY <1>3 DEF InstallExitHook, Goto, Callers
<1>4. CASE InstallStartHook
  BY <1>4 DEF InstallStartHook, Goto, Callers
<1>5. CASE Refresh
  BY <1>5 DEF Refresh, Goto, Callers
<1>6. CASE ListActive
  BY <1>6 DEF ListActive, Goto
<1>7. CASE RegisterListed
  <2>1. PICK n \in snap : /\ InsertLive(ident[n], tid[n])
                          /\ snap' = snap \ {n} /\ ~raced
    BY <1>7, Zenon DEF RegisterListed
  <2> QED BY <1>7, <2>1 DEF RegisterListed, InsertLive
<1>8. CASE Installed
  BY <1>8 DEF Installed, Goto
<1>9. CASE Attach
  BY <1>9 DEF Attach, Callers, thread_created
<1>10. CASE Detach
  BY <1>10 DEF Detach
<1>11. CASE DropTimers
  BY <1>11 DEF DropTimers
<1>12. CASE Fork
  BY <1>12 DEF Fork, Callers
<1>13. CASE \E n \in Threads : Begin(n)
  BY <1>13 DEF Begin
<1>14. CASE \E n \in Threads : SetNativeId(n)
  BY <1>14 DEF SetNativeId, InsertLive
<1>15. CASE \E n \in Threads : EnterActive(n)
  BY <1>15 DEF EnterActive
<1>16. CASE \E n \in Threads : Delete(n)
  BY <1>16 DEF Delete, LeavesHooked
<1>17. CASE \E n \in Threads : Unregister(n)
  BY <1>17 DEF Unregister, RemoveLive
<1>18. CASE \E n \in Threads : End(n)
  BY <1>18 DEF End
<1> QED
  BY <1>1, <1>2, <1>3, <1>4, <1>5, <1>6, <1>7, <1>8, <1>9, <1>10, <1>11, <1>12,
     <1>13, <1>14, <1>15, <1>16, <1>17, <1>18
  DEF Next, Install, ThreadStep

\* The listing misses no thread that LIVE does not have.
LEMMA CompleteStep ==
    ASSUME RegistryInv, Next, ~raced'
    PROVE  Complete'
<1> USE DEF RegistryInv, TypeOK, IdsOf, Hooked, Complete, Running, Idle, Exists
<1>1. CASE RegisterTimer
  BY <1>1 DEF RegisterTimer, thread_created, thread_removed
<1>2. CASE UnregisterTimer
  BY <1>2 DEF UnregisterTimer, thread_removed
<1>3. CASE InstallExitHook
  BY <1>3 DEF InstallExitHook, Goto, Callers
<1>4. CASE InstallStartHook
  BY <1>4 DEF InstallStartHook, Goto, Callers
<1>5. CASE Refresh
  BY <1>5 DEF Refresh, Goto, Callers
<1>6. CASE ListActive
  <2>1. ~raced /\ \A n \in Threads : pc[n] = "named" => live[ident[n]] = tid[n]
    BY <1>6, Zenon DEF ListActive
  <2> QED BY <1>6, <2>1 DEF ListActive, Goto
<1>7. CASE RegisterListed
  <2>1. PICK n \in snap : /\ InsertLive(ident[n], tid[n])
                          /\ snap' = snap \ {n} /\ ~raced
    BY <1>7, Zenon DEF RegisterListed
  <2> QED BY <1>7, <2>1 DEF RegisterListed, InsertLive
<1>8. CASE Installed
  BY <1>8 DEF Installed, Goto
<1>9. CASE Attach
  BY <1>9 DEF Attach, Callers, thread_created
<1>10. CASE Detach
  BY <1>10 DEF Detach
<1>11. CASE DropTimers
  BY <1>11 DEF DropTimers
<1>12. CASE Fork
  BY <1>12 DEF Fork, Callers
<1>13. CASE \E n \in Threads : Begin(n)
  BY <1>13 DEF Begin
<1>14. CASE \E n \in Threads : SetNativeId(n)
  BY <1>14 DEF SetNativeId, InsertLive
<1>15. CASE \E n \in Threads : EnterActive(n)
  BY <1>15 DEF EnterActive
<1>16. CASE \E n \in Threads : Delete(n)
  BY <1>16 DEF Delete, LeavesHooked
<1>17. CASE \E n \in Threads : Unregister(n)
  BY <1>17 DEF Unregister, RemoveLive
<1>18. CASE \E n \in Threads : End(n)
  BY <1>18 DEF End
<1> QED
  BY <1>1, <1>2, <1>3, <1>4, <1>5, <1>6, <1>7, <1>8, <1>9, <1>10, <1>11, <1>12,
     <1>13, <1>14, <1>15, <1>16, <1>17, <1>18
  DEF Next, Install, ThreadStep

\* A native function runs for one thread, which waits for it.
LEMMA PendingStep ==
    ASSUME RegistryInv, Next, ~raced'
    PROVE  Pending'
<1> USE NoneAssumption
    DEF RegistryInv, TypeOK, IdsOf, Sound, Complete, Pending,
        Running, Leaving, Idle, Exists, NativeCalls
<1>1. CASE RegisterTimer
  BY <1>1 DEF RegisterTimer, thread_created, thread_removed
<1>2. CASE UnregisterTimer
  BY <1>2 DEF UnregisterTimer, thread_removed
<1>3. CASE InstallExitHook
  BY <1>3 DEF InstallExitHook, Goto, Callers
<1>4. CASE InstallStartHook
  BY <1>4 DEF InstallStartHook, Goto, Callers
<1>5. CASE Refresh
  BY <1>5 DEF Refresh, Goto, Callers
<1>6. CASE ListActive
  BY <1>6 DEF ListActive, Goto
<1>7. CASE RegisterListed
  <2>1. PICK n \in snap : /\ InsertLive(ident[n], tid[n])
                          /\ snap' = snap \ {n} /\ ~raced
    BY <1>7, Zenon DEF RegisterListed
  <2> QED BY <1>7, <2>1 DEF RegisterListed, InsertLive
<1>8. CASE Installed
  BY <1>8 DEF Installed, Goto
<1>9. CASE Attach
  BY <1>9 DEF Attach, Callers, thread_created
<1>10. CASE Detach
  BY <1>10 DEF Detach
<1>11. CASE DropTimers
  BY <1>11 DEF DropTimers
<1>12. CASE Fork
  BY <1>12 DEF Fork, Callers
<1>13. CASE \E n \in Threads : Begin(n)
  BY <1>13 DEF Begin
<1>14. CASE \E n \in Threads : SetNativeId(n)
  BY <1>14 DEF SetNativeId, InsertLive
<1>15. CASE \E n \in Threads : EnterActive(n)
  BY <1>15 DEF EnterActive
<1>16. CASE \E n \in Threads : Delete(n)
  BY <1>16 DEF Delete, LeavesHooked
<1>17. CASE \E n \in Threads : Unregister(n)
  BY <1>17 DEF Unregister, RemoveLive
<1>18. CASE \E n \in Threads : End(n)
  BY <1>18 DEF End
<1> QED
  BY <1>1, <1>2, <1>3, <1>4, <1>5, <1>6, <1>7, <1>8, <1>9, <1>10, <1>11, <1>12,
     <1>13, <1>14, <1>15, <1>16, <1>17, <1>18
  DEF Next, Install, ThreadStep

\* A timer is made and deleted with its entry of LIVE.
LEMMA TimedStep ==
    ASSUME RegistryInv, Next, ~raced'
    PROVE  Timed'
<1> USE NoneAssumption
    DEF RegistryInv, TypeOK, IdsOf, Hooked, Sessions, Sound,
        Complete, Pending, Timed, Running, Leaving, Idle, Exists, Adding, Removing,
        NativeCalls, Of
<1>1. CASE RegisterTimer
  BY <1>1 DEF RegisterTimer, thread_created, thread_removed
<1>2. CASE UnregisterTimer
  BY <1>2 DEF UnregisterTimer, thread_removed
<1>3. CASE InstallExitHook
  BY <1>3 DEF InstallExitHook, Goto, Callers
<1>4. CASE InstallStartHook
  BY <1>4 DEF InstallStartHook, Goto, Callers
<1>5. CASE Refresh
  BY <1>5 DEF Refresh, Goto, Callers
<1>6. CASE ListActive
  BY <1>6 DEF ListActive, Goto
<1>7. CASE RegisterListed
  BY <1>7 DEF RegisterListed, InsertLive
<1>8. CASE Installed
  BY <1>8 DEF Installed, Goto
<1>9. CASE Attach
  <2>1. CASE UNCHANGED sessVars
    BY <1>9, <2>1 DEF Attach, Callers
  <2>2. CASE /\ slot' = TRUE /\ session' = "on"
             /\ timers' = [t \in Tids |-> IF \E i \in Idents : live'[i] = t
                                         THEN thread_created(timers, t)[t] ELSE None]
    <3>1. /\ ~raced /\ session = "off" /\ inst = "done" /\ snap = {} /\ native = None
          /\ UNCHANGED <<pc, ident, tid, native>>
      BY <1>9 DEF Attach
    <3>2. \A n \in Running : live[ident[n]] = tid[n]
      BY <3>1
    <3>3. live' = live
      BY <1>9, <3>2 DEF Attach, Callers
    <3>4. ASSUME NEW n \in Running \cup Leaving
          PROVE  Of(tid[n]) = {n} /\ tid[n] \in Tids
      BY DEF Of
    <3>5. ASSUME NEW n \in Running \cup Leaving, \E i \in Idents : live[i] = tid[n]
          PROVE  timers'[tid[n]] = n
      BY <2>2, <3>1, <3>3, <3>4, <3>5 DEF thread_created
    <3>6. \A n \in Running : timers'[tid[n]] = n
      BY <3>2, <3>5
    <3>7. ASSUME NEW t \in Tids, timers'[t] # None
          PROVE  /\ tid[timers'[t]] = t /\ timers'[t] \in Running \cup Leaving
                 /\ live[ident[timers'[t]]] = t
      <4>1. PICK i \in Idents : live[i] = t
        BY <2>2, <3>3, <3>7
      <4>2. PICK n \in Running \cup Leaving : ident[n] = i /\ tid[n] = t
        BY <4>1, <3>1
      <4> QED BY <4>1, <4>2, <3>5
    <3> QED BY <3>1, <3>3, <3>6, <3>7
  <2> QED BY <1>9, <2>1, <2>2 DEF Attach
<1>10. CASE Detach
  BY <1>10 DEF Detach
<1>11. CASE DropTimers
  BY <1>11 DEF DropTimers
<1>12. CASE Fork
  BY <1>12 DEF Fork, Callers
<1>13. CASE \E n \in Threads : Begin(n)
  BY <1>13 DEF Begin
<1>14. CASE \E n \in Threads : SetNativeId(n)
  BY <1>14 DEF SetNativeId, InsertLive
<1>15. CASE \E n \in Threads : EnterActive(n)
  BY <1>15 DEF EnterActive
<1>16. CASE \E n \in Threads : Delete(n)
  BY <1>16 DEF Delete, LeavesHooked
<1>17. CASE \E n \in Threads : Unregister(n)
  BY <1>17 DEF Unregister, RemoveLive
<1>18. CASE \E n \in Threads : End(n)
  BY <1>18 DEF End
<1> QED
  BY <1>1, <1>2, <1>3, <1>4, <1>5, <1>6, <1>7, <1>8, <1>9, <1>10, <1>11, <1>12,
     <1>13, <1>14, <1>15, <1>16, <1>17, <1>18
  DEF Next, Install, ThreadStep

\* Before the first thread.
LEMMA RegistryInit == Init => RegistryInv
<1> SUFFICES ASSUME Init PROVE RegistryInv
  OBVIOUS
<1>1. /\ py310 \in BOOLEAN /\ forked \in BOOLEAN /\ exitHook \in BOOLEAN
      /\ startHook \in BOOLEAN /\ slot \in BOOLEAN /\ raced \in BOOLEAN
  BY Zenon DEF Init
<1>2. TypeOK
  BY <1>1 DEF Init, TypeOK
<1>3. IdsOf /\ Hooked /\ Sessions
  BY DEF Init, IdsOf, Hooked, Sessions, Exists
<1>4. Sound /\ Complete /\ Pending /\ Timed
  BY DEF Init, Sound, Complete, Pending, Timed
<1> QED BY <1>2, <1>3, <1>4 DEF RegistryInv

\* The invariant is inductive.
LEMMA RegistryStep == RegistryInv /\ [Next]_vars => RegistryInv'
<1> SUFFICES ASSUME RegistryInv, [Next]_vars PROVE RegistryInv'
  OBVIOUS
<1>1. CASE Next
  <2>1. TypeOK' /\ IdsOf' /\ Hooked' /\ Sessions'
    BY <1>1, TypesStep, IdsStep, HookedStep, SessionsStep DEF RegistryInv
  <2>2. ASSUME ~raced' PROVE Sound' /\ Complete' /\ Pending' /\ Timed'
    BY <1>1, <2>2, SoundStep, CompleteStep, PendingStep, TimedStep
  <2> QED BY <2>1, <2>2 DEF RegistryInv
<1>2. CASE UNCHANGED vars
  <2>1. TypeOK'
    BY <1>2 DEF RegistryInv, TypeOK
  <2>2. IdsOf' /\ Hooked' /\ Sessions'
    BY <1>2 DEF RegistryInv, IdsOf, Hooked, Sessions, Exists
  <2>3. ~raced' => Sound' /\ Complete' /\ Pending'
    BY <1>2 DEF RegistryInv, Sound, Complete, Pending, Running, Leaving
  <2>4. ~raced' => Timed'
    BY <1>2 DEF RegistryInv, Timed, Adding, Removing, Running, Leaving
  <2> QED BY <2>1, <2>2, <2>3, <2>4 DEF RegistryInv
<1> QED BY <1>1, <1>2

\* So it holds in every state.
LEMMA RegistryInvariant == Spec => []RegistryInv
BY RegistryInit, RegistryStep, PTL DEF Spec

-----------------------------------------------------------------------------
(***************************************************************************)
(* What it gives                                                           *)
(***************************************************************************)

\* Every variable has its type.
THEOREM RegistryTypes == Spec => []TypeOK
<1>1. RegistryInv => TypeOK
  BY DEF RegistryInv
<1> QED BY <1>1, RegistryInvariant, PTL

\* Once the hooks are installed LIVE is exactly the threads that run, whatever
\* came and went meanwhile and whichever ids were used again, but for the
\* windows that raced counts (install, register_thread, unregister_thread).
THEOREM LiveExact == Spec => []LiveIsExact
<1>1. ASSUME RegistryInv PROVE LiveIsExact
  BY <1>1 DEF RegistryInv, Hooked, Sound, Complete, LiveIsExact
<1> QED BY <1>1, RegistryInvariant, PTL

\* While a session runs every thread in LIVE has a timer on its own clock, and
\* no timer is left of a thread that is gone (thread_created, thread_removed).
THEOREM TimersExact == Spec => []SampledIffRunning
<1>1. ASSUME RegistryInv PROVE SampledIffRunning
  BY <1>1 DEF RegistryInv, TypeOK, Timed, Adding, Removing, Idle, SampledIffRunning
<1> QED BY <1>1, RegistryInvariant, PTL
=============================================================================
