----------------------------- MODULE Lifecycle -----------------------------
(***************************************************************************)
(* What configure() and shutdown() promise to the threads of a process:    *)
(* one agent at a time, one operation on it at a time, the operation is    *)
(* ended by the thread that began it, and an agent that is off has nothing *)
(* running: no thread, no allocator hook, no stack sampler.                *)
(***************************************************************************)
CONSTANTS Callers, Nobody

VARIABLES
    phase,   \* "off", "starting", "on" or "stopping"
    owner,   \* the caller whose operation is in progress
    alive    \* some thread or hook of the agent is running

Off == phase = "off" /\ owner = Nobody /\ ~alive

Begin(c, from, to) ==
    /\ phase = from /\ owner = Nobody
    /\ phase' = to /\ owner' = c
    /\ UNCHANGED alive

StartDone(c) ==
    /\ phase = "starting" /\ owner = c
    /\ phase' = "on" /\ owner' = Nobody
    /\ UNCHANGED alive

\* A start that failed, or a stop: nothing may be left running.
OffAgain(c) ==
    /\ phase \in {"starting", "stopping"} /\ owner = c /\ ~alive
    /\ phase' = "off" /\ owner' = Nobody
    /\ UNCHANGED alive

\* Threads come and go in every phase but "off".
Work == /\ phase # "off"
        /\ alive' = ~alive
        /\ UNCHANGED <<phase, owner>>

LifecycleNext ==
    \/ Work
    \/ \E c \in Callers : \/ Begin(c, "off", "starting") \/ Begin(c, "on", "stopping")
                          \/ StartDone(c) \/ OffAgain(c)

LifecycleSpec == Off /\ [][LifecycleNext]_<<phase, owner, alive>>
=============================================================================
