-------------------------- MODULE MCPyroscopeAgent --------------------------
(***************************************************************************)
(* TLC instance of PyroscopeAgent: one agent, from start to stop.          *)
(***************************************************************************)
EXTENDS PyroscopeAgent

CONSTANTS t1

\* One time before UNIX_EPOCH, and two after it.
MCTimes == -1 .. 1
=============================================================================
