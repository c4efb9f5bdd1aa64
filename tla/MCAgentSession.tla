--------------------------- MODULE MCAgentSession ---------------------------
(* Small instances of AgentSession for TLC. *)
EXTENDS AgentSession
CONSTANT r1, r2   \* daemon requests that record an event beside a turn
=============================================================================
