----------------------------- MODULE MCAgentLoop -----------------------------
(* Constants of AgentLoop for TLC. *)
EXTENDS AgentLoop

CONSTANTS r1, r2

AllCallers == {r1, r2}
OneStream == {r1}
=============================================================================
