--------------------------- MODULE MCAgentRuntime ---------------------------
(* Small instances of AgentRuntime.                                         *)
EXTENDS AgentRuntime, TLC

CONSTANTS find, send, runner, d1, d2

MCDeciders == {d1, d2}
MCTools == {find, send}
MCGated == {send}

AllFaults == FaultKinds
CallFaults == {"llm", "tool"}
LlmFaults == {"llm"}
NoFaults == {}

Symmetry == Permutations({d1, d2})
=============================================================================
