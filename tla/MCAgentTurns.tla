----------------------------- MODULE MCAgentTurns -----------------------------
(* Two turns; a memory, a tool, and a new object for each of their ids; two   *)
(* jobs, so that an evolution can overlap with a rollback or an evolution.    *)
(* The turns are interchangeable; no liveness is checked.                     *)
EXTENDS AgentTurns, TLC

CONSTANTS memory0, tool0, memory1, tool1

MCIds == {"working_memory", "tool"}
MCIdOf == [p \in Plugins |-> IF p \in {memory0, memory1} THEN "working_memory" ELSE "tool"]
MCDefault == [i \in MCIds |-> IF i = "tool" THEN tool0 ELSE memory0]

TurnSymmetry == Permutations(Turns)
==============================================================================
