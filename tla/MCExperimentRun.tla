--------------------------- MODULE MCExperimentRun ---------------------------
(* Three runs, one executor thread: a queue, two writers and a replay.       *)
EXTENDS ExperimentRun

\* All runs record the same model file.
MCContent == [r \in Runs |-> Digests]
==============================================================================
