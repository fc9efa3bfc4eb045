-------------------------- MODULE MCBackendProtocol --------------------------
(* A probe and two runs of up to three steps, with two injections; the process *)
(* may die, and the tool be installed, once.                                   *)
EXTENDS BackendProtocol
==============================================================================
