---------------------------- MODULE MCWorkerFleet ----------------------------
(* Two workers and two tasks; task 1 needs a capability that only w1 offers. *)
EXTENDS WorkerFleet

CONSTANTS w1, w2

MCRequired == [t \in Tasks |-> IF t = 1 THEN {"renode"} ELSE {}]
MCOffered == [w \in Workers |-> IF w = w1 THEN {"renode"} ELSE {}]
MCIdempotencyKey == [t \in Tasks |-> t]
==============================================================================
