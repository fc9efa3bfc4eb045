----------------------------- MODULE MCTaskStore -----------------------------
(* A small control plane: two workers of different capabilities and three    *)
(* tasks, the first and the last submitted under one idempotency key.        *)
EXTENDS TaskStore

CONSTANTS w1, w2

MCRequired == [t \in Tasks |-> IF t = 2 THEN {"renode"} ELSE {}]
MCOffered == [w \in Workers |-> IF w = w1 THEN {"renode"} ELSE {}]
MCIdempotencyKey == [t \in Tasks |-> IF t = 2 THEN "other" ELSE "same"]
==============================================================================
