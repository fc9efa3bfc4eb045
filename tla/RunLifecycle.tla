---------------------------- MODULE RunLifecycle -----------------------------
(***************************************************************************)
(* What the run rows of the control plane promise their readers, without   *)
(* threads, files or failures.  A run is unknown, queued, running or       *)
(* decided.  A verdict other than "failed" comes together with its         *)
(* evidence; evidence is never taken away from a row; a verdict changes at *)
(* most once more, to "failed".                                            *)
(***************************************************************************)
CONSTANT Runs

VARIABLE life

Decisions == {"passed", "failed", "blocked", "cancelled"}

Life(status, evidence) == [status |-> status, evidence |-> evidence]

Submitted(a, b) == a = Life("absent", FALSE) /\ b = Life("queued", FALSE)

Started(a, b) == a = Life("queued", FALSE) /\ b = Life("running", FALSE)

Decided(a, b) ==
  a = Life("running", FALSE) /\ \E d \in Decisions : b = Life(d, TRUE)

Abandoned(a, b) == a = Life("running", FALSE) /\ b = Life("failed", FALSE)

Withdrawn(a, b) ==
  /\ \E d \in Decisions : a = Life(d, TRUE)
  /\ b = Life("failed", TRUE)

Moves(a, b) ==
  \/ Submitted(a, b)
  \/ Started(a, b)
  \/ Decided(a, b)
  \/ Abandoned(a, b)
  \/ Withdrawn(a, b)

Init == life = [r \in Runs |-> Life("absent", FALSE)]

Next == \A r \in Runs : life'[r] = life[r] \/ Moves(life[r], life'[r])

Spec == Init /\ [][Next]_life
==============================================================================
