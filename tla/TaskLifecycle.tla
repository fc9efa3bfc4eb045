---------------------------- MODULE TaskLifecycle ----------------------------
(***************************************************************************)
(* What the task queue of the control plane promises its users, without    *)
(* leases, clocks or rows.  A task is unknown, waiting, held by one worker *)
(* or done.  Every grant of a task has a number of its own; a verdict that *)
(* a worker gave carries the number of the grant it was given under, and   *)
(* only the latest grant can give one.  A done task never changes again.   *)
(*                                                                         *)
(* One step of the system may move several tasks (a lease request requeues *)
(* every lapsed lease), each along one edge of the life cycle.             *)
(***************************************************************************)
EXTENDS Naturals

CONSTANTS Tasks, Workers, Nobody

VARIABLE life

Verdicts == {"succeeded", "failed", "cancelled"}

NoVerdict == [status |-> "none", grant |-> 0]

Life(phase, holder, grants, verdict) ==
  [phase |-> phase, holder |-> holder, grants |-> grants, verdict |-> verdict]

Unknown == Life("unknown", Nobody, 0, NoVerdict)

Submitted(a, b) == a = Unknown /\ b = Life("waiting", Nobody, 0, NoVerdict)

Granted(a, b) ==
  /\ a.phase \in {"waiting", "held"}
  /\ \E w \in Workers : b = Life("held", w, a.grants + 1, a.verdict)

Returned(a, b) ==
  /\ a.phase = "held"
  /\ b = Life("waiting", Nobody, a.grants, a.verdict)

Finished(a, b) ==
  /\ a.phase = "held"
  /\ \E s \in Verdicts :
        b = Life("done", a.holder, a.grants, [status |-> s, grant |-> a.grants])

Withdrawn(a, b) ==
  /\ a.phase \in {"waiting", "held"}
  /\ b = Life("done", a.holder, a.grants, [status |-> "cancelled", grant |-> 0])

Moves(a, b) ==
  \/ Submitted(a, b)
  \/ Granted(a, b)
  \/ Returned(a, b)
  \/ Finished(a, b)
  \/ Withdrawn(a, b)

Init == life = [t \in Tasks |-> Unknown]

Next == \A t \in Tasks : life'[t] = life[t] \/ Moves(life[t], life'[t])

Spec == Init /\ [][Next]_life
==============================================================================
