-------------------------- MODULE WorkerFleetProofs --------------------------
(***************************************************************************)
(* The task store, for every set of tasks and workers, capability          *)
(* assignment, candidate limit and number of attempts; then the fleet of   *)
(* its workers, for any number of timeouts, crashes and leases lost by     *)
(* live holders.                                                           *)
(***************************************************************************)
EXTENDS WorkerFleet, TLAPS

------------------------------------------------------------------------------
(* The task store.                                                           *)

\* The tables start empty and well typed.
LEMMA TypeInit == StoreInit => StoreTypeOK
BY NoWorkerAssumption, BoundsAssumption
   DEF StoreInit, StoreTypeOK, Statuses, Verdicts, Active, NoResult

\* Every operation of the store keeps the types.
LEMMA TypeStep == StoreTypeOK /\ [StoreNext]_storeVars => StoreTypeOK'
<1> SUFFICES ASSUME StoreTypeOK, [StoreNext]_storeVars
             PROVE  StoreTypeOK'
    OBVIOUS
<1> USE BoundsAssumption DEF StoreTypeOK, Statuses, Active, Verdicts, leaseVars
<1>1. ASSUME NEW t \in Tasks, Enqueue(t) PROVE StoreTypeOK'
    BY <1>1 DEF Enqueue
<1>2. ASSUME NEW t \in Tasks, Cancel(t) PROVE StoreTypeOK'
    BY <1>2 DEF Cancel
<1>3. ASSUME NEW t \in Tasks, LeaseRunsOut(t) PROVE StoreTypeOK'
    BY <1>3 DEF LeaseRunsOut
<1>4. ASSUME NEW w \in Workers, RegisterWorker(w) PROVE StoreTypeOK'
    BY <1>4 DEF RegisterWorker
<1>5. ASSUME NEW w \in Workers, LeaseNothing(w) PROVE StoreTypeOK'
    BY <1>5 DEF LeaseNothing, LeaseRows, TakeBackAndGrant, FreshToken
<1>6. ASSUME NEW w \in Workers, NEW t \in Tasks, GrantLease(w, t) PROVE StoreTypeOK'
    BY <1>6 DEF GrantLease, LeaseRows, TakeBackAndGrant, FreshToken
<1>7. ASSUME NEW w \in Workers, NEW t \in Tasks, NEW k \in 1..MaxAttempts,
             NEW s \in Active, Heartbeat(w, t, k, s)
      PROVE  StoreTypeOK'
    BY <1>7 DEF Heartbeat
<1>8. ASSUME NEW w \in Workers, NEW t \in Tasks, NEW k \in 1..MaxAttempts,
             NEW s \in Verdicts, Complete(w, t, k, s)
      PROVE  StoreTypeOK'
    BY <1>8 DEF Complete
<1>9. CASE UNCHANGED storeVars
    BY <1>9 DEF storeVars
<1> QED
    BY <1>1, <1>2, <1>3, <1>4, <1>5, <1>6, <1>7, <1>8, <1>9 DEF StoreNext

(* Type correctness of the rows under any client.                            *)
THEOREM StoreTypeCorrect == StoreSpec => []StoreTypeOK
BY TypeInit, TypeStep, PTL DEF StoreSpec

------------------------------------------------------------------------------
(* The rows tell one story: LeaseConsistent is inductive given the types.    *)

\* No row, no story to contradict.
LEMMA ConsistentInit == StoreInit => LeaseConsistent
BY DEF StoreInit, LeaseConsistent, RowConsistent, WaitingRow, Active

\* Every operation keeps every row consistent, the rows it does not name included.
LEMMA ConsistentStep ==
  StoreTypeOK /\ LeaseConsistent /\ [StoreNext]_storeVars => LeaseConsistent'
<1> SUFFICES ASSUME StoreTypeOK, LeaseConsistent, [StoreNext]_storeVars,
                    NEW u \in Tasks
             PROVE  RowConsistent(u)'
    BY DEF LeaseConsistent
<1>0. RowConsistent(u)
    BY DEF LeaseConsistent
<1> USE <1>0, BoundsAssumption, NoWorkerAssumption
    DEF StoreTypeOK, Statuses, Active, Verdicts, RowConsistent, WaitingRow,
        ActiveRow, ReportedRow, NoResult, leaseVars
<1>1. ASSUME NEW t \in Tasks, Enqueue(t) PROVE RowConsistent(u)'
    <2>1. status[t] = "absent"
        BY <1>1 DEF Enqueue
    <2> QED BY <1>1, <2>1 DEF Enqueue
<1>2. ASSUME NEW t \in Tasks, Cancel(t) PROVE RowConsistent(u)'
    BY <1>2 DEF Cancel
<1>3. ASSUME NEW t \in Tasks, LeaseRunsOut(t) PROVE RowConsistent(u)'
    BY <1>3 DEF LeaseRunsOut
<1>4. ASSUME NEW w \in Workers, RegisterWorker(w) PROVE RowConsistent(u)'
    BY <1>4 DEF RegisterWorker
<1>5. ASSUME NEW w \in Workers, LeaseNothing(w) PROVE RowConsistent(u)'
    BY <1>5 DEF LeaseNothing, LeaseRows, TakeBackAndGrant, FreshToken, Lapsed
<1>6. ASSUME NEW w \in Workers, NEW t \in Tasks, GrantLease(w, t)
      PROVE  RowConsistent(u)'
    <2>1. w \in registered /\ Required[t] \subseteq Offered[w]
        BY <1>6 DEF GrantLease, Compatible
    <2>2. t \in Queued
        BY <1>6 DEF GrantLease, Compatible, Candidates
    <2>3. result[t] = NoResult
        BY <2>2, LeaseConsistent DEF Queued, Lapsed, LeaseConsistent
    <2> QED
        BY <1>6, <2>1, <2>3
           DEF GrantLease, LeaseRows, TakeBackAndGrant, FreshToken, Lapsed
<1>7. ASSUME NEW w \in Workers, NEW t \in Tasks, NEW k \in 1..MaxAttempts,
             NEW s \in Active, Heartbeat(w, t, k, s)
      PROVE  RowConsistent(u)'
    BY <1>7 DEF Heartbeat, HoldsLease
<1>8. ASSUME NEW w \in Workers, NEW t \in Tasks, NEW k \in 1..MaxAttempts,
             NEW s \in Verdicts, Complete(w, t, k, s)
      PROVE  RowConsistent(u)'
    BY <1>8 DEF Complete, HoldsLease
<1>9. CASE UNCHANGED storeVars
    BY <1>9 DEF storeVars
<1> HIDE DEF RowConsistent, WaitingRow, ActiveRow, ReportedRow, StoreTypeOK
<1> QED
    BY <1>1, <1>2, <1>3, <1>4, <1>5, <1>6, <1>7, <1>8, <1>9 DEF StoreNext

(* Whatever clients do, with whatever tokens, the lease columns, the result  *)
(* and the status of every row agree.                                        *)
THEOREM StoreConsistent == StoreSpec => []LeaseConsistent
BY TypeInit, TypeStep, ConsistentInit, ConsistentStep, PTL DEF StoreSpec

------------------------------------------------------------------------------
(* Idempotent submission.                                                    *)

\* Only a submission makes a row, and it looks at the keys of all rows there are.
LEMMA RowsAppearByEnqueue ==
  ASSUME StoreTypeOK, [StoreNext]_storeVars, NEW t \in Tasks,
         status[t] = "absent", status'[t] # "absent"
  PROVE  Enqueue(t)
<1> USE DEF StoreTypeOK, Statuses, Active, Verdicts
<1>1. ASSUME NEW u \in Tasks, Enqueue(u) PROVE Enqueue(t)
    BY <1>1 DEF Enqueue
<1>2. ASSUME NEW u \in Tasks, Cancel(u) \/ LeaseRunsOut(u) PROVE Enqueue(t)
    BY <1>2 DEF Cancel, LeaseRunsOut
<1>3. ASSUME NEW w \in Workers, RegisterWorker(w) \/ LeaseNothing(w)
      PROVE  Enqueue(t)
    BY <1>3 DEF RegisterWorker, LeaseNothing, LeaseRows, TakeBackAndGrant, FreshToken,
                Lapsed
<1>4. ASSUME NEW w \in Workers, NEW u \in Tasks, GrantLease(w, u)
      PROVE  Enqueue(t)
    BY <1>4 DEF GrantLease, LeaseRows, TakeBackAndGrant, FreshToken, Lapsed, Compatible,
                Candidates, Queued
<1>5. ASSUME NEW w \in Workers, NEW u \in Tasks, NEW k \in 1..MaxAttempts,
             NEW s \in Active, Heartbeat(w, u, k, s)
      PROVE  Enqueue(t)
    BY <1>5 DEF Heartbeat, HoldsLease
<1>6. ASSUME NEW w \in Workers, NEW u \in Tasks, NEW k \in 1..MaxAttempts,
             NEW s \in Verdicts, Complete(w, u, k, s)
      PROVE  Enqueue(t)
    BY <1>6 DEF Complete, HoldsLease
<1> QED
    BY <1>1, <1>2, <1>3, <1>4, <1>5, <1>6 DEF StoreNext, storeVars

\* No operation makes a second row under a key.
LEMMA KeyStep == StoreTypeOK /\ OneRowPerKey /\ [StoreNext]_storeVars => OneRowPerKey'
<1> SUFFICES ASSUME StoreTypeOK, OneRowPerKey, [StoreNext]_storeVars,
                    NEW t \in Tasks, NEW u \in Tasks,
                    status'[t] # "absent", status'[u] # "absent",
                    IdempotencyKey[t] = IdempotencyKey[u]
             PROVE  t = u
    BY DEF OneRowPerKey
<1>1. CASE status[t] # "absent" /\ status[u] # "absent"
    BY <1>1 DEF OneRowPerKey
<1>2. ASSUME NEW a \in Tasks, NEW b \in Tasks, status[a] = "absent",
             status'[a] # "absent", status'[b] # "absent",
             IdempotencyKey[a] = IdempotencyKey[b]
      PROVE  a = b
    <2>1. Enqueue(a)
        BY <1>2, RowsAppearByEnqueue
    <2>2. status[b] = "absent"
        BY <1>2, <2>1 DEF Enqueue
    <2> QED BY <1>2, <2>1, <2>2 DEF Enqueue, StoreTypeOK
<1> QED
    BY <1>1, <1>2

(* However often a submission is retried, its key has one row.               *)
THEOREM SubmissionIdempotent == StoreSpec => []OneRowPerKey
<1>1. StoreInit => OneRowPerKey
    BY DEF StoreInit, OneRowPerKey
<1> QED
    BY <1>1, TypeInit, TypeStep, KeyStep, PTL DEF StoreSpec

------------------------------------------------------------------------------
(* Live leases.                                                              *)

\* The requeue of a lease request, and the grant after it, pass over live leases.
LEMMA LiveLeaseStep ==
  ASSUME StoreTypeOK, StoreNext, NEW t \in Tasks,
         status[t] \in Active, lease_expires_at[t] = "ahead"
  PROVE  /\ status'[t] \in Active \cup Verdicts
         /\ lease_owner'[t] = lease_owner[t]
         /\ lease_token'[t] = lease_token[t]
<1> DEFINE Kept == /\ status'[t] \in Active \cup Verdicts
                   /\ lease_owner'[t] = lease_owner[t]
                   /\ lease_token'[t] = lease_token[t]
<1> USE DEF StoreTypeOK, Statuses, Active, Verdicts, leaseVars
<1>1. ASSUME NEW u \in Tasks, Enqueue(u) PROVE Kept
    BY <1>1 DEF Enqueue
<1>2. ASSUME NEW u \in Tasks, Cancel(u) \/ LeaseRunsOut(u) PROVE Kept
    BY <1>2 DEF Cancel, LeaseRunsOut
<1>3. ASSUME NEW w \in Workers, RegisterWorker(w) \/ LeaseNothing(w) PROVE Kept
    BY <1>3 DEF RegisterWorker, LeaseNothing, LeaseRows, TakeBackAndGrant, FreshToken,
                Lapsed
<1>4. ASSUME NEW w \in Workers, NEW u \in Tasks, GrantLease(w, u) PROVE Kept
    <2>1. u # t
        BY <1>4 DEF GrantLease, Compatible, Candidates, Queued, Lapsed
    <2> QED
        BY <1>4, <2>1 DEF GrantLease, LeaseRows, TakeBackAndGrant, FreshToken, Lapsed
<1>5. ASSUME NEW w \in Workers, NEW u \in Tasks, NEW k \in 1..MaxAttempts,
             NEW s \in Active, Heartbeat(w, u, k, s)
      PROVE  Kept
    BY <1>5 DEF Heartbeat
<1>6. ASSUME NEW w \in Workers, NEW u \in Tasks, NEW k \in 1..MaxAttempts,
             NEW s \in Verdicts, Complete(w, u, k, s)
      PROVE  Kept
    BY <1>6 DEF Complete
<1> QED
    BY <1>1, <1>2, <1>3, <1>4, <1>5, <1>6 DEF StoreNext

(* A lease that has not run out is taken from its holder by nobody.          *)
THEOREM LiveLeasesKept == StoreSpec => LiveLeaseKept
<1>1. StoreTypeOK /\ [StoreNext]_storeVars =>
        [\A t \in Tasks :
           status[t] \in Active /\ lease_expires_at[t] = "ahead" =>
             /\ status'[t] \in Active \cup Verdicts
             /\ lease_owner'[t] = lease_owner[t]
             /\ lease_token'[t] = lease_token[t]]_storeVars
    BY LiveLeaseStep
<1> QED
    BY <1>1, StoreTypeCorrect, PTL DEF StoreSpec, LiveLeaseKept

------------------------------------------------------------------------------
(* The rows implement the life cycle.                                        *)

\* Every task starts unknown.
LEMMA LifeInit == StoreInit => Lifecycle!Init
BY DEF StoreInit, Lifecycle!Init, Lifecycle!Unknown, Lifecycle!NoVerdict,
       Lifecycle!Life,
       LifeOf, Phase, NoResult, Verdicts, Active

Life(p, h, g, s, k) == Lifecycle!Life(p, h, g, [status |-> s, grant |-> k])

(* The edges of the life cycle, for lives written out.                      *)

\* A user submits.
LEMMA SubmittedEdge ==
  Lifecycle!Moves(Life("unknown", NoWorker, 0, "none", 0),
                  Life("waiting", NoWorker, 0, "none", 0))
BY DEF Life, Lifecycle!Moves, Lifecycle!Submitted, Lifecycle!Unknown,
       Lifecycle!NoVerdict

\* A lease request is answered with a waiting task, or one whose holder lapsed.
LEMMA GrantedEdge ==
  ASSUME NEW p \in {"waiting", "held"}, NEW h, NEW w \in Workers, NEW g
  PROVE  Lifecycle!Moves(Life(p, h, g, "none", 0), Life("held", w, g + 1, "none", 0))
BY DEF Life, Lifecycle!Life, Lifecycle!Moves, Lifecycle!Granted

\* A lapsed lease is taken back.
LEMMA ReturnedEdge ==
  ASSUME NEW h, NEW g
  PROVE  Lifecycle!Moves(Life("held", h, g, "none", 0),
                         Life("waiting", NoWorker, g, "none", 0))
BY DEF Life, Lifecycle!Life, Lifecycle!Moves, Lifecycle!Returned

\* The holder of the latest grant reports.
LEMMA FinishedEdge ==
  ASSUME NEW h, NEW g, NEW s \in Verdicts
  PROVE  Lifecycle!Moves(Life("held", h, g, "none", 0), Life("done", h, g, s, g))
BY DEF Life, Lifecycle!Life, Lifecycle!Moves, Lifecycle!Finished, Lifecycle!Verdicts,
       Verdicts

\* A user cancels.
LEMMA WithdrawnEdge ==
  ASSUME NEW p \in {"waiting", "held"}, NEW h, NEW g
  PROVE  Lifecycle!Moves(Life(p, h, g, "none", 0), Life("done", h, g, "cancelled", 0))
BY DEF Life, Lifecycle!Life, Lifecycle!Moves, Lifecycle!Withdrawn

\* The life of a row nobody has decided.
LEMMA UndecidedLife ==
  ASSUME StoreTypeOK, LeaseConsistent, NEW t \in Tasks
  PROVE  /\ status[t] = "absent" => LifeOf(t) = Life("unknown", NoWorker, 0, "none", 0)
         /\ status[t] = "queued" =>
              LifeOf(t) = Life("waiting", lease_owner[t], attempts[t], "none", 0)
         /\ status[t] \in Active =>
              LifeOf(t) = Life("held", lease_owner[t], attempts[t], "none", 0)
BY DEF StoreTypeOK, LeaseConsistent, RowConsistent, WaitingRow, ActiveRow, LifeOf,
       Life, Lifecycle!Life, Phase, NoResult, Active, Verdicts

\* Every operation leaves the life of a task as it is or moves it by one edge.
LEMMA LifeStep ==
  ASSUME StoreTypeOK, StoreTypeOK', LeaseConsistent, LeaseConsistent', StoreNext,
         NEW t \in Tasks
  PROVE  LifeOf(t)' = LifeOf(t) \/ Lifecycle!Moves(LifeOf(t), LifeOf(t)')
<1> DEFINE Moved == LifeOf(t)' = LifeOf(t) \/ Lifecycle!Moves(LifeOf(t), LifeOf(t)')
<1> DEFINE UndecidedAfter ==
      /\ status'[t] = "queued" =>
           LifeOf(t)' = Life("waiting", lease_owner'[t], attempts'[t], "none", 0)
      /\ status'[t] \in Active =>
           LifeOf(t)' = Life("held", lease_owner'[t], attempts'[t], "none", 0)
<1>a. UndecidedAfter
    BY DEF StoreTypeOK, LeaseConsistent, RowConsistent, WaitingRow, ActiveRow, LifeOf,
           Life, Lifecycle!Life, Phase, NoResult, Active, Verdicts
<1>b. RowConsistent(t) /\ attempts[t] \in Nat
    BY BoundsAssumption DEF LeaseConsistent, StoreTypeOK
<1>1. ASSUME NEW u \in Tasks, Enqueue(u) PROVE Moved
    <2>1. CASE u = t
        <3>1. status[t] = "absent" /\ status'[t] = "queued"
            BY <1>1, <2>1 DEF Enqueue, StoreTypeOK
        <3>2. lease_owner'[t] = NoWorker /\ attempts'[t] = 0
            BY <1>1, <1>b, <3>1 DEF Enqueue, leaseVars, RowConsistent, WaitingRow
        <3> QED BY <1>a, <3>1, <3>2, UndecidedLife, SubmittedEdge
    <2>2. CASE u # t
        BY <1>1, <2>2 DEF Enqueue, StoreTypeOK, LifeOf, Phase, leaseVars
    <2> QED BY <2>1, <2>2
<1>2. ASSUME NEW u \in Tasks, Cancel(u) PROVE Moved
    <2>1. CASE u = t
        <3>1. status[t] \in {"queued"} \cup Active /\ status'[t] = "cancelled"
            BY <1>2, <2>1 DEF Cancel, StoreTypeOK
        <3>2. result[t] = NoResult
            BY <1>b, <3>1 DEF RowConsistent, WaitingRow, ActiveRow
        <3>3. LifeOf(t)' = Life("done", lease_owner[t], attempts[t], "cancelled", 0)
            BY <1>2, <3>1, <3>2
               DEF Cancel, LifeOf, Life, Lifecycle!Life, Phase, NoResult, Active,
                   Verdicts, leaseVars
        <3> QED BY <1>b, <3>1, <3>3, UndecidedLife, WithdrawnEdge
    <2>2. CASE u # t
        BY <1>2, <2>2 DEF Cancel, StoreTypeOK, LifeOf, Phase, leaseVars
    <2> QED BY <2>1, <2>2
<1>3. ASSUME NEW u \in Tasks, LeaseRunsOut(u) PROVE Moved
    BY <1>3 DEF LeaseRunsOut, LifeOf, Phase
<1>4. ASSUME NEW w \in Workers, RegisterWorker(w) PROVE Moved
    BY <1>4 DEF RegisterWorker, LifeOf, Phase, leaseVars
<1>5. ASSUME NEW w \in Workers, NEW granted \in SUBSET Tasks,
             LeaseRows(w, granted), granted \subseteq Queued
      PROVE  Moved
    <2> USE <1>5 DEF LeaseRows, TakeBackAndGrant, FreshToken
    <2>1. CASE t \in granted
        <3>1. status[t] \in {"queued"} \cup Active /\ status'[t] = "leased"
            BY <2>1 DEF Queued, Lapsed
        <3>2. lease_owner'[t] = w /\ attempts'[t] = attempts[t] + 1
            BY <2>1
        <3> QED BY <1>a, <1>b, <3>1, <3>2, UndecidedLife, GrantedEdge DEF Active
    <2>2. CASE t \in Lapsed \ granted
        <3>1. status[t] \in Active /\ status'[t] = "queued"
            BY <2>2 DEF Lapsed
        <3>2. lease_owner'[t] = NoWorker /\ attempts'[t] = attempts[t]
            BY <2>2
        <3> QED BY <1>a, <1>b, <3>1, <3>2, UndecidedLife, ReturnedEdge
    <2>3. CASE t \notin granted /\ t \notin Lapsed
        BY <2>3 DEF LifeOf, Phase
    <2> QED BY <2>1, <2>2, <2>3
<1>6. ASSUME NEW w \in Workers, LeaseNothing(w) PROVE Moved
    BY <1>5, <1>6 DEF LeaseNothing
<1>7. ASSUME NEW w \in Workers, NEW u \in Tasks, GrantLease(w, u) PROVE Moved
    BY <1>5, <1>7 DEF GrantLease, Compatible, Candidates
<1>8. ASSUME NEW w \in Workers, NEW u \in Tasks, NEW k \in 1..MaxAttempts,
             NEW s \in Active, Heartbeat(w, u, k, s)
      PROVE  Moved
    BY <1>8 DEF Heartbeat, HoldsLease, StoreTypeOK, LifeOf, Phase, Active, Verdicts
<1>9. ASSUME NEW w \in Workers, NEW u \in Tasks, NEW k \in 1..MaxAttempts,
             NEW s \in Verdicts, Complete(w, u, k, s)
      PROVE  Moved
    <2>1. CASE u = t
        <3>1. status[t] \in Active /\ k = attempts[t] /\ status'[t] = s
            BY <1>9, <1>b, <2>1
               DEF Complete, HoldsLease, RowConsistent, ActiveRow, StoreTypeOK
        <3>2. result'[t] = [status |-> s, lease_token |-> attempts[t]]
            BY <1>9, <2>1, <3>1 DEF Complete, StoreTypeOK
        <3>3. LifeOf(t)' = Life("done", lease_owner[t], attempts[t], s, attempts[t])
            BY <1>9, <3>1, <3>2
               DEF Complete, LifeOf, Life, Lifecycle!Life, Phase, Active,
                             Verdicts
        <3> QED BY <1>b, <3>1, <3>3, UndecidedLife, FinishedEdge
    <2>2. CASE u # t
        BY <1>9, <2>2 DEF Complete, StoreTypeOK, LifeOf, Phase
    <2> QED BY <2>1, <2>2
<1> QED
    BY <1>1, <1>2, <1>3, <1>4, <1>6, <1>7, <1>8, <1>9 DEF StoreNext

(* The store keeps the promise of TaskLifecycle: only the latest grant of a  *)
(* task gives a verdict, and a verdict is final.                             *)
THEOREM StoreImplementsLifecycle == StoreSpec => LifecycleSpec
<1>1. StoreTypeOK /\ StoreTypeOK' /\ LeaseConsistent /\ LeaseConsistent'
        /\ [StoreNext]_storeVars => [Lifecycle!Next]_([t \in Tasks |-> LifeOf(t)])
    <2> SUFFICES ASSUME StoreTypeOK, StoreTypeOK', LeaseConsistent, LeaseConsistent',
                        [StoreNext]_storeVars
                 PROVE  [Lifecycle!Next]_([t \in Tasks |-> LifeOf(t)])
        OBVIOUS
    <2>1. CASE StoreNext
        BY <2>1, LifeStep DEF Lifecycle!Next
    <2>2. CASE UNCHANGED storeVars
        BY <2>2 DEF storeVars, LifeOf, Phase
    <2> QED BY <2>1, <2>2
<1> QED
    BY <1>1, LifeInit, StoreTypeCorrect, StoreConsistent, PTL
       DEF StoreSpec, LifecycleSpec, Lifecycle!Spec

------------------------------------------------------------------------------
(* The fleet: its inductive invariant.                                       *)

FleetInv == FleetTypeOK /\ LeaseConsistent /\ PresentedWasGranted

\* The invariant holds of the fleet before any process is started.
LEMMA FleetInit == Init => FleetInv
<1> SUFFICES ASSUME Init PROVE FleetInv
    OBVIOUS
<1>1. StoreTypeOK /\ LeaseConsistent
    BY TypeInit, ConsistentInit DEF Init
<1>2. FleetTypeOK
    BY <1>1, FleetAssumption, BoundsAssumption
       DEF Init, FleetTypeOK, WorkerStates, Requests, Idle
<1>3. PresentedWasGranted
    BY DEF Init, PresentedWasGranted, MemorySound, Idle
<1> QED BY <1>1, <1>2, <1>3 DEF FleetInv

------------------------------------------------------------------------------
(* The fleet is a client of the store: all it presents is in the range the   *)
(* store's specification allows.                                             *)

\* A request about a lease names a task and a token the store knows.
LEMMA PresentedInRange ==
  ASSUME FleetInv, NEW w, NEW t, NEW k, GrantedTo(w, t, k)
  PROVE  t \in Tasks /\ k \in 1..MaxAttempts
BY BoundsAssumption DEF FleetInv, FleetTypeOK, StoreTypeOK, GrantedTo

\* A renewal with a token that was granted is one StoreNext allows.
LEMMA HeartbeatAllowed ==
  ASSUME FleetInv, NEW w \in Workers, NEW t, NEW k, GrantedTo(w, t, k),
         Heartbeat(w, t, k, "running")
  PROVE  StoreNext
BY PresentedInRange DEF StoreNext, Active

\* So is a report.
LEMMA CompleteAllowed ==
  ASSUME FleetInv, NEW w \in Workers, NEW t, NEW k, GrantedTo(w, t, k),
         NEW s \in {"succeeded", "failed"}, Complete(w, t, k, s)
  PROVE  StoreNext
BY PresentedInRange DEF StoreNext, Verdicts

\* Every step of the fleet is one of the store or leaves the store alone.
LEMMA FleetStepsStore ==
  FleetInv /\ [Next]_fleetVars => [StoreNext]_storeVars
<1> SUFFICES ASSUME FleetInv, [Next]_fleetVars
             PROVE  [StoreNext]_storeVars
    OBVIOUS
<1>a. ASSUME NEW w \in Workers
      PROVE  MemorySound(w) /\ worker[w] \in WorkerStates
    BY DEF FleetInv, FleetTypeOK, PresentedWasGranted
<1>1. CASE UNCHANGED fleetVars
    BY <1>1 DEF fleetVars, storeVars
<1>2. ASSUME NEW w \in Workers,
             Register(w) \/ Poll(w) \/ PollEmpty(w)
      PROVE  StoreNext
    BY <1>2 DEF Register, Poll, PollEmpty, StoreNext
<1>3. ASSUME NEW w \in Workers, Accept(w) \/ Beat(w)
      PROVE  StoreNext \/ UNCHANGED storeVars
    BY <1>3, <1>a, HeartbeatAllowed DEF Accept, Beat, Refused, MemorySound
<1>4. ASSUME NEW w \in Workers, Report(w)
      PROVE  StoreNext \/ UNCHANGED storeVars
    <2>1. GrantedTo(w, worker[w].task, worker[w].token)
        BY <1>4, <1>a DEF Report, MemorySound
    <2>2. worker[w].verdict \in {"succeeded", "failed"}
        BY <1>4, <1>a DEF Report, MemorySound, WorkerStates
    <2> QED BY <1>4, <2>1, <2>2, CompleteAllowed DEF Report, Refused
<1>5. ASSUME NEW w \in Workers,
             \/ RegisterTimesOut(w) \/ PollTimesOut(w) \/ AcceptTimesOut(w)
             \/ BeatTimesOut(w) \/ ReportTimesOut(w)
             \/ DispatchEnds(w) \/ Leave(w) \/ Crash(w) \/ Restart(w)
      PROVE  UNCHANGED storeVars
    BY <1>5 DEF RegisterTimesOut, PollTimesOut, AcceptTimesOut, BeatTimesOut,
                ReportTimesOut, TimesOut, DispatchEnds, Leave, Crash, Restart
<1>6. ASSUME NEW r \in late, Arrives(r)
      PROVE  StoreNext
    <2>1. RequestSound(r) /\ r \in Requests
        BY DEF FleetInv, FleetTypeOK, PresentedWasGranted
    <2>2. r.worker \in Workers
        BY <2>1 DEF Requests
    <2>3. CASE \/ r.kind = "register" /\ RegisterWorker(r.worker)
               \/ r.kind = "lease" /\ \E t \in Tasks : GrantLease(r.worker, t)
               \/ r.kind = "lease" /\ LeaseNothing(r.worker)
        BY <2>2, <2>3 DEF StoreNext
    <2>4. CASE r.kind = "heartbeat" /\ Heartbeat(r.worker, r.task, r.token, "running")
        BY <2>1, <2>2, <2>4, HeartbeatAllowed DEF RequestSound
    <2>5. CASE r.kind = "complete" /\ Complete(r.worker, r.task, r.token, r.verdict)
        <3>1. r.verdict \in {"succeeded", "failed"}
            BY <2>1, <2>5 DEF RequestSound, Requests
        <3> QED BY <2>1, <2>2, <2>5, <3>1, CompleteAllowed DEF RequestSound
    <2> QED BY <1>6, <2>3, <2>4, <2>5 DEF Arrives
<1>7. ASSUME NEW t \in Tasks,
             AttendedLapses(t) \/ OrphanLapses(t) \/ UserEnqueues(t) \/ UserCancels(t)
      PROVE  StoreNext
    BY <1>7 DEF AttendedLapses, OrphanLapses, UserEnqueues, UserCancels, StoreNext
<1> QED
    BY <1>1, <1>2, <1>3, <1>4, <1>5, <1>6, <1>7 DEF Next

------------------------------------------------------------------------------
(* What the operations of the store do to a token that was granted.          *)

\* A row keeps its token and owner, loses them, or shows a token never granted
\* before; it becomes active only with a new one.
LEMMA TokenMoves ==
  ASSUME StoreTypeOK, [StoreNext]_storeVars, NEW t \in Tasks
  PROVE  /\ attempts'[t] >= attempts[t]
         /\ \/ /\ lease_token'[t] = lease_token[t]
               /\ lease_owner'[t] = lease_owner[t]
               /\ status'[t] \in Active => status[t] \in Active
            \/ lease_token'[t] \in {0, attempts[t] + 1}
<1> DEFINE Moved == /\ attempts'[t] >= attempts[t]
                    /\ \/ /\ lease_token'[t] = lease_token[t]
                          /\ lease_owner'[t] = lease_owner[t]
                          /\ status'[t] \in Active => status[t] \in Active
                       \/ lease_token'[t] \in {0, attempts[t] + 1}
<1> USE BoundsAssumption DEF StoreTypeOK, Active
<1>1. ASSUME NEW u \in Tasks, Enqueue(u) \/ Cancel(u) \/ LeaseRunsOut(u)
      PROVE  Moved
    BY <1>1 DEF Enqueue, Cancel, LeaseRunsOut, leaseVars
<1>2. ASSUME NEW w \in Workers, RegisterWorker(w) PROVE Moved
    BY <1>2 DEF RegisterWorker, leaseVars
<1>3. ASSUME NEW w \in Workers, NEW granted \in SUBSET Tasks, LeaseRows(w, granted)
      PROVE  Moved
    BY <1>3 DEF LeaseRows, TakeBackAndGrant, FreshToken, Lapsed
<1>4. ASSUME NEW w \in Workers, LeaseNothing(w) PROVE Moved
    BY <1>3, <1>4 DEF LeaseNothing
<1>5. ASSUME NEW w \in Workers, NEW u \in Tasks, GrantLease(w, u) PROVE Moved
    BY <1>3, <1>5 DEF GrantLease
<1>6. ASSUME NEW w \in Workers, NEW u \in Tasks, NEW k \in 1..MaxAttempts,
             NEW s, Heartbeat(w, u, k, s) \/ Complete(w, u, k, s)
      PROVE  Moved
    BY <1>6 DEF Heartbeat, Complete, HoldsLease
<1>7. CASE UNCHANGED storeVars
    BY <1>7 DEF storeVars
<1> QED
    BY <1>1, <1>2, <1>4, <1>5, <1>6, <1>7 DEF StoreNext

\* A token stays granted to the worker it was granted to, ...
LEMMA GrantStays ==
  ASSUME StoreTypeOK, StoreTypeOK', [StoreNext]_storeVars,
         NEW w, NEW t, NEW k, GrantedTo(w, t, k)
  PROVE  GrantedTo(w, t, k)'
<1>1. attempts[t] \in Nat /\ attempts'[t] \in Nat
    BY BoundsAssumption DEF StoreTypeOK, GrantedTo
<1> QED BY <1>1, TokenMoves DEF GrantedTo

\* ... and a lease that is lost is never held again: fencing.
LEMMA LossStays ==
  ASSUME StoreTypeOK, StoreTypeOK', [StoreNext]_storeVars,
         NEW w, NEW t, NEW k, GrantedTo(w, t, k), ~HoldsLease(w, t, k)
  PROVE  ~HoldsLease(w, t, k)'
<1>1. attempts[t] \in Nat /\ attempts'[t] \in Nat
    BY BoundsAssumption DEF StoreTypeOK, GrantedTo
<1> QED BY <1>1, TokenMoves DEF GrantedTo, HoldsLease

------------------------------------------------------------------------------
(* What workers and late requests remember stays sound.                      *)

\* The memory of a worker is not disturbed by the steps of others.
LEMMA MemoryOfOthers ==
  ASSUME StoreTypeOK, StoreTypeOK', [StoreNext]_storeVars, earned \subseteq earned',
         NEW w \in Workers, MemorySound(w), worker[w] \in WorkerStates,
         worker'[w] = worker[w]
  PROVE  MemorySound(w)'
<1> DEFINE m == worker[w]
<1>1. m.cancelled => GrantedTo(w, m.task, m.token)
    BY DEF MemorySound, Idle, WorkerStates
<1>2. m.cancelled => ~HoldsLease(w, m.task, m.token)'
    BY <1>1, LossStays DEF MemorySound, Holds
<1>3. m.pc \in {"accepting", "executing", "draining", "reporting"}
        => GrantedTo(w, m.task, m.token)'
    BY GrantStays DEF MemorySound
<1> QED BY <1>2, <1>3 DEF MemorySound, Holds, Idle

\* A late request that bears a granted token goes on bearing one.
LEMMA RequestStays ==
  ASSUME StoreTypeOK, StoreTypeOK', [StoreNext]_storeVars, earned \subseteq earned',
         NEW r, RequestSound(r)
  PROVE  RequestSound(r)'
BY GrantStays DEF RequestSound

\* What a worker does next with a memory that is sound leaves a sound memory.
LEMMA MemoryStep ==
  ASSUME FleetInv, StoreTypeOK', [StoreNext]_storeVars, Next, NEW w \in Workers
  PROVE  MemorySound(w)'
<1>a. StoreTypeOK /\ MemorySound(w) /\ worker \in [Workers -> WorkerStates]
    BY DEF FleetInv, FleetTypeOK, PresentedWasGranted
<1>b. earned \subseteq earned' /\ worker[w] \in WorkerStates
    BY <1>a DEF Next, Register, RegisterTimesOut, Poll, PollEmpty, PollTimesOut, Accept,
         AcceptTimesOut, DispatchEnds, NoteReturn, Beat, BeatTimesOut, Leave, Report,
         ReportTimesOut, Crash, Restart, Arrives, AttendedLapses, OrphanLapses,
         UserEnqueues, UserCancels, Refused, TimesOut
<1>c. worker'[w] = worker[w] => MemorySound(w)'
    BY <1>a, <1>b, MemoryOfOthers
<1>d. ASSUME NEW pc \in {"down", "registering", "polling"}, worker'[w] = Idle(pc)
      PROVE  MemorySound(w)'
    BY <1>d DEF MemorySound, Idle
<1>e. ASSUME NEW v \in Workers, NEW m, Goto(v, m), v # w
      PROVE  worker'[w] = worker[w]
    BY <1>a, <1>e DEF Goto
<1>f. ASSUME NEW m, Goto(w, m)
      PROVE  worker'[w] = m
    BY <1>a, <1>f DEF Goto
<1>0. PICK t, k : t = worker[w].task /\ k = worker[w].token
    OBVIOUS
<1>g. ASSUME worker[w].pc \in {"accepting", "executing", "draining", "reporting"}
      PROVE  GrantedTo(w, t, k)'
    BY <1>a, <1>g, <1>0, GrantStays DEF MemorySound
<1>h. ASSUME worker[w].cancelled
      PROVE  ~HoldsLease(w, t, k)'
    <2>1. GrantedTo(w, t, k)
        BY <1>a, <1>b, <1>h, <1>0 DEF MemorySound, Idle, WorkerStates
    <2> QED BY <1>a, <1>h, <1>0, <2>1, LossStays DEF MemorySound, Holds
<1>1. ASSUME NEW v \in Workers, v # w,
             \/ Register(v) \/ RegisterTimesOut(v)
             \/ Poll(v) \/ PollEmpty(v) \/ PollTimesOut(v)
             \/ Accept(v) \/ AcceptTimesOut(v)
             \/ DispatchEnds(v)
             \/ Beat(v) \/ BeatTimesOut(v)
             \/ Leave(v)
             \/ Report(v) \/ ReportTimesOut(v)
             \/ Crash(v) \/ Restart(v)
      PROVE  worker'[w] = worker[w]
    BY <1>1, <1>e DEF Register, RegisterTimesOut, Poll, PollEmpty, PollTimesOut, Accept,
         AcceptTimesOut, DispatchEnds, Beat, BeatTimesOut, Leave, Report,
         ReportTimesOut, Crash, Restart, Refused, TimesOut
<1>2. CASE \/ Register(w) \/ AcceptTimesOut(w) \/ Report(w) \/ ReportTimesOut(w)
           \/ Crash(w) \/ Restart(w)
    BY <1>2, <1>d, <1>f DEF Register, AcceptTimesOut, Report, ReportTimesOut, Crash,
         Restart, Refused, TimesOut
<1>3. CASE RegisterTimesOut(w) \/ PollEmpty(w) \/ PollTimesOut(w)
    BY <1>3, <1>c, <1>f DEF RegisterTimesOut, PollEmpty, PollTimesOut, TimesOut
<1>4. CASE Poll(w)
    <2>1. PICK u \in Tasks, j \in 0..MaxAttempts :
            /\ GrantLease(w, u)
            /\ j = lease_token'[u]
            /\ worker'[w] = [Idle("accepting") EXCEPT !.task = u, !.token = j]
        BY <1>4, <1>f DEF Poll, StoreTypeOK
    <2>2. GrantedTo(w, u, j)'
        BY <1>a, <2>1, BoundsAssumption
           DEF GrantLease, LeaseRows, TakeBackAndGrant, FreshToken, GrantedTo,
               StoreTypeOK
    <2> QED BY <2>1, <2>2 DEF Idle, MemorySound
<1>5. CASE Accept(w)
    <2>1. CASE worker'[w] = Running(w)
        BY <1>5, <1>a, <1>b, <1>0, <1>g, <1>h, <2>1
           DEF Accept, Running, MemorySound, WorkerStates, Holds
    <2> QED BY <1>5, <1>d, <1>f, <2>1 DEF Accept, Refused
<1>6. CASE DispatchEnds(w)
    <2>1. PICK how \in {"returned", "raised"} :
            /\ worker'[w] = [worker[w] EXCEPT !.future = how]
            /\ NoteReturn(w, how)
        BY <1>6, <1>f DEF DispatchEnds
    <2>2. worker[w].pc \in {"executing", "draining"}
        BY <1>6, <1>a DEF DispatchEnds, MemorySound
    <2> QED
        BY <1>a, <1>b, <1>0, <1>g, <1>h, <2>1, <2>2
           DEF MemorySound, WorkerStates, Holds, NoteReturn
<1>7. CASE Beat(w)
    <2>1. CASE /\ worker'[w] = [worker[w] EXCEPT !.cancelled = TRUE]
               /\ Refused(w, worker'[w])
        <3>1. ~HoldsLease(w, t, k)'
            BY <1>0, <2>1 DEF Refused, Holds, HoldsLease, storeVars
        <3> QED
            BY <1>7, <1>a, <1>b, <1>0, <1>g, <2>1, <3>1
               DEF Beat, MemorySound, WorkerStates, Holds
    <2> QED BY <1>7, <1>c, <1>f, <2>1 DEF Beat, Refused
<1>8. CASE BeatTimesOut(w)
    <2>1. worker'[w] = [worker[w] EXCEPT !.pc = "draining", !.verdict = "failed"]
        BY <1>8, <1>f DEF BeatTimesOut, TimesOut
    <2> QED
        BY <1>8, <1>a, <1>b, <1>0, <1>g, <1>h, <2>1
           DEF BeatTimesOut, MemorySound, WorkerStates, Holds
<1>9. CASE Leave(w)
    <2>1. CASE worker[w].cancelled
        BY <1>9, <1>d, <1>f, <2>1 DEF Leave, AfterDispatch
    <2>2. CASE ~worker[w].cancelled
        <3>1. worker'[w] =
                [worker[w] EXCEPT !.pc = "reporting", !.verdict = VerdictOf(w)]
            BY <1>9, <1>f, <2>2 DEF Leave, AfterDispatch
        <3>2. /\ VerdictOf(w) \in {"succeeded", "failed"}
              /\ VerdictOf(w) = "succeeded"
                   => <<worker[w].task, worker[w].token>> \in earned
            BY <1>9, <1>a DEF Leave, VerdictOf, MemorySound
        <3> QED
            BY <1>9, <1>a, <1>b, <1>0, <1>g, <2>2, <3>1, <3>2
               DEF Leave, MemorySound, WorkerStates, Holds
    <2> QED BY <2>1, <2>2
<1>10. ASSUME NEW r \in late, Arrives(r) PROVE worker'[w] = worker[w]
    BY <1>10 DEF Arrives
<1>11. ASSUME NEW u \in Tasks,
              AttendedLapses(u) \/ OrphanLapses(u) \/ UserEnqueues(u) \/ UserCancels(u)
       PROVE  worker'[w] = worker[w]
    BY <1>11 DEF AttendedLapses, OrphanLapses, UserEnqueues, UserCancels
<1> QED
    BY <1>c, <1>1, <1>2, <1>3, <1>4, <1>5, <1>6, <1>7, <1>8, <1>9, <1>10, <1>11 DEF Next

\* A request that times out is what its worker remembers; the others stay.
LEMMA LateStep ==
  ASSUME FleetInv, StoreTypeOK', [StoreNext]_storeVars, Next, NEW r \in late'
  PROVE  RequestSound(r)'
<1>a. StoreTypeOK /\ worker \in [Workers -> WorkerStates]
    BY DEF FleetInv, FleetTypeOK
<1>b. earned \subseteq earned'
    BY DEF Next, Register, RegisterTimesOut, Poll, PollEmpty, PollTimesOut, Accept,
         AcceptTimesOut, DispatchEnds, NoteReturn, Beat, BeatTimesOut, Leave, Report,
         ReportTimesOut, Crash, Restart, Arrives, AttendedLapses, OrphanLapses,
         UserEnqueues, UserCancels, Refused, TimesOut
<1>c. ASSUME r \in late PROVE RequestSound(r)'
    BY <1>a, <1>b, <1>c, RequestStays DEF FleetInv, PresentedWasGranted
<1>d. ASSUME NEW w \in Workers, NEW kind, r = Request(w, kind),
             kind = "complete" => worker[w].verdict # "none",
             \/ kind \in {"register", "lease"}
             \/ worker[w].pc \in {"accepting", "executing", "draining", "reporting"}
      PROVE  RequestSound(r)'
    <2>1. MemorySound(w)
        BY DEF FleetInv, PresentedWasGranted
    <2>2. RequestSound(r)
        BY <1>a, <1>d, <2>1 DEF RequestSound, MemorySound, Request
    <2> QED BY <1>a, <1>b, <2>2, RequestStays
<1>1. ASSUME NEW w \in Workers, RegisterTimesOut(w) PROVE RequestSound(r)'
    BY <1>1, <1>c, <1>d DEF RegisterTimesOut, TimesOut
<1>2. ASSUME NEW w \in Workers, PollTimesOut(w) PROVE RequestSound(r)'
    BY <1>2, <1>c, <1>d DEF PollTimesOut, TimesOut
<1>3. ASSUME NEW w \in Workers, AcceptTimesOut(w) PROVE RequestSound(r)'
    BY <1>3, <1>c, <1>d DEF AcceptTimesOut, TimesOut
<1>4. ASSUME NEW w \in Workers, BeatTimesOut(w) PROVE RequestSound(r)'
    BY <1>4, <1>c, <1>d DEF BeatTimesOut, TimesOut
<1>5. ASSUME NEW w \in Workers, ReportTimesOut(w) PROVE RequestSound(r)'
    <2>1. worker[w].verdict # "none"
        BY <1>5 DEF ReportTimesOut, FleetInv, PresentedWasGranted, MemorySound
    <2> QED BY <1>5, <1>c, <1>d, <2>1 DEF ReportTimesOut, TimesOut
<1>6. ASSUME NEW w \in Workers,
             \/ Register(w) \/ Poll(w) \/ PollEmpty(w) \/ Accept(w) \/ DispatchEnds(w)
             \/ Beat(w) \/ Leave(w) \/ Report(w) \/ Crash(w) \/ Restart(w)
      PROVE  r \in late
    BY <1>6 DEF Register, Poll, PollEmpty, Accept, DispatchEnds, Beat, Leave, Report,
         Crash, Restart, Refused
<1>7. ASSUME NEW q \in late, Arrives(q) PROVE r \in late
    BY <1>7 DEF Arrives
<1>8. ASSUME NEW t \in Tasks,
             AttendedLapses(t) \/ OrphanLapses(t) \/ UserEnqueues(t) \/ UserCancels(t)
      PROVE  r \in late
    BY <1>8 DEF AttendedLapses, OrphanLapses, UserEnqueues, UserCancels
<1> QED
    BY <1>c, <1>1, <1>2, <1>3, <1>4, <1>5, <1>6, <1>7, <1>8 DEF Next

\* Workers, requests and faults keep their types.
LEMMA FleetTypeStep ==
  ASSUME FleetInv, StoreTypeOK', Next
  PROVE  FleetTypeOK'
<1> DEFINE Typed == /\ worker' \in [Workers -> WorkerStates]
                    /\ late' \in SUBSET Requests
                    /\ earned' \in SUBSET (Tasks \X (1..MaxAttempts))
                    /\ faults' \in 0..MaxFaults
<1>a. /\ worker \in [Workers -> WorkerStates]
      /\ late \in SUBSET Requests
      /\ earned \in SUBSET (Tasks \X (1..MaxAttempts))
      /\ faults \in 0..MaxFaults
    BY DEF FleetInv, FleetTypeOK
<1>b. ASSUME NEW w \in Workers, NEW m \in WorkerStates, Goto(w, m)
      PROVE  worker' \in [Workers -> WorkerStates]
    BY <1>a, <1>b DEF Goto
<1>c. \A w \in Workers : worker[w] \in WorkerStates
    BY <1>a
<1>d. ASSUME NEW w \in Workers,
             NEW kind \in {"register", "lease", "heartbeat", "complete"},
             NEW m \in WorkerStates, TimesOut(w, kind, m)
      PROVE  Typed
    <2>1. Request(w, kind) \in Requests
        BY <1>c DEF Request, Requests, WorkerStates
    <2>2. faults' \in 0..MaxFaults
        BY <1>a, <1>d, FleetAssumption DEF TimesOut
    <2> QED BY <1>a, <1>b, <1>d, <2>1, <2>2 DEF TimesOut
<1>e. ASSUME NEW pc \in {"down", "registering", "polling"}
      PROVE  Idle(pc) \in WorkerStates
    BY BoundsAssumption DEF Idle, WorkerStates
<1>1. ASSUME NEW w \in Workers,
             \/ Register(w) \/ PollEmpty(w) \/ Report(w) \/ Restart(w)
      PROVE  Typed
    BY <1>1, <1>a, <1>b, <1>e DEF Register, PollEmpty, Report, Restart, Refused
<1>2. ASSUME NEW w \in Workers,
             \/ RegisterTimesOut(w) \/ PollTimesOut(w) \/ AcceptTimesOut(w)
             \/ ReportTimesOut(w)
      PROVE  Typed
    BY <1>2, <1>c, <1>d, <1>e
       DEF RegisterTimesOut, PollTimesOut, AcceptTimesOut, ReportTimesOut
<1>3. ASSUME NEW w \in Workers, BeatTimesOut(w) PROVE Typed
    <2>1. [worker[w] EXCEPT !.pc = "draining", !.verdict = "failed"] \in WorkerStates
        BY <1>c DEF WorkerStates
    <2> QED BY <1>3, <1>d, <2>1 DEF BeatTimesOut
<1>4. ASSUME NEW w \in Workers, Poll(w) PROVE Typed
    <2>1. PICK t \in Tasks :
            Goto(w, [Idle("accepting") EXCEPT !.task = t, !.token = lease_token'[t]])
        BY <1>4 DEF Poll
    <2>2. lease_token'[t] \in 0..MaxAttempts
        BY DEF StoreTypeOK
    <2>3. [Idle("accepting") EXCEPT !.task = t, !.token = lease_token'[t]]
            \in WorkerStates
        BY <2>2 DEF Idle, WorkerStates
    <2> QED BY <1>4, <1>a, <1>b, <2>1, <2>3 DEF Poll
<1>5. ASSUME NEW w \in Workers, Accept(w) \/ Beat(w) PROVE Typed
    <2>1. /\ Running(w) \in WorkerStates
          /\ [worker[w] EXCEPT !.cancelled = TRUE] \in WorkerStates
        BY <1>c DEF Running, WorkerStates
    <2> QED BY <1>5, <1>a, <1>b, <1>e, <2>1 DEF Accept, Beat, Refused
<1>6. ASSUME NEW w \in Workers, DispatchEnds(w) PROVE Typed
    <2>1. PICK how \in {"returned", "raised"} :
            Goto(w, [worker[w] EXCEPT !.future = how]) /\ NoteReturn(w, how)
        BY <1>6 DEF DispatchEnds
    <2>2. [worker[w] EXCEPT !.future = how] \in WorkerStates
        BY <1>c DEF WorkerStates
    <2>3. <<worker[w].task, worker[w].token>> \in Tasks \X (1..MaxAttempts)
        <3>1. GrantedTo(w, worker[w].task, worker[w].token)
            BY <1>6 DEF DispatchEnds, FleetInv, PresentedWasGranted, MemorySound
        <3> QED BY <3>1, PresentedInRange
    <2> QED BY <1>6, <1>a, <1>b, <2>1, <2>2, <2>3 DEF DispatchEnds, NoteReturn
<1>7. ASSUME NEW w \in Workers, Leave(w) PROVE Typed
    <2>1. AfterDispatch(w) \in WorkerStates
        <3>1. VerdictOf(w) \in {"none", "succeeded", "failed"}
            BY <1>7, <1>c DEF Leave, VerdictOf, WorkerStates
        <3>2. [worker[w] EXCEPT !.pc = "reporting", !.verdict = VerdictOf(w)]
                \in WorkerStates
            BY <1>c, <3>1 DEF WorkerStates
        <3> QED BY <1>e, <3>2 DEF AfterDispatch
    <2> QED BY <1>7, <1>a, <1>b, <2>1 DEF Leave
<1>8. ASSUME NEW w \in Workers, Crash(w) PROVE Typed
    BY <1>8, <1>a, <1>b, <1>e, FleetAssumption DEF Crash
<1>9. ASSUME NEW r \in late, Arrives(r) PROVE Typed
    BY <1>9, <1>a DEF Arrives
<1>10. ASSUME NEW t \in Tasks,
              AttendedLapses(t) \/ OrphanLapses(t) \/ UserEnqueues(t) \/ UserCancels(t)
       PROVE  Typed
    BY <1>10, <1>a, FleetAssumption
       DEF AttendedLapses, OrphanLapses, UserEnqueues, UserCancels
<1>11. Typed
    BY <1>1, <1>2, <1>3, <1>4, <1>5, <1>6, <1>7, <1>8, <1>9, <1>10 DEF Next
<1> QED BY <1>11 DEF FleetTypeOK

\* Every step of the fleet preserves the invariant.
LEMMA FleetStep == FleetInv /\ [Next]_fleetVars => FleetInv'
<1> SUFFICES ASSUME FleetInv, [Next]_fleetVars
             PROVE  FleetInv'
    OBVIOUS
<1>1. [StoreNext]_storeVars
    BY FleetStepsStore
<1>2. StoreTypeOK' /\ LeaseConsistent'
    BY <1>1, TypeStep, ConsistentStep DEF FleetInv, FleetTypeOK
<1>3. CASE Next
    BY <1>1, <1>2, <1>3, FleetTypeStep, MemoryStep, LateStep
       DEF FleetInv, PresentedWasGranted
<1>4. CASE UNCHANGED fleetVars
    BY <1>2, <1>4 DEF fleetVars, storeVars, FleetInv, FleetTypeOK, PresentedWasGranted,
         MemorySound, RequestSound, GrantedTo, Holds, HoldsLease, WorkerStates, Requests
<1> QED BY <1>3, <1>4

(* The types, the consistency of the rows and the tokens everybody presents, *)
(* together an inductive invariant of the fleet.                             *)
THEOREM FleetCorrect == Spec => []FleetInv
BY FleetInit, FleetStep, PTL DEF Spec

(* The rows, the processes and the late requests keep their types, for any   *)
(* number of tasks, workers and attempts.                                    *)
THEOREM FleetTypeCorrect == Spec => []FleetTypeOK
BY FleetCorrect, PTL DEF FleetInv

------------------------------------------------------------------------------
(* What users of the fleet rely on.                                          *)

(* Every token presented, now or by a late request, was granted to the       *)
(* worker that presents it.                                                  *)
THEOREM FleetPresentsGranted == Spec => []PresentedWasGranted
BY FleetCorrect, PTL DEF FleetInv

(* The workers, their timeouts and their restarts never leave the range of   *)
(* clients the store was proved for, so its theorems hold of the fleet.      *)
THEOREM FleetImplementsStore == Spec => StoreSpec
<1>1. Init => StoreInit
    BY DEF Init
<1> QED
    BY <1>1, FleetStepsStore, FleetCorrect, PTL DEF Spec, StoreSpec

(* Hence the fleet implements the life cycle users rely on.                  *)
THEOREM FleetImplementsLifecycle == Spec => LifecycleSpec
BY FleetImplementsStore, StoreImplementsLifecycle

(* At most one process works under the lease a row shows.                    *)
THEOREM FleetOneHolder == Spec => []OneHolder
<1>1. FleetInv => OneHolder
    <2> SUFFICES ASSUME FleetInv, NEW t \in Tasks, NEW w \in Workers,
                        worker[w].task = t, worker[w].token = lease_token[t]
                 PROVE  lease_owner[t] = w
        BY DEF OneHolder
    <2>1. MemorySound(w) /\ worker[w] \in WorkerStates
        BY DEF FleetInv, FleetTypeOK, PresentedWasGranted
    <2>2. worker[w].pc \in {"accepting", "executing", "draining", "reporting"}
        BY <2>1, FleetAssumption DEF MemorySound, Idle, WorkerStates
    <2> QED BY <2>1, <2>2 DEF MemorySound, GrantedTo
<1> QED
    BY <1>1, FleetCorrect, PTL

(* What a worker gave up on a 422 it never holds again.                      *)
THEOREM FleetGaveUpOnlyWhatItLost == Spec => []GaveUpOnlyWhatItLost
<1>1. PresentedWasGranted => GaveUpOnlyWhatItLost
    BY DEF PresentedWasGranted, MemorySound, GaveUpOnlyWhatItLost
<1> QED
    BY <1>1, FleetPresentsGranted, PTL

------------------------------------------------------------------------------
(* Verdicts.                                                                 *)

\* No operation changes a decided row, a requeue included.
LEMMA DecidedStays ==
  ASSUME StoreTypeOK, [StoreNext]_storeVars, NEW t \in Tasks, status[t] \in Verdicts
  PROVE  /\ status'[t] = status[t]
         /\ lease_token'[t] = lease_token[t]
         /\ result'[t] = result[t]
<1> DEFINE Same == /\ status'[t] = status[t]
                   /\ lease_token'[t] = lease_token[t]
                   /\ result'[t] = result[t]
<1> USE DEF StoreTypeOK, Active, Verdicts
<1>1. ASSUME NEW u \in Tasks, Enqueue(u) \/ Cancel(u) \/ LeaseRunsOut(u)
      PROVE  Same
    <2>1. CASE u # t
        BY <1>1, <2>1 DEF Enqueue, Cancel, LeaseRunsOut, leaseVars
    <2>2. CASE u = t
        BY <1>1, <2>2 DEF Enqueue, Cancel, LeaseRunsOut
    <2> QED BY <2>1, <2>2
<1>2. ASSUME NEW w \in Workers, RegisterWorker(w) PROVE Same
    BY <1>2 DEF RegisterWorker, leaseVars
<1>3. ASSUME NEW w \in Workers, NEW granted \in SUBSET Tasks, granted \subseteq Queued,
             LeaseRows(w, granted)
      PROVE  Same
    BY <1>3 DEF LeaseRows, TakeBackAndGrant, Lapsed, Queued
<1>4. ASSUME NEW w \in Workers, LeaseNothing(w) PROVE Same
    BY <1>3, <1>4 DEF LeaseNothing
<1>5. ASSUME NEW w \in Workers, NEW u \in Tasks, GrantLease(w, u) PROVE Same
    BY <1>3, <1>5 DEF GrantLease, Compatible, Candidates
<1>6. ASSUME NEW w \in Workers, NEW u \in Tasks, NEW k \in 1..MaxAttempts,
             NEW s, Heartbeat(w, u, k, s) \/ Complete(w, u, k, s)
      PROVE  Same
    BY <1>6 DEF Heartbeat, Complete, HoldsLease
<1>7. CASE UNCHANGED storeVars
    BY <1>7 DEF storeVars
<1> QED
    BY <1>1, <1>2, <1>4, <1>5, <1>6, <1>7 DEF StoreNext

\* How a task of the fleet becomes decided: a success comes with its earned
\* lease, and a cancellation leaves the result column alone.
Decision(t) ==
  /\ status'[t] = "succeeded" => <<t, lease_token'[t]>> \in earned
  /\ status'[t] = "cancelled" => result'[t] = result[t]

\* A report decides a task by what its lease earned.
LEMMA CompleteDecides ==
  ASSUME FleetInv, NEW t \in Tasks, status[t] \notin Verdicts,
         NEW w \in Workers, NEW u, NEW k, NEW s \in {"succeeded", "failed"},
         s = "succeeded" => <<u, k>> \in earned, Complete(w, u, k, s)
  PROVE  Decision(t)
BY DEF FleetInv, FleetTypeOK, StoreTypeOK, Complete, HoldsLease, Decision, Verdicts

\* So does every step that decides a task; a cancelled one keeps its result.
LEMMA FleetDecides ==
  ASSUME FleetInv, Next, NEW t \in Tasks, status[t] \notin Verdicts
  PROVE  Decision(t)
<1>a. StoreTypeOK
    BY DEF FleetInv, FleetTypeOK
<1>b. UNCHANGED storeVars => Decision(t)
    BY DEF storeVars, Decision, Verdicts
<1>c. ASSUME NEW w \in Workers, NEW u, NEW k, Heartbeat(w, u, k, "running")
      PROVE  Decision(t)
    BY <1>a, <1>c DEF Heartbeat, Decision, Verdicts, StoreTypeOK
<1>d. ASSUME NEW w \in Workers, NEW granted, LeaseRows(w, granted)
      PROVE  Decision(t)
    BY <1>a, <1>d DEF LeaseRows, TakeBackAndGrant, Decision, Verdicts, StoreTypeOK
<1>e. ASSUME NEW w \in Workers,
             RegisterWorker(w) \/ LeaseNothing(w) \/ \E u \in Tasks : GrantLease(w, u)
      PROVE  Decision(t)
    BY <1>d, <1>e DEF RegisterWorker, LeaseNothing, GrantLease, Decision, Verdicts
<1>1. ASSUME NEW w \in Workers, Register(w) \/ Poll(w) \/ PollEmpty(w)
      PROVE  Decision(t)
    BY <1>1, <1>e DEF Register, Poll, PollEmpty
<1>2. ASSUME NEW w \in Workers, Accept(w) \/ Beat(w)
      PROVE  Decision(t)
    BY <1>2, <1>b, <1>c DEF Accept, Beat, Refused
<1>3. ASSUME NEW w \in Workers, Report(w)
      PROVE  Decision(t)
    <2>1. /\ worker[w].verdict \in {"succeeded", "failed"}
          /\ worker[w].verdict = "succeeded"
               => <<worker[w].task, worker[w].token>> \in earned
        BY <1>3 DEF Report, FleetInv, FleetTypeOK, PresentedWasGranted, MemorySound,
             WorkerStates
    <2> QED BY <1>3, <1>b, <2>1, CompleteDecides DEF Report, Refused
<1>4. ASSUME NEW w \in Workers,
             \/ RegisterTimesOut(w) \/ PollTimesOut(w) \/ AcceptTimesOut(w)
             \/ BeatTimesOut(w) \/ ReportTimesOut(w)
             \/ DispatchEnds(w) \/ Leave(w) \/ Crash(w) \/ Restart(w)
      PROVE  Decision(t)
    BY <1>4, <1>b DEF RegisterTimesOut, PollTimesOut, AcceptTimesOut, BeatTimesOut,
         ReportTimesOut, TimesOut, DispatchEnds, Leave, Crash, Restart
<1>5. ASSUME NEW r \in late, Arrives(r)
      PROVE  Decision(t)
    <2>1. RequestSound(r) /\ r \in Requests
        BY DEF FleetInv, FleetTypeOK, PresentedWasGranted
    <2>2. r.worker \in Workers
        BY <2>1 DEF Requests
    <2>3. CASE r.kind = "complete" /\ Complete(r.worker, r.task, r.token, r.verdict)
        <3>1. r.verdict \in {"succeeded", "failed"}
            BY <2>1, <2>3 DEF RequestSound, Requests
        <3> QED BY <2>1, <2>2, <2>3, <3>1, CompleteDecides DEF RequestSound
    <2> QED BY <1>5, <1>c, <1>e, <2>2, <2>3 DEF Arrives
<1>6. ASSUME NEW u \in Tasks,
             AttendedLapses(u) \/ OrphanLapses(u) \/ UserEnqueues(u) \/ UserCancels(u)
      PROVE  Decision(t)
    BY <1>6, <1>a DEF AttendedLapses, OrphanLapses, UserEnqueues, UserCancels,
         LeaseRunsOut, Enqueue, Cancel, Decision, Verdicts, StoreTypeOK
<1> QED
    BY <1>1, <1>2, <1>3, <1>4, <1>5, <1>6 DEF Next

\* Both facts about decided rows are kept by every step.
LEMMA VerdictStep ==
  FleetInv /\ SuccessIsEarned /\ CancelledHasNoResult /\ [Next]_fleetVars
    => SuccessIsEarned' /\ CancelledHasNoResult'
<1> SUFFICES ASSUME FleetInv, SuccessIsEarned, CancelledHasNoResult, [Next]_fleetVars,
                    NEW t \in Tasks
             PROVE  /\ status'[t] = "succeeded" => <<t, lease_token'[t]>> \in earned'
                    /\ status'[t] = "cancelled" => result'[t] = NoResult
    BY DEF SuccessIsEarned, CancelledHasNoResult
<1>a. earned \subseteq earned'
    BY DEF Next, Register, RegisterTimesOut, Poll, PollEmpty, PollTimesOut, Accept,
         AcceptTimesOut, DispatchEnds, NoteReturn, Beat, BeatTimesOut, Leave, Report,
         ReportTimesOut, Crash, Restart, Arrives, AttendedLapses, OrphanLapses,
         UserEnqueues, UserCancels, Refused, TimesOut, fleetVars
<1>b. StoreTypeOK /\ RowConsistent(t) /\ [StoreNext]_storeVars
    BY FleetStepsStore DEF FleetInv, FleetTypeOK, LeaseConsistent
<1>1. CASE status[t] \in Verdicts
    BY <1>1, <1>a, <1>b, DecidedStays DEF SuccessIsEarned, CancelledHasNoResult
<1>2. CASE status[t] \notin Verdicts /\ Next
    <2>1. result[t] = NoResult
        BY <1>2, <1>b DEF RowConsistent, WaitingRow, ActiveRow, StoreTypeOK, Statuses
    <2> QED BY <1>2, <1>a, <2>1, FleetDecides DEF Decision
<1>3. CASE UNCHANGED fleetVars
    BY <1>3 DEF fleetVars, storeVars, SuccessIsEarned, CancelledHasNoResult
<1> QED BY <1>1, <1>2, <1>3

\* Verdicts are what was earned, and a cancelled task has no result.
LEMMA FleetVerdicts == Spec => [](SuccessIsEarned /\ CancelledHasNoResult)
<1>1. Init => SuccessIsEarned /\ CancelledHasNoResult
    BY DEF Init, StoreInit, SuccessIsEarned, CancelledHasNoResult
<1> QED
    BY <1>1, VerdictStep, FleetCorrect, PTL DEF Spec

(* A success was earned under the very lease the row shows.                  *)
THEOREM FleetSuccessIsEarned == Spec => []SuccessIsEarned
BY FleetVerdicts, PTL

(* A worker whose task was cancelled leaves no result behind.                *)
THEOREM FleetCancelledHasNoResult == Spec => []CancelledHasNoResult
BY FleetVerdicts, PTL
==============================================================================
