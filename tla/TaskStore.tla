------------------------------ MODULE TaskStore ------------------------------
(***************************************************************************)
(* The tasks and workers tables of the control plane and the operations    *)
(* that change them: StateStore in src/src/ael/storage.py (SQLite) and     *)
(* ServerStateStore in src/src/ael/storage_server.py (PostgreSQL).  Every  *)
(* operation is one transaction, hence one action.                         *)
(*                                                                         *)
(* A task id is the place of its row in the order (created_at, task_id).   *)
(* The random lease token is modelled as fresh: the number of the lease.   *)
(* lease_expires_at is kept as its relation to the clock: "ahead" of it or *)
(* "passed".  CandidateLimit is the number of queued rows one lease        *)
(* request looks at: 20 in ServerStateStore, all of them in StateStore.    *)
(* ServerStateStore also passes over the rows other transactions have      *)
(* locked; StateStore serializes lease requests.                           *)
(***************************************************************************)
EXTENDS Naturals, FiniteSets

CONSTANTS
  Tasks,            \* task ids, a finite set of numbers
  Workers,          \* worker ids
  NoWorker,         \* NULL in lease_owner
  Required,         \* Required[t]: required_capabilities of task t
  Offered,          \* Offered[w]: names of the capabilities w registers
  IdempotencyKey,   \* IdempotencyKey[t]: the key task t is enqueued under
  CandidateLimit,   \* queued rows one lease request looks at
  SkipLocked,       \* whether a lease request passes over locked rows
  MaxAttempts       \* bound of the model: leases granted per task

ASSUME TasksAssumption == Tasks \subseteq Nat

ASSUME NoWorkerAssumption == NoWorker \notin Workers

ASSUME BoundsAssumption == CandidateLimit \in Nat /\ MaxAttempts \in Nat

VARIABLES
  status,           \* "absent" while there is no row
  lease_owner,
  lease_token,      \* 0 for NULL
  lease_expires_at,
  attempts,
  result,
  registered        \* worker ids in the workers table, all enabled

storeVars == <<status, lease_owner, lease_token, lease_expires_at, attempts,
               result, registered>>

leaseVars == <<lease_owner, lease_token, lease_expires_at, attempts>>

Active == {"leased", "running"}
Verdicts == {"succeeded", "failed", "cancelled"}
Statuses == {"absent", "queued"} \cup Active \cup Verdicts

NoResult == [status |-> "none", lease_token |-> 0]

StoreInit ==
  /\ status = [t \in Tasks |-> "absent"]
  /\ lease_owner = [t \in Tasks |-> NoWorker]
  /\ lease_token = [t \in Tasks |-> 0]
  /\ lease_expires_at = [t \in Tasks |-> "none"]
  /\ attempts = [t \in Tasks |-> 0]
  /\ result = [t \in Tasks |-> NoResult]
  /\ registered = {}

------------------------------------------------------------------------------
(* Users' operations.                                                        *)

EnqueueIgnoringKey(t) ==
  /\ status[t] = "absent"
  /\ status' = [status EXCEPT ![t] = "queued"]
  /\ UNCHANGED <<leaseVars, result, registered>>

\* A second submission under a key that has a row returns that row.
Enqueue(t) ==
  /\ \A u \in Tasks : status[u] # "absent" => IdempotencyKey[u] # IdempotencyKey[t]
  /\ status' = [status EXCEPT ![t] = "queued"]
  /\ UNCHANGED <<leaseVars, result, registered>>

CancelAnyRow(t) ==
  /\ status[t] # "absent"
  /\ status' = [status EXCEPT ![t] = "cancelled"]
  /\ UNCHANGED <<leaseVars, result, registered>>

\* The columns of a lease stay: only the status says that it is over.
Cancel(t) ==
  /\ status[t] \in {"queued"} \cup Active
  /\ status' = [status EXCEPT ![t] = "cancelled"]
  /\ UNCHANGED <<leaseVars, result, registered>>

------------------------------------------------------------------------------
(* Workers' operations.                                                      *)

RegisterWorker(w) ==
  /\ registered' = registered \cup {w}
  /\ UNCHANGED <<status, leaseVars, result>>

LapsedOrLive == {t \in Tasks : status[t] \in Active}

LapsedBeforeAccepted ==
  {t \in Tasks : status[t] = "leased" /\ lease_expires_at[t] = "passed"}

Lapsed == {t \in Tasks : status[t] \in Active /\ lease_expires_at[t] = "passed"}

Queued == {t \in Tasks : status[t] = "queued"} \cup Lapsed

\* Rows that other transactions may hold while this request looks for a task.
Lockable ==
  IF SkipLocked THEN SUBSET {t \in Tasks : status[t] = "queued"} ELSE {{}}

Candidates(locked) ==
  LET seen == Queued \ locked
  IN  {t \in seen : Cardinality({u \in seen : u < t}) < CandidateLimit}

Compatible(w, locked) == {t \in Candidates(locked) : Required[t] \subseteq Offered[w]}

TokenOfTask(t) == 1

FreshToken(t) == attempts[t] + 1

\* One lease transaction: every lapsed lease is taken back (its row becomes
\* "returned"), then the tasks of "granted", one or none, go to w under a fresh
\* token.
TakeBackAndGrant(w, granted, returned) ==
  LET back == Lapsed \ granted IN
  /\ status' = [t \in Tasks |-> IF t \in granted THEN "leased"
                  ELSE IF t \in back THEN returned ELSE status[t]]
  /\ lease_owner' = [t \in Tasks |-> IF t \in granted THEN w
                  ELSE IF t \in back THEN NoWorker ELSE lease_owner[t]]
  /\ lease_token' = [t \in Tasks |-> IF t \in granted THEN FreshToken(t)
                  ELSE IF t \in back THEN 0 ELSE lease_token[t]]
  /\ lease_expires_at' = [t \in Tasks |-> IF t \in granted THEN "ahead"
                  ELSE IF t \in back THEN "none" ELSE lease_expires_at[t]]
  /\ attempts' = [t \in Tasks |-> IF t \in granted THEN attempts[t] + 1
                  ELSE attempts[t]]
  /\ UNCHANGED <<result, registered>>

LeaseRowsExpiring(w, granted) == TakeBackAndGrant(w, granted, "expired")

LeaseRows(w, granted) == TakeBackAndGrant(w, granted, "queued")

\* The lease request that is answered with task t ...
GrantLease(w, t) ==
  /\ w \in registered
  /\ \E locked \in Lockable :
       t \in Compatible(w, locked) /\ \A u \in Compatible(w, locked) : t <= u
  /\ attempts[t] < MaxAttempts
  /\ LeaseRows(w, {t})

\* ... and the one answered with null, which takes lapsed leases back all the same.
LeaseNothing(w) ==
  /\ w \in registered
  /\ \E locked \in Lockable : Compatible(w, locked) = {}
  /\ LeaseRows(w, {})

HoldsLeaseByOwner(w, t, token) ==
  /\ lease_owner[t] = w
  /\ status[t] \in Active

HoldsLeaseAnyStatus(w, t, token) ==
  /\ lease_owner[t] = w
  /\ lease_token[t] = token

\* The WHERE clause of heartbeat and completion: the expiry is not looked at.
HoldsLease(w, t, token) ==
  /\ lease_owner[t] = w
  /\ lease_token[t] = token
  /\ status[t] \in Active

Heartbeat(w, t, token, s) ==
  /\ HoldsLease(w, t, token)
  /\ status' = [status EXCEPT ![t] = s]
  /\ lease_expires_at' = [lease_expires_at EXCEPT ![t] = "ahead"]
  /\ UNCHANGED <<lease_owner, lease_token, attempts, result, registered>>

Complete(w, t, token, s) ==
  /\ HoldsLease(w, t, token)
  /\ status' = [status EXCEPT ![t] = s]
  /\ result' = [result EXCEPT ![t] = [status |-> s, lease_token |-> token]]
  /\ lease_expires_at' = [lease_expires_at EXCEPT ![t] = "none"]
  /\ UNCHANGED <<lease_owner, lease_token, attempts, registered>>

\* The clock passes lease_expires_at of a lease nobody renewed in time.
LeaseRunsOut(t) ==
  /\ status[t] \in Active
  /\ lease_expires_at[t] = "ahead"
  /\ lease_expires_at' = [lease_expires_at EXCEPT ![t] = "passed"]
  /\ UNCHANGED <<status, lease_owner, lease_token, attempts, result, registered>>

------------------------------------------------------------------------------
(* The store under the most general clients: any worker may at any time      *)
(* present any token for any task.                                           *)

StoreNext ==
  \/ \E t \in Tasks : Enqueue(t) \/ Cancel(t) \/ LeaseRunsOut(t)
  \/ \E w \in Workers : RegisterWorker(w) \/ LeaseNothing(w)
  \/ \E w \in Workers, t \in Tasks : GrantLease(w, t)
  \/ \E w \in Workers, t \in Tasks, k \in 1..MaxAttempts, s \in Active :
        Heartbeat(w, t, k, s)
  \/ \E w \in Workers, t \in Tasks, k \in 1..MaxAttempts, s \in Verdicts :
        Complete(w, t, k, s)

StoreSpec == StoreInit /\ [][StoreNext]_storeVars

------------------------------------------------------------------------------
(* Properties.                                                               *)

\* Every column has its type.
StoreTypeOK ==
  /\ status \in [Tasks -> Statuses]
  /\ lease_owner \in [Tasks -> Workers \cup {NoWorker}]
  /\ lease_token \in [Tasks -> 0..MaxAttempts]
  /\ lease_expires_at \in [Tasks -> {"none", "ahead", "passed"}]
  /\ attempts \in [Tasks -> 0..MaxAttempts]
  /\ result \in [Tasks -> [status : Verdicts \cup {"none"},
                           lease_token : 0..MaxAttempts]]
  /\ registered \in SUBSET Workers

\* A row that nobody has been granted since it was queued shows no lease; ...
WaitingRow(t) ==
  /\ lease_owner[t] = NoWorker
  /\ lease_token[t] = 0
  /\ lease_expires_at[t] = "none"
  /\ result[t] = NoResult

\* ... an active one shows its latest lease, held by a registered worker that
\* offers what the task requires; ...
ActiveRow(t) ==
  /\ lease_owner[t] \in registered
  /\ Required[t] \subseteq Offered[lease_owner[t]]
  /\ attempts[t] > 0
  /\ lease_token[t] = attempts[t]
  /\ lease_expires_at[t] # "none"
  /\ result[t] = NoResult

\* ... and a reported one shows the result that decided it, given under the
\* latest lease.
ReportedRow(t) ==
  /\ lease_owner[t] \in registered
  /\ lease_token[t] = attempts[t]
  /\ result[t] = [status |-> status[t], lease_token |-> attempts[t]]

RowConsistent(t) ==
  /\ status[t] = "absent" => WaitingRow(t) /\ attempts[t] = 0
  /\ status[t] = "queued" => WaitingRow(t)
  /\ status[t] \in Active => ActiveRow(t)
  /\ status[t] \in {"succeeded", "failed"} => ReportedRow(t)
  /\ status[t] = "cancelled" => result[t] = NoResult \/ ReportedRow(t)

\* The lease columns, the result and the status of a row, written by six
\* operations of two actors, always tell the same story.
LeaseConsistent == \A t \in Tasks : RowConsistent(t)

\* A client that retries a submission under one idempotency key never gets
\* the work done twice: one row per key.
OneRowPerKey ==
  \A t, u \in Tasks :
    status[t] # "absent" /\ status[u] # "absent"
      /\ IdempotencyKey[t] = IdempotencyKey[u] => t = u

\* No request of anybody takes a lease from its holder before it runs out:
\* while it is ahead of the clock the row keeps owner and token until it is
\* decided, and is never queued again.
LiveLeaseKept ==
  [][\A t \in Tasks :
       status[t] \in Active /\ lease_expires_at[t] = "ahead" =>
         /\ status'[t] \in Active \cup Verdicts
         /\ lease_owner'[t] = lease_owner[t]
         /\ lease_token'[t] = lease_token[t]]_storeVars

\* The rows implement the life cycle users rely on.
Phase(t) ==
  CASE status[t] = "absent" -> "unknown"
    [] status[t] = "queued" -> "waiting"
    [] status[t] \in Active -> "held"
    [] OTHER -> "done"

LifeOf(t) ==
  [phase   |-> Phase(t),
   holder  |-> lease_owner[t],
   grants  |-> attempts[t],
   verdict |-> [status |-> IF status[t] \in Verdicts THEN status[t] ELSE "none",
                grant  |-> result[t].lease_token]]

Lifecycle == INSTANCE TaskLifecycle WITH
  Nobody <- NoWorker, life <- [t \in Tasks |-> LifeOf(t)]

LifecycleSpec == Lifecycle!Spec
==============================================================================
