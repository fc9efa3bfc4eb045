----------------------------- MODULE WorkerFleet -----------------------------
(***************************************************************************)
(* Outbound workers (OutboundWorker in src/src/ael/worker.py) against the  *)
(* task store.  A worker registers, polls for a lease, confirms it with a  *)
(* first heartbeat, runs the task on a thread of its own while it renews   *)
(* the lease, and reports the result.                                      *)
(*                                                                         *)
(* An answered request is one step of worker and store: what the worker    *)
(* does with the answer is local until its next request.  A request that   *)
(* times out (or meets a 5xx) leaves the worker with httpx.HTTPError and   *)
(* itself in "late": the control plane may process it at any later time,   *)
(* at once (a lost reply), long after, or never (a lost request).          *)
(*                                                                         *)
(* MaxFaults bounds, over a behaviour, the timeouts, the crashes and the   *)
(* leases that lapse although their holder is alive.                       *)
(***************************************************************************)
EXTENDS TaskStore

CONSTANTS NoTask, MaxFaults

ASSUME FleetAssumption == NoTask \notin Tasks /\ MaxFaults \in Nat

VARIABLES
  worker,      \* per worker: program counter and the locals of execute()
  late,        \* requests that timed out and have not been processed
  earned,      \* history: <<task, token>> whose dispatch returned normally
  faults

fleetVars == <<storeVars, worker, late, earned, faults>>

Idle(pc) ==
  [pc |-> pc, task |-> NoTask, token |-> 0, future |-> "none",
   cancelled |-> FALSE, verdict |-> "none"]

Request(w, kind) ==
  [kind |-> kind, worker |-> w, task |-> worker[w].task,
   token |-> worker[w].token, verdict |-> worker[w].verdict]

Init ==
  /\ StoreInit
  /\ worker = [w \in Workers |-> Idle("registering")]
  /\ late = {}
  /\ earned = {}
  /\ faults = 0

Goto(w, next) == worker' = [worker EXCEPT ![w] = next]

Holds(w) == HoldsLease(w, worker[w].task, worker[w].token)

\* The request of w gets no answer: w goes on as it does on httpx.HTTPError.
TimesOut(w, kind, next) ==
  /\ faults < MaxFaults
  /\ faults' = faults + 1
  /\ late' = late \cup {Request(w, kind)}
  /\ Goto(w, next)
  /\ UNCHANGED <<storeVars, earned>>

\* The answer is 422 (PermissionError in the store): no row changes.
Refused(w, next) ==
  /\ ~Holds(w)
  /\ Goto(w, next)
  /\ UNCHANGED <<storeVars, late, earned, faults>>

------------------------------------------------------------------------------
(* run_forever                                                               *)

Register(w) ==
  /\ worker[w].pc = "registering"
  /\ RegisterWorker(w)
  /\ Goto(w, Idle("polling"))
  /\ UNCHANGED <<late, earned, faults>>

RegisterTimesOut(w) ==
  /\ worker[w].pc = "registering"
  /\ TimesOut(w, "register", worker[w])

Poll(w) ==
  /\ worker[w].pc = "polling"
  /\ \E t \in Tasks :
       /\ GrantLease(w, t)
       /\ Goto(w, [Idle("accepting") EXCEPT !.task = t, !.token = lease_token'[t]])
  /\ UNCHANGED <<late, earned, faults>>

PollEmpty(w) ==
  /\ worker[w].pc = "polling"
  /\ LeaseNothing(w)
  /\ UNCHANGED <<worker, late, earned, faults>>

PollTimesOut(w) ==
  /\ worker[w].pc = "polling"
  /\ TimesOut(w, "lease", worker[w])

------------------------------------------------------------------------------
(* execute                                                                   *)

Running(w) == [worker[w] EXCEPT !.pc = "executing", !.future = "running"]

\* The first heartbeat is outside the try: any failure of it ends the process.
Accept(w) ==
  /\ worker[w].pc = "accepting"
  /\ \/ /\ Heartbeat(w, worker[w].task, worker[w].token, "running")
        /\ Goto(w, Running(w))
        /\ UNCHANGED <<late, earned, faults>>
     \/ Refused(w, Idle("down"))

AcceptTimesOut(w) ==
  /\ worker[w].pc = "accepting"
  /\ TimesOut(w, "heartbeat", Idle("down"))

\* The dispatch thread ends: the experiment returned, or raised (also because
\* it saw the cancel event, unless it ended just before it looked).
NoteReturn(w, how) ==
  earned' = IF how = "returned" THEN earned \cup {<<worker[w].task, worker[w].token>>}
            ELSE earned

DispatchEnds(w) ==
  /\ worker[w].future = "running"
  /\ \E how \in {"returned", "raised"} :
       /\ Goto(w, [worker[w] EXCEPT !.future = how])
       /\ NoteReturn(w, how)
  /\ UNCHANGED <<storeVars, late, faults>>

BeatIgnoringRefusal(w) ==
  /\ worker[w].pc = "executing"
  /\ \/ /\ Heartbeat(w, worker[w].task, worker[w].token, "running")
        /\ UNCHANGED <<worker, late, earned, faults>>
     \/ Refused(w, worker[w])

\* A renewal in the waiting loop, which may come after the dispatch ended: the
\* loop sleeps between looking at the future and sending it.
Beat(w) ==
  /\ worker[w].pc = "executing"
  /\ \/ /\ Heartbeat(w, worker[w].task, worker[w].token, "running")
        /\ UNCHANGED <<worker, late, earned, faults>>
     \/ Refused(w, [worker[w] EXCEPT !.cancelled = TRUE])

\* Any other failure leaves the loop: the verdict is decided, and the finally
\* clause waits for the dispatch without renewing the lease.
BeatTimesOut(w) ==
  /\ worker[w].pc = "executing"
  /\ TimesOut(w, "heartbeat",
              [worker[w] EXCEPT !.pc = "draining", !.verdict = "failed"])

VerdictOfAnyEnd(w) == "succeeded"

VerdictOf(w) ==
  CASE worker[w].pc = "draining"      -> worker[w].verdict
    [] worker[w].future = "returned"  -> "succeeded"
    [] OTHER                          -> "failed"

\* A worker that was told its task is no longer active reports nothing.
AfterDispatch(w) ==
  IF worker[w].cancelled THEN Idle("polling")
  ELSE [worker[w] EXCEPT !.pc = "reporting", !.verdict = VerdictOf(w)]

Leave(w) ==
  /\ worker[w].pc \in {"executing", "draining"}
  /\ worker[w].future \in {"returned", "raised"}
  /\ Goto(w, AfterDispatch(w))
  /\ UNCHANGED <<storeVars, late, earned, faults>>

Report(w) ==
  /\ worker[w].pc = "reporting"
  /\ \/ /\ Complete(w, worker[w].task, worker[w].token, worker[w].verdict)
        /\ Goto(w, Idle("polling"))
        /\ UNCHANGED <<late, earned, faults>>
     \/ Refused(w, Idle("down"))

ReportTimesOut(w) ==
  /\ worker[w].pc = "reporting"
  /\ TimesOut(w, "complete", Idle("down"))

------------------------------------------------------------------------------
(* The environment: processes, the network, time and users.                  *)

Crash(w) ==
  /\ worker[w].pc # "down"
  /\ faults < MaxFaults
  /\ faults' = faults + 1
  /\ Goto(w, Idle("down"))
  /\ UNCHANGED <<storeVars, late, earned>>

\* The supervisor starts a process that ended (restart: on-failure).
Restart(w) ==
  /\ worker[w].pc = "down"
  /\ Goto(w, Idle("registering"))
  /\ UNCHANGED <<storeVars, late, earned, faults>>

\* A request that timed out reaches the store after all; nobody reads the answer.
Arrives(r) ==
  /\ \/ r.kind = "register" /\ RegisterWorker(r.worker)
     \/ r.kind = "lease" /\ \E t \in Tasks : GrantLease(r.worker, t)
     \/ r.kind = "lease" /\ LeaseNothing(r.worker)
     \/ r.kind = "heartbeat" /\ Heartbeat(r.worker, r.task, r.token, "running")
     \/ r.kind = "complete" /\ Complete(r.worker, r.task, r.token, r.verdict)
  /\ late' = late \ {r}
  /\ UNCHANGED <<worker, earned, faults>>

\* The holder of the lease is there to renew it or about to report.
Attended(t) ==
  \E w \in Workers :
    /\ worker[w].pc \in {"accepting", "executing", "reporting"}
    /\ worker[w].task = t
    /\ Holds(w)

AttendedLapses(t) ==
  /\ Attended(t)
  /\ faults < MaxFaults
  /\ LeaseRunsOut(t)
  /\ faults' = faults + 1
  /\ UNCHANGED <<worker, late, earned>>

OrphanLapses(t) ==
  /\ ~Attended(t)
  /\ LeaseRunsOut(t)
  /\ UNCHANGED <<worker, late, earned, faults>>

UserEnqueues(t) == Enqueue(t) /\ UNCHANGED <<worker, late, earned, faults>>

UserCancels(t) == Cancel(t) /\ UNCHANGED <<worker, late, earned, faults>>

Next ==
  \/ \E w \in Workers :
       \/ Register(w) \/ RegisterTimesOut(w)
       \/ Poll(w) \/ PollEmpty(w) \/ PollTimesOut(w)
       \/ Accept(w) \/ AcceptTimesOut(w)
       \/ DispatchEnds(w)
       \/ Beat(w) \/ BeatTimesOut(w)
       \/ Leave(w)
       \/ Report(w) \/ ReportTimesOut(w)
       \/ Crash(w) \/ Restart(w)
  \/ \E r \in late : Arrives(r)
  \/ \E t \in Tasks :
       AttendedLapses(t) \/ OrphanLapses(t) \/ UserEnqueues(t) \/ UserCancels(t)

Spec == Init /\ [][Next]_fleetVars

\* The waiting loop keeps renewing; nothing says that an experiment ends.
LoopSpec == Spec /\ \A w \in Workers : WF_fleetVars(Beat(w))

\* Processes run, experiments end, supervisors restart, the clock advances.
\* Users, faults and late arrivals are under no obligation.
ProcessesRun ==
  /\ \A w \in Workers :
       /\ WF_fleetVars(Register(w))
       /\ WF_fleetVars(Poll(w) \/ PollEmpty(w))
       /\ WF_fleetVars(Accept(w))
       /\ WF_fleetVars(DispatchEnds(w))
       /\ WF_fleetVars(Leave(w))
       /\ WF_fleetVars(Report(w))
       /\ WF_fleetVars(Restart(w))
  /\ \A t \in Tasks : WF_fleetVars(OrphanLapses(t))

------------------------------------------------------------------------------
(* Properties.                                                               *)

WorkerStates ==
  [pc : {"down", "registering", "polling", "accepting", "executing", "draining",
         "reporting"},
   task : Tasks \cup {NoTask}, token : 0..MaxAttempts,
   future : {"none", "running", "returned", "raised"},
   cancelled : BOOLEAN, verdict : {"none", "succeeded", "failed"}]

Requests ==
  [kind : {"register", "lease", "heartbeat", "complete"}, worker : Workers,
   task : Tasks \cup {NoTask}, token : 0..MaxAttempts,
   verdict : {"none", "succeeded", "failed"}]

\* Every variable has its type.
FleetTypeOK ==
  /\ StoreTypeOK
  /\ worker \in [Workers -> WorkerStates]
  /\ late \in SUBSET Requests
  /\ earned \in SUBSET (Tasks \X (1..MaxAttempts))
  /\ faults \in 0..MaxFaults

\* Token k of task t was granted, and if the row still shows it, to w.
GrantedTo(w, t, k) ==
  /\ t \in Tasks
  /\ k \in 1..attempts[t]
  /\ lease_token[t] = k => lease_owner[t] = w

\* What a worker remembers of its task was granted to it, a success it is going
\* to report was earned, and what it gave up it does not hold.
MemorySound(w) ==
  LET m == worker[w] IN
  /\ m.pc \in {"accepting", "executing", "draining", "reporting"}
       => GrantedTo(w, m.task, m.token)
  /\ m.pc \in {"down", "registering", "polling"} => m = Idle(m.pc)
  /\ m.pc = "draining" => m.verdict = "failed"
  /\ m.pc = "reporting" => m.verdict # "none"
  /\ m.future = "running" => m.pc \in {"executing", "draining"}
  /\ m.future = "returned" \/ m.verdict = "succeeded" => <<m.task, m.token>> \in earned
  /\ m.cancelled => ~Holds(w)

RequestSound(r) ==
  /\ r.kind \in {"heartbeat", "complete"} => GrantedTo(r.worker, r.task, r.token)
  /\ r.kind = "complete" => r.verdict # "none"
  /\ r.verdict = "succeeded" => <<r.task, r.token>> \in earned

\* Whatever a worker or a late request presents to the store, now or later, was
\* once granted to that very worker: the inductive core of the fleet's safety.
PresentedWasGranted ==
  /\ \A w \in Workers : MemorySound(w)
  /\ \A r \in late : RequestSound(r)

\* At any time at most one process works under the lease the row shows, and it
\* is the owner: however leases lapse, requests arrive late and workers restart,
\* all others that still run the task are fenced off.
OneHolder ==
  \A t \in Tasks, w \in Workers :
    /\ status[t] \in Active
    /\ worker[w].task = t
    /\ worker[w].token = lease_token[t]
    => lease_owner[t] = w

\* A task is "succeeded" only if the dispatch under the very lease the row
\* shows returned normally: not under an earlier lease, nor in another worker.
SuccessIsEarned ==
  \A t \in Tasks : status[t] = "succeeded" => <<t, lease_token[t]>> \in earned

\* Once a user's cancellation is answered, the worker that goes on running the
\* task, or its report still under way, leaves no result behind.
CancelledHasNoResult ==
  \A t \in Tasks : status[t] = "cancelled" => result[t] = NoResult

\* A worker that gives a task up silently, on a 422, has lost it for good: no
\* later lease, its own late requests included, makes it the holder again.
GaveUpOnlyWhatItLost == \A w \in Workers : worker[w].cancelled => ~Holds(w)

\* A cancellation reaches the worker that runs the task, however long it runs.
CancelReachesWorker ==
  \A w \in Workers, t \in Tasks :
    (status[t] = "cancelled" /\ worker[w].task = t /\ worker[w].pc = "executing")
      ~> (worker[w].cancelled \/ worker[w].pc # "executing")

\* If processes run and faults end, every submitted task that some worker can
\* serve is decided: no crash, lost answer or lapsed lease strands it.
CompatibleTaskDecided ==
  ProcessesRun =>
    \A t \in Tasks :
      (status[t] = "queued" /\ \E w \in Workers : Required[t] \subseteq Offered[w])
        ~> (status[t] \in Verdicts)
==============================================================================
