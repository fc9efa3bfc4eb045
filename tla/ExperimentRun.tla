---------------------------- MODULE ExperimentRun ----------------------------
(***************************************************************************)
(* Experiments executed by the service: AelService in src/src/ael/service.py *)
(* with the runs table (storage.py, storage_server.py), the files of the   *)
(* evidence (evidence.py) and the content-addressed store they go to.      *)
(* Several runs execute at once: up to PoolSize of those started in the    *)
(* background, and any number of those a caller waits for.                 *)
(*                                                                         *)
(* Scheduler.run is one step here (Simulate); Scheduler.tla models it.     *)
(* The experiment document of the workspace is a version number.  A call   *)
(* of the database may fail: before it took effect, or after (the reply to *)
(* the commit is lost).  A crash ends the process and every run in it;     *)
(* nothing in the code looks for runs of an earlier process.               *)
(***************************************************************************)
EXTENDS Naturals, FiniteSets

CONSTANTS
  Runs,          \* run ids, numbered in the order of submission
  NoRun,         \* no run: the experiment comes from the workspace
  Outcomes,      \* statuses Scheduler.run may end with
  Digests,       \* content digests
  Content,       \* Content[r]: the digests of the files of r's evidence
  PoolSize,      \* max_workers of the executor
  MaxEdits,      \* bound of the model: edits of the workspace document
  MaxFaults,     \* bound of the model: failures of the database or the disk
  MaxCrashes     \* bound of the model: ends of the process

ASSUME RunsAssumption == Runs \subseteq Nat /\ NoRun \notin Runs

ASSUME OutcomesAssumption ==
  Outcomes \subseteq {"passed", "failed", "blocked", "cancelled"}

ASSUME ContentAssumption ==
  Content \in [Runs -> SUBSET Digests] /\ \A r \in Runs : IsFiniteSet(Content[r])

ASSUME RunBoundsAssumption ==
  PoolSize \in Nat /\ MaxEdits \in Nat /\ MaxFaults \in Nat /\ MaxCrashes \in Nat

VARIABLES
  row,           \* runs table: status ("absent" without a row), evidence_path set
  pc,            \* where the thread of a run is
  pooled,        \* runs submitted to the executor
  source,        \* the run this one replays, or NoRun
  recorded,      \* version of the experiment the run loaded and keeps a copy of
  outcome,       \* status the scheduler ended with
  bundle,        \* status in bundle.json, "none" without the file
  todo,          \* digests the run still puts into the store
  writing,       \* digest whose file the run found missing or has opened
  blob,          \* blob[d]: "absent", "empty" (opened, not written) or "whole"
  document,      \* version of the experiment document in the workspace
  faults,
  crashes

runVars == <<row, pc, pooled, source, recorded, outcome, bundle>>
casVars == <<todo, writing, blob>>
envVars == <<document, faults, crashes>>
vars == <<runVars, casVars, envVars>>

Decisions == {"passed", "failed", "blocked", "cancelled"}
RowStatuses == {"absent", "queued", "running"} \cup Decisions
NotLoaded == MaxEdits + 1
NoDigest == "no digest"

ASSUME NoDigestAssumption == NoDigest \notin Digests

Executing == {"load", "simulate", "put", "fill", "record", "excuse"}
Stages == {"unborn", "submitted", "ended"} \cup Executing

Init ==
  /\ row = [r \in Runs |-> [status |-> "absent", evidence |-> FALSE]]
  /\ pc = [r \in Runs |-> "unborn"]
  /\ pooled = {}
  /\ source = [r \in Runs |-> NoRun]
  /\ recorded = [r \in Runs |-> NotLoaded]
  /\ outcome = [r \in Runs |-> "none"]
  /\ bundle = [r \in Runs |-> "none"]
  /\ todo = [r \in Runs |-> {}]
  /\ writing = [r \in Runs |-> NoDigest]
  /\ blob = [d \in Digests |-> "absent"]
  /\ document = 0
  /\ faults = 0
  /\ crashes = 0

IsNext(r) == pc[r] = "unborn" /\ \A q \in Runs : q < r => pc[q] # "unborn"

Goto(r, stage) == pc' = [pc EXCEPT ![r] = stage]

Faulty == faults < MaxFaults /\ faults' = faults + 1

------------------------------------------------------------------------------
(* The runs table.  Each operation is one transaction; one that fails may    *)
(* have taken effect.                                                        *)

CreateRunPending(r) == row' = [row EXCEPT ![r].status = "pending"]

CreateRun(r) == row' = [row EXCEPT ![r].status = "queued"]

UpdateRunOverwriting(r, status, evidence) ==
  row' = [row EXCEPT ![r] = [status |-> status, evidence |-> evidence]]

\* evidence_path = COALESCE(?, evidence_path): a call without one keeps it.
UpdateRun(r, status, evidence) ==
  row' = [row EXCEPT ![r] = [status |-> status, evidence |-> @.evidence \/ evidence]]

------------------------------------------------------------------------------
(* Requests of users.                                                        *)

StartExperiment(r) ==
  /\ IsNext(r)
  /\ CreateRun(r)
  /\ pooled' = pooled \cup {r}
  /\ Goto(r, "submitted")
  /\ UNCHANGED <<source, recorded, outcome, bundle, casVars, envVars>>

RunExperiment(r) ==
  /\ IsNext(r)
  /\ CreateRun(r)
  /\ Goto(r, "submitted")
  /\ UNCHANGED <<pooled, source, recorded, outcome, bundle, casVars, envVars>>

\* The row may exist although the caller got an exception: no thread runs it.
CreateFails(r) ==
  /\ IsNext(r)
  /\ Faulty
  /\ CreateRun(r) \/ UNCHANGED row
  /\ Goto(r, "ended")
  /\ UNCHANGED <<pooled, source, recorded, outcome, bundle, casVars, document, crashes>>

\* A replay runs the experiment document in the evidence of the run it repeats.
Replay(r, s) ==
  /\ IsNext(r)
  /\ row[s].evidence
  /\ CreateRun(r)
  /\ source' = [source EXCEPT ![r] = s]
  /\ Goto(r, "submitted")
  /\ UNCHANGED <<pooled, recorded, outcome, bundle, casVars, envVars>>

EditExperiment ==
  /\ document < MaxEdits
  /\ document' = document + 1
  /\ UNCHANGED <<runVars, casVars, faults, crashes>>

------------------------------------------------------------------------------
(* The thread of a run: _execute.                                            *)

Busy == {r \in pooled : pc[r] \in Executing}

\* A thread of the executor is free, or the caller's thread runs it.
Scheduled(r) == pc[r] = "submitted" /\ (r \in pooled => Cardinality(Busy) < PoolSize)

MarkRunning(r) ==
  /\ Scheduled(r)
  /\ UpdateRun(r, "running", FALSE)
  /\ Goto(r, "load")
  /\ UNCHANGED <<pooled, source, recorded, outcome, bundle, casVars, envVars>>

\* This call stands before the try: nobody writes the failure to the row.
MarkFails(r) ==
  /\ Scheduled(r)
  /\ Faulty
  /\ UpdateRun(r, "running", FALSE) \/ UNCHANGED row
  /\ Goto(r, "ended")
  /\ UNCHANGED <<pooled, source, recorded, outcome, bundle, casVars, document, crashes>>

ExperimentInWorkspace(r) == document

\* The version of the experiment document that the path of the run names.
ExperimentOf(r) == IF source[r] = NoRun THEN document ELSE recorded[source[r]]

\* The document is read when the run starts, not when it is submitted, and
\* written to the directory of the run.
LoadDocuments(r) ==
  /\ pc[r] = "load"
  /\ recorded' = [recorded EXCEPT ![r] = ExperimentOf(r)]
  /\ Goto(r, "simulate")
  /\ UNCHANGED <<row, pooled, source, outcome, bundle, casVars, envVars>>

DocumentsRefusedOutsideTry(r) ==
  /\ pc[r] = "load"
  /\ Goto(r, "ended")
  /\ UNCHANGED <<row, pooled, source, recorded, outcome, bundle, casVars, envVars>>

\* A document is missing, malformed or refused by a validation.
DocumentsRefused(r) ==
  /\ pc[r] = "load"
  /\ Goto(r, "excuse")
  /\ UNCHANGED <<row, pooled, source, recorded, outcome, bundle, casVars, envVars>>

Simulate(r) ==
  /\ pc[r] = "simulate"
  /\ \E d \in Outcomes : outcome' = [outcome EXCEPT ![r] = d]
  /\ todo' = [todo EXCEPT ![r] = Content[r]]
  /\ Goto(r, "put")
  /\ UNCHANGED <<row, pooled, source, recorded, bundle, writing, blob, envVars>>

PutUnchecked(r, d) ==
  /\ pc[r] = "put" /\ writing[r] = NoDigest
  /\ d \in todo[r]
  /\ todo' = [todo EXCEPT ![r] = @ \ {d}]
  /\ UNCHANGED <<runVars, writing, blob, envVars>>

\* put_bytes leaves a file alone that exists.
PutFinds(r, d) ==
  /\ pc[r] = "put" /\ writing[r] = NoDigest
  /\ d \in todo[r]
  /\ blob[d] # "absent"
  /\ todo' = [todo EXCEPT ![r] = @ \ {d}]
  /\ UNCHANGED <<runVars, writing, blob, envVars>>

PutMisses(r, d) ==
  /\ pc[r] = "put" /\ writing[r] = NoDigest
  /\ d \in todo[r]
  /\ blob[d] = "absent"
  /\ writing' = [writing EXCEPT ![r] = d]
  /\ todo' = [todo EXCEPT ![r] = @ \ {d}]
  /\ UNCHANGED <<runVars, blob, envVars>>

\* write_bytes opens the file, which empties it, and then writes the content.
PutOpens(r) ==
  /\ pc[r] = "put" /\ writing[r] # NoDigest
  /\ blob' = [blob EXCEPT ![writing[r]] = "empty"]
  /\ Goto(r, "fill")
  /\ UNCHANGED <<row, pooled, source, recorded, outcome, bundle, todo, writing, envVars>>

PutFills(r) ==
  /\ pc[r] = "fill"
  /\ blob' = [blob EXCEPT ![writing[r]] = "whole"]
  /\ writing' = [writing EXCEPT ![r] = NoDigest]
  /\ Goto(r, "put")
  /\ UNCHANGED <<row, pooled, source, recorded, outcome, bundle, todo, envVars>>

WriteBundle(r) ==
  /\ pc[r] = "put" /\ writing[r] = NoDigest /\ todo[r] = {}
  /\ bundle' = [bundle EXCEPT ![r] = outcome[r]]
  /\ Goto(r, "record")
  /\ UNCHANGED <<row, pooled, source, recorded, outcome, casVars, envVars>>

\* The disk is full, or a model file is gone: no bundle is written.
EvidenceFails(r) ==
  /\ pc[r] \in {"load", "put", "fill"}
  /\ Faulty
  /\ todo' = [todo EXCEPT ![r] = {}]
  /\ writing' = [writing EXCEPT ![r] = NoDigest]
  /\ Goto(r, "excuse")
  /\ UNCHANGED <<row, pooled, source, recorded, outcome, bundle, blob, document, crashes>>

RecordOutcome(r) ==
  /\ pc[r] = "record"
  /\ UpdateRun(r, outcome[r], TRUE)
  /\ Goto(r, "ended")
  /\ UNCHANGED <<pooled, source, recorded, outcome, bundle, casVars, envVars>>

\* The except clause also catches the failure of this call.
RecordFails(r) ==
  /\ pc[r] = "record"
  /\ Faulty
  /\ UpdateRun(r, outcome[r], TRUE) \/ UNCHANGED row
  /\ Goto(r, "excuse")
  /\ UNCHANGED <<pooled, source, recorded, outcome, bundle, casVars, document, crashes>>

RecordFailureWithPath(r) ==
  /\ pc[r] = "excuse"
  /\ UpdateRun(r, "failed", TRUE)
  /\ Goto(r, "ended")
  /\ UNCHANGED <<pooled, source, recorded, outcome, bundle, casVars, envVars>>

RecordFailure(r) ==
  /\ pc[r] = "excuse"
  /\ UpdateRun(r, "failed", FALSE)
  /\ Goto(r, "ended")
  /\ UNCHANGED <<pooled, source, recorded, outcome, bundle, casVars, envVars>>

\* The exception leaves the thread, and the row is what it was.
RecordFailureFails(r) ==
  /\ pc[r] = "excuse"
  /\ Faulty
  /\ UpdateRun(r, "failed", FALSE) \/ UNCHANGED row
  /\ Goto(r, "ended")
  /\ UNCHANGED <<pooled, source, recorded, outcome, bundle, casVars, document, crashes>>

\* The process ends; rows and files stay, threads and the executor's queue do not.
Crash ==
  /\ crashes < MaxCrashes
  /\ crashes' = crashes + 1
  /\ pc' = [r \in Runs |-> IF pc[r] \in Executing \cup {"submitted"} THEN "ended" ELSE pc[r]]
  /\ todo' = [r \in Runs |-> {}]
  /\ writing' = [r \in Runs |-> NoDigest]
  /\ UNCHANGED <<row, pooled, source, recorded, outcome, bundle, blob, document, faults>>

Advance(r) ==
  \/ MarkRunning(r)
  \/ LoadDocuments(r)
  \/ DocumentsRefused(r)
  \/ Simulate(r)
  \/ \E d \in Digests : PutFinds(r, d) \/ PutMisses(r, d)
  \/ PutOpens(r)
  \/ PutFills(r)
  \/ WriteBundle(r)
  \/ RecordOutcome(r)
  \/ RecordFailure(r)

Next ==
  \/ \E r \in Runs : Advance(r)
  \/ \E r \in Runs : StartExperiment(r) \/ RunExperiment(r) \/ CreateFails(r)
  \/ \E r, s \in Runs : Replay(r, s)
  \/ EditExperiment
  \/ \E r \in Runs :
        \/ MarkFails(r)
        \/ EvidenceFails(r)
        \/ RecordFails(r)
        \/ RecordFailureFails(r)
  \/ Crash

\* Threads go on; Scheduler.run ends (Scheduler!RunEnds).  Users, failures and
\* crashes are not fair.
Spec == Init /\ [][Next]_vars /\ \A r \in Runs : WF_vars(Advance(r))

------------------------------------------------------------------------------
(* What readers of a run get: get_evidence, explain, compare.                *)

Ready(r) == row[r].evidence

\* The status explain reports: of the bundle if there is evidence.
ExplainedStatus(r) == IF Ready(r) THEN bundle[r] ELSE row[r].status

------------------------------------------------------------------------------
(* Properties.                                                               *)

\* Every variable stays in its type.
RunTypeOK ==
  /\ row \in [Runs -> [status : RowStatuses, evidence : BOOLEAN]]
  /\ pc \in [Runs -> Stages]
  /\ pooled \subseteq Runs
  /\ source \in [Runs -> Runs \cup {NoRun}]
  /\ recorded \in [Runs -> 0 .. NotLoaded]
  /\ outcome \in [Runs -> Outcomes \cup {"none"}]
  /\ bundle \in [Runs -> Outcomes \cup {"none"}]
  /\ todo \in [Runs -> SUBSET Digests]
  /\ writing \in [Runs -> Digests \cup {NoDigest}]
  /\ blob \in [Digests -> {"absent", "empty", "whole"}]
  /\ document \in 0 .. MaxEdits
  /\ faults \in 0 .. MaxFaults
  /\ crashes \in 0 .. MaxCrashes

\* A row that names evidence names evidence that is complete, and claims what
\* the bundle says or a failure; and no verdict but "failed" is without
\* evidence: after any failure of the database, of the disk or of the process,
\* and in the middle of every other run.  Then get_evidence, explain, compare
\* and replay find their files.
RowBacked ==
  \A r \in Runs :
    /\ Ready(r) => /\ bundle[r] # "none"
                   /\ recorded[r] # NotLoaded
                   /\ row[r].status \in {ExplainedStatus(r), "failed"}
    /\ row[r].status \in Decisions \ {"failed"} => Ready(r)

\* A replay runs the experiment recorded with the run it repeats, whatever
\* happened to the document in the workspace and however late it starts.
ReplayRepeatsExperiment ==
  \A r \in Runs : source[r] # NoRun /\ recorded[r] # NotLoaded =>
    recorded[r] = recorded[source[r]]

\* Without failures and crashes every digest a bundle names is in the store,
\* or another run is about to complete its file.
BundleResolves ==
  faults = 0 /\ crashes = 0 =>
    \A r \in Runs : bundle[r] # "none" =>
      \A d \in Content[r] : blob[d] = "whole" \/ \E q \in Runs : writing[q] = d

\* The rows keep the promises of RunLifecycle.
Lifecycle == INSTANCE RunLifecycle WITH life <- row
LifecycleSpec == Lifecycle!Spec

\* Every run whose row appears is decided, unless a call failed or the process
\* ended: the executor's queue does not starve a run, and no path through
\* _execute leaves the row behind.
RunsAreDecided ==
  \A r \in Runs :
    row[r].status = "queued" ~>
      (row[r].status \in Decisions \/ faults > 0 \/ crashes > 0)
==============================================================================
