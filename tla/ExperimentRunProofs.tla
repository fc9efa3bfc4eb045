-------------------------- MODULE ExperimentRunProofs --------------------------
(***************************************************************************)
(* The rows of runs, for any number of runs, threads, edits, failures of   *)
(* the database or the disk and ends of the process.                       *)
(***************************************************************************)
EXTENDS ExperimentRun, FiniteSetTheorems, WellFoundedInduction, TLAPS

------------------------------------------------------------------------------
(* The inductive invariant.                                                  *)

Loaded(r) == recorded[r] \in 0 .. MaxEdits

Simulated(r) == Loaded(r) /\ outcome[r] \in Outcomes

Undecided(r) == row[r].status \in {"absent", "queued", "running"} /\ ~row[r].evidence

Running(r) == row[r].status = "running" /\ ~row[r].evidence

Failed(r) == row[r].status = "failed" /\ ~row[r].evidence

\* The row names evidence, which is whole.
Backed(r) ==
  /\ Simulated(r)
  /\ bundle[r] = outcome[r]
  /\ row[r].evidence
  /\ row[r].status \in {outcome[r], "failed"}

\* What the row and the files of a run show at each place of its thread.
StageOK(r) ==
  /\ pc[r] = "unborn" =>
       row[r].status = "absent" /\ ~row[r].evidence /\ source[r] = NoRun
         /\ recorded[r] = NotLoaded
  /\ pc[r] = "submitted" => row[r].status = "queued" /\ ~row[r].evidence
  /\ pc[r] \in {"load", "simulate", "put", "fill", "record"} => Running(r)
  /\ pc[r] = "simulate" => Loaded(r)
  /\ pc[r] \in {"put", "fill", "record"} => Simulated(r)
  /\ pc[r] = "record" => bundle[r] = outcome[r]
  /\ pc[r] = "excuse" => Running(r) \/ Backed(r)
  /\ pc[r] = "ended" => Undecided(r) \/ Failed(r) \/ Backed(r)

StagesOK == \A r \in Runs : StageOK(r)

\* A replay repeats a run whose row names its evidence.
Sourced ==
  \A r \in Runs : source[r] # NoRun =>
    /\ source[r] \in Runs /\ row[source[r]].evidence
    /\ recorded[r] \in {NotLoaded, recorded[source[r]]}

RunInv == RunTypeOK /\ StagesOK /\ Sourced

USE DEF Decisions, RowStatuses, NotLoaded, Executing, Stages

------------------------------------------------------------------------------

\* Before the first request nothing is recorded.
LEMMA InitRunInv == Init => RunInv
<1> SUFFICES ASSUME Init PROVE RunInv
  OBVIOUS
<1>1. RunTypeOK
  BY RunBoundsAssumption DEF Init, RunTypeOK
<1>2. StagesOK
  BY DEF Init, StagesOK, StageOK
<1>3. Sourced
  BY DEF Init, Sourced
<1> QED
  BY <1>1, <1>2, <1>3 DEF RunInv

\* The types: a status is recorded only of a run that was simulated.
LEMMA TypeStep == RunInv /\ [Next]_vars => RunTypeOK'
<1> SUFFICES ASSUME RunInv, [Next]_vars PROVE RunTypeOK'
  OBVIOUS
<1> USE RunBoundsAssumption, OutcomesAssumption, ContentAssumption, RunsAssumption
   DEF RunInv, RunTypeOK, StagesOK, StageOK, Simulated
<1>1. ASSUME NEW r \in Runs, MarkRunning(r) PROVE RunTypeOK'
  BY <1>1 DEF MarkRunning, UpdateRun, Goto, Scheduled, casVars, envVars
<1>2. ASSUME NEW r \in Runs, LoadDocuments(r) PROVE RunTypeOK'
  <2>1. document \in 0 .. NotLoaded /\ \A q \in Runs : recorded[q] \in 0 .. NotLoaded
    OBVIOUS
  <2>2. ExperimentOf(r) \in 0 .. NotLoaded
    <3>1. CASE source[r] = NoRun
      BY <2>1, <3>1 DEF ExperimentOf
    <3>2. CASE source[r] # NoRun
      <4>1. source[r] \in Runs
        BY <3>2
      <4> QED
        BY <2>1, <3>2, <4>1 DEF ExperimentOf
    <3> QED
      BY <3>1, <3>2
  <2> QED
    BY <1>2, <2>2 DEF LoadDocuments, Goto, casVars, envVars
<1>3. ASSUME NEW r \in Runs, DocumentsRefused(r) PROVE RunTypeOK'
  BY <1>3 DEF DocumentsRefused, Goto, casVars, envVars
<1>4. ASSUME NEW r \in Runs, Simulate(r) PROVE RunTypeOK'
  BY <1>4 DEF Simulate, Goto, envVars
<1>5. ASSUME NEW r \in Runs, NEW d \in Digests, PutFinds(r, d) PROVE RunTypeOK'
  BY <1>5 DEF PutFinds, runVars, envVars
<1>6. ASSUME NEW r \in Runs, NEW d \in Digests, PutMisses(r, d) PROVE RunTypeOK'
  BY <1>6 DEF PutMisses, runVars, envVars
<1>7. ASSUME NEW r \in Runs, PutOpens(r) PROVE RunTypeOK'
  BY <1>7 DEF PutOpens, Goto, envVars
<1>8. ASSUME NEW r \in Runs, PutFills(r) PROVE RunTypeOK'
  BY <1>8 DEF PutFills, Goto, envVars
<1>9. ASSUME NEW r \in Runs, WriteBundle(r) PROVE RunTypeOK'
  BY <1>9 DEF WriteBundle, Goto, casVars, envVars
<1>10. ASSUME NEW r \in Runs, RecordOutcome(r) PROVE RunTypeOK'
  BY <1>10 DEF RecordOutcome, UpdateRun, Goto, casVars, envVars
<1>11. ASSUME NEW r \in Runs, RecordFailure(r) PROVE RunTypeOK'
  BY <1>11 DEF RecordFailure, UpdateRun, Goto, casVars, envVars
<1>12. ASSUME NEW r \in Runs, StartExperiment(r) PROVE RunTypeOK'
  BY <1>12 DEF StartExperiment, IsNext, CreateRun, Goto, casVars, envVars
<1>13. ASSUME NEW r \in Runs, RunExperiment(r) PROVE RunTypeOK'
  BY <1>13 DEF RunExperiment, IsNext, CreateRun, Goto, casVars, envVars
<1>14. ASSUME NEW r \in Runs, CreateFails(r) PROVE RunTypeOK'
  <2>1. CASE CreateRun(r)
    BY <1>14, <2>1 DEF CreateFails, IsNext, Faulty, CreateRun, Goto, casVars
  <2>2. CASE UNCHANGED row
    BY <1>14, <2>2 DEF CreateFails, IsNext, Faulty, CreateRun, Goto, casVars
  <2> QED
    BY <1>14, <2>1, <2>2 DEF CreateFails
<1>15. ASSUME NEW r \in Runs, NEW s \in Runs, Replay(r, s) PROVE RunTypeOK'
  BY <1>15 DEF Replay, IsNext, CreateRun, Goto, casVars, envVars
<1>16. ASSUME EditExperiment PROVE RunTypeOK'
  BY <1>16 DEF EditExperiment, runVars, casVars
<1>17. ASSUME NEW r \in Runs, MarkFails(r) PROVE RunTypeOK'
  BY <1>17 DEF MarkFails, Scheduled, Faulty, UpdateRun, Goto, casVars
<1>18. ASSUME NEW r \in Runs, EvidenceFails(r) PROVE RunTypeOK'
  BY <1>18 DEF EvidenceFails, Faulty, Goto
<1>19. ASSUME NEW r \in Runs, RecordFails(r) PROVE RunTypeOK'
  <2>1. row' \in [Runs -> [status : RowStatuses, evidence : BOOLEAN]]
    <3>1. outcome[r] \in Outcomes
      BY <1>19 DEF RecordFails
    <3>2. CASE row' = [row EXCEPT ![r] = [status |-> outcome[r], evidence |-> TRUE]]
      BY <3>1, <3>2
    <3>3. CASE row' = row
      BY <3>3
    <3> QED
      BY <1>19, <3>2, <3>3 DEF RecordFails, UpdateRun
  <2>2. /\ faults < MaxFaults /\ faults' = faults + 1 /\ pc' = [pc EXCEPT ![r] = "excuse"]
        /\ UNCHANGED <<pooled, source, recorded, outcome, bundle, casVars, document, crashes>>
    BY <1>19 DEF RecordFails, Faulty, Goto
  <2> QED
    BY <2>1, <2>2 DEF casVars
<1>20. ASSUME NEW r \in Runs, RecordFailureFails(r) PROVE RunTypeOK'
  BY <1>20 DEF RecordFailureFails, Faulty, UpdateRun, Goto, casVars
<1>21. ASSUME Crash PROVE RunTypeOK'
  BY <1>21 DEF Crash
<1>22. CASE UNCHANGED vars
  BY <1>22 DEF vars, runVars, casVars, envVars
<1> QED
  BY <1>1, <1>2, <1>3, <1>4, <1>5, <1>6, <1>7, <1>8, <1>9, <1>10, <1>11, <1>12, <1>13,
     <1>14, <1>15, <1>16, <1>17, <1>18, <1>19, <1>20, <1>21, <1>22
     DEF Next, Advance

\* A run whose row names its evidence has loaded its document.
LEMMA EvidenceLoaded ==
  ASSUME RunTypeOK, StagesOK, NEW q \in Runs, row[q].evidence
  PROVE  recorded[q] \in 0 .. MaxEdits
<1>1. StageOK(q)
  BY DEF StagesOK
<1>2. pc[q] \in Stages
  BY DEF RunTypeOK
<1>3. pc[q] \in {"excuse", "ended"}
  BY <1>1, <1>2 DEF StageOK, Running
<1>4. Backed(q)
  BY <1>1, <1>3 DEF StageOK, Running, Undecided, Failed
<1> QED
  BY <1>4 DEF Backed, Simulated, Loaded

\* Every place of a thread finds the row and the files as the place before left them.
LEMMA StageStep == RunInv /\ [Next]_vars => StagesOK'
<1> SUFFICES ASSUME RunInv, [Next]_vars PROVE StagesOK'
  OBVIOUS
<1>0. \A q \in Runs : row[q].evidence => recorded[q] \in 0 .. MaxEdits
  BY EvidenceLoaded DEF RunInv
<1> USE RunsAssumption, OutcomesAssumption, RunBoundsAssumption
   DEF RunInv, RunTypeOK, StagesOK, StageOK, Simulated, Loaded, Undecided, Running,
       Failed, Backed
<1>1. ASSUME NEW r \in Runs, MarkRunning(r) PROVE StagesOK'
  <2>1. /\ pc[r] = "submitted" /\ ~row[r].evidence
        /\ pc' = [pc EXCEPT ![r] = "load"] /\ UNCHANGED <<source, recorded, outcome, bundle>>
    BY <1>1 DEF MarkRunning, Scheduled, Goto
  <2>2. /\ row'[r].status = "running" /\ ~row'[r].evidence
        /\ \A q \in Runs : q # r => row'[q] = row[q]
    <3>1. row' = [row EXCEPT ![r] = [status |-> "running",
                                     evidence |-> row[r].evidence \/ FALSE]]
      BY <1>1 DEF MarkRunning, UpdateRun
    <3> QED
      BY <2>1, <3>1
  <2>3. StageOK(r)'
    BY <2>1, <2>2
  <2>4. \A q \in Runs : q # r => StageOK(q)'
    BY <2>1, <2>2
  <2> QED
    BY <2>3, <2>4
<1>2. ASSUME NEW r \in Runs, LoadDocuments(r) PROVE StagesOK'
  <2>1. ExperimentOf(r) \in 0 .. MaxEdits
    <3>1. CASE source[r] = NoRun
      BY <3>1 DEF ExperimentOf
    <3>2. CASE source[r] # NoRun
      <4>1. source[r] \in Runs /\ row[source[r]].evidence
        BY <3>2 DEF Sourced
      <4>2. recorded[source[r]] \in 0 .. MaxEdits
        BY <1>0, <4>1
      <4> QED
        BY <3>2, <4>2 DEF ExperimentOf
    <3> QED
      BY <3>1, <3>2
  <2>2. ~row[r].evidence
    BY <1>2 DEF LoadDocuments
  <2> QED
    BY <1>2, <2>1, <2>2 DEF LoadDocuments, Goto, casVars, envVars
<1>3. ASSUME NEW r \in Runs, DocumentsRefused(r) PROVE StagesOK'
  BY <1>3 DEF DocumentsRefused, Goto, casVars, envVars
<1>4. ASSUME NEW r \in Runs, Simulate(r) PROVE StagesOK'
  BY <1>4 DEF Simulate, Goto, envVars
<1>5. ASSUME NEW r \in Runs, NEW d \in Digests, PutFinds(r, d) PROVE StagesOK'
  BY <1>5 DEF PutFinds, runVars, envVars
<1>6. ASSUME NEW r \in Runs, NEW d \in Digests, PutMisses(r, d) PROVE StagesOK'
  BY <1>6 DEF PutMisses, runVars, envVars
<1>7. ASSUME NEW r \in Runs, PutOpens(r) PROVE StagesOK'
  BY <1>7 DEF PutOpens, Goto, envVars
<1>8. ASSUME NEW r \in Runs, PutFills(r) PROVE StagesOK'
  BY <1>8 DEF PutFills, Goto, envVars
<1>9. ASSUME NEW r \in Runs, WriteBundle(r) PROVE StagesOK'
  BY <1>9 DEF WriteBundle, Goto, casVars, envVars
<1>10. ASSUME NEW r \in Runs, RecordOutcome(r) PROVE StagesOK'
  <2>1. /\ outcome[r] \in Outcomes
        /\ row' = [row EXCEPT ![r] = [status |-> outcome[r], evidence |-> TRUE]]
    BY <1>10 DEF RecordOutcome, UpdateRun
  <2>2. /\ row'[r].status = outcome[r] /\ row'[r].evidence
        /\ \A q \in Runs : q # r => row'[q] = row[q]
    BY <2>1
  <2>3. /\ pc' = [pc EXCEPT ![r] = "ended"]
        /\ pc[r] = "record" /\ UNCHANGED <<source, recorded, outcome, bundle>>
    BY <1>10 DEF RecordOutcome, Goto
  <2>4. StageOK(r)'
    BY <2>1, <2>2, <2>3
  <2>5. \A q \in Runs : q # r => StageOK(q)'
    BY <2>2, <2>3
  <2> QED
    BY <2>4, <2>5
<1>11. ASSUME NEW r \in Runs, RecordFailure(r) PROVE StagesOK'
  BY <1>11 DEF RecordFailure, UpdateRun, Goto, casVars, envVars
<1>12. ASSUME NEW r \in Runs, StartExperiment(r) PROVE StagesOK'
  BY <1>12 DEF StartExperiment, IsNext, CreateRun, Goto, casVars, envVars
<1>13. ASSUME NEW r \in Runs, RunExperiment(r) PROVE StagesOK'
  BY <1>13 DEF RunExperiment, IsNext, CreateRun, Goto, casVars, envVars
<1>14. ASSUME NEW r \in Runs, CreateFails(r) PROVE StagesOK'
  BY <1>14 DEF CreateFails, IsNext, Faulty, CreateRun, Goto, casVars
<1>15. ASSUME NEW r \in Runs, NEW s \in Runs, Replay(r, s) PROVE StagesOK'
  BY <1>15 DEF Replay, IsNext, CreateRun, Goto, casVars, envVars
<1>16. ASSUME EditExperiment PROVE StagesOK'
  BY <1>16 DEF EditExperiment, runVars, casVars
<1>17. ASSUME NEW r \in Runs, MarkFails(r) PROVE StagesOK'
  BY <1>17 DEF MarkFails, Scheduled, Faulty, UpdateRun, Goto, casVars
<1>18. ASSUME NEW r \in Runs, EvidenceFails(r) PROVE StagesOK'
  BY <1>18 DEF EvidenceFails, Faulty, Goto
<1>19. ASSUME NEW r \in Runs, RecordFails(r) PROVE StagesOK'
  <2>1. CASE UpdateRun(r, outcome[r], TRUE)
    <3>1. /\ outcome[r] \in Outcomes
          /\ row' = [row EXCEPT ![r] = [status |-> outcome[r], evidence |-> TRUE]]
      BY <1>19, <2>1 DEF RecordFails, UpdateRun
    <3>2. /\ row'[r].status = outcome[r] /\ row'[r].evidence
          /\ \A q \in Runs : q # r => row'[q] = row[q]
      BY <3>1
    <3>3. /\ pc' = [pc EXCEPT ![r] = "excuse"]
          /\ pc[r] = "record" /\ UNCHANGED <<source, recorded, outcome, bundle>>
      BY <1>19 DEF RecordFails, Goto
    <3>4. StageOK(r)'
      BY <3>1, <3>2, <3>3
    <3>5. \A q \in Runs : q # r => StageOK(q)'
      BY <3>2, <3>3
    <3> QED
      BY <3>4, <3>5
  <2>2. CASE UNCHANGED row
    BY <1>19, <2>2 DEF RecordFails, Faulty, Goto, casVars
  <2> QED
    BY <1>19, <2>1, <2>2 DEF RecordFails
<1>20. ASSUME NEW r \in Runs, RecordFailureFails(r) PROVE StagesOK'
  BY <1>20 DEF RecordFailureFails, Faulty, UpdateRun, Goto, casVars
<1>21. ASSUME Crash PROVE StagesOK'
  BY <1>21 DEF Crash
<1>22. CASE UNCHANGED vars
  BY <1>22 DEF vars, runVars, casVars, envVars
<1> QED
  BY <1>1, <1>2, <1>3, <1>4, <1>5, <1>6, <1>7, <1>8, <1>9, <1>10, <1>11, <1>12, <1>13,
     <1>14, <1>15, <1>16, <1>17, <1>18, <1>19, <1>20, <1>21, <1>22
     DEF Next, Advance

\* A step leaves the rows alone or writes one: by the insertion, as running, with the
\* status the scheduler ended with, or as failed.
LEMMA RowWritten ==
  ASSUME Next
  PROVE  \/ UNCHANGED row
         \/ \E r \in Runs :
              \/ IsNext(r) /\ CreateRun(r)
              \/ Scheduled(r) /\ UpdateRun(r, "running", FALSE)
              \/ pc[r] = "record" /\ UpdateRun(r, outcome[r], TRUE)
              \/ pc[r] = "excuse" /\ UpdateRun(r, "failed", FALSE)
<1> DEFINE Writes(r) ==
             \/ IsNext(r) /\ CreateRun(r)
             \/ Scheduled(r) /\ UpdateRun(r, "running", FALSE)
             \/ pc[r] = "record" /\ UpdateRun(r, outcome[r], TRUE)
             \/ pc[r] = "excuse" /\ UpdateRun(r, "failed", FALSE)
<1>1. ASSUME NEW r \in Runs, Advance(r)
      PROVE  UNCHANGED row \/ Writes(r)
  BY <1>1 DEF Advance, MarkRunning, LoadDocuments, DocumentsRefused, Simulate, PutFinds,
              PutMisses, PutOpens, PutFills, WriteBundle, RecordOutcome, RecordFailure, runVars
<1>2. ASSUME NEW r \in Runs, StartExperiment(r) \/ RunExperiment(r) \/ CreateFails(r)
      PROVE  UNCHANGED row \/ Writes(r)
  BY <1>2 DEF StartExperiment, RunExperiment, CreateFails
<1>3. ASSUME NEW r \in Runs, NEW s \in Runs, Replay(r, s)
      PROVE  Writes(r)
  BY <1>3 DEF Replay
<1>4. ASSUME NEW r \in Runs,
             MarkFails(r) \/ EvidenceFails(r) \/ RecordFails(r) \/ RecordFailureFails(r)
      PROVE  UNCHANGED row \/ Writes(r)
  BY <1>4 DEF MarkFails, EvidenceFails, RecordFails, RecordFailureFails
<1>5. ASSUME EditExperiment \/ Crash PROVE UNCHANGED row
  BY <1>5 DEF EditExperiment, Crash, runVars
<1> HIDE DEF Writes
<1>6. UNCHANGED row \/ \E r \in Runs : Writes(r)
  <2>1. CASE \E r \in Runs : Advance(r)
    BY <1>1, <2>1
  <2>2. CASE \E r \in Runs : StartExperiment(r) \/ RunExperiment(r) \/ CreateFails(r)
    BY <1>2, <2>2
  <2>3. CASE \E r, s \in Runs : Replay(r, s)
    BY <1>3, <2>3
  <2>4. CASE \E r \in Runs : \/ MarkFails(r) \/ EvidenceFails(r)
                             \/ RecordFails(r) \/ RecordFailureFails(r)
    BY <1>4, <2>4
  <2> QED
    BY <1>5, <2>1, <2>2, <2>3, <2>4 DEF Next
<1> QED
  BY <1>6 DEF Writes

\* Evidence is never taken from a row.
LEMMA EvidenceKept ==
  ASSUME RunTypeOK, Next, NEW q \in Runs, row[q].evidence
  PROVE  row'[q].evidence
<1>1. row \in [Runs -> [status : RowStatuses, evidence : BOOLEAN]]
  BY DEF RunTypeOK
<1>2. ASSUME NEW r \in Runs, CreateRun(r) PROVE row'[q].evidence
  BY <1>1, <1>2 DEF CreateRun
<1>3. ASSUME NEW r \in Runs, NEW status, NEW evidence \in BOOLEAN,
             UpdateRun(r, status, evidence)
      PROVE  row'[q].evidence
  <2>1. CASE r = q
    BY <1>1, <1>3, <2>1 DEF UpdateRun
  <2>2. CASE r # q
    BY <1>1, <1>3, <2>2 DEF UpdateRun
  <2> QED
    BY <2>1, <2>2
<1> QED
  BY <1>2, <1>3, RowWritten

\* A replay records what its source recorded, and what is recorded does not change.
LEMMA SourcedStep == RunInv /\ [Next]_vars => Sourced'
<1> SUFFICES ASSUME RunInv, [Next]_vars PROVE Sourced'
  OBVIOUS
<1> USE DEF Sourced
<1>1. Sourced /\ RunTypeOK /\ StagesOK
  BY DEF RunInv
<1>2. /\ source \in [Runs -> Runs \cup {NoRun}]
      /\ recorded \in [Runs -> 0 .. NotLoaded]
      /\ row \in [Runs -> [status : RowStatuses, evidence : BOOLEAN]]
  BY <1>1 DEF RunTypeOK
<1>3. \A q \in Runs : row[q].evidence => row'[q].evidence
  BY <1>1, EvidenceKept DEF vars, runVars
<1>4. \A q \in Runs : row[q].evidence => pc[q] \in {"excuse", "ended"}
  BY <1>1, <1>2 DEF RunTypeOK, StagesOK, StageOK, Running
<1>5. CASE UNCHANGED <<source, recorded>>
  BY <1>1, <1>2, <1>3, <1>5
<1>6. ASSUME NEW r \in Runs, LoadDocuments(r) PROVE Sourced'
  <2>1. /\ UNCHANGED <<row, source>> /\ pc[r] = "load"
        /\ recorded' = [recorded EXCEPT ![r] = ExperimentOf(r)]
    BY <1>6 DEF LoadDocuments
  <2>2. ASSUME NEW q \in Runs, source[q] # NoRun
        PROVE  recorded'[q] \in {NotLoaded, recorded'[source[q]]}
    <3>1. source[q] \in Runs /\ source[q] # r
      BY <1>1, <1>4, <2>1, <2>2
    <3>2. recorded'[source[q]] = recorded[source[q]]
      BY <1>2, <2>1, <3>1
    <3>3. CASE q = r
      BY <1>2, <2>1, <2>2, <3>2, <3>3 DEF ExperimentOf
    <3>4. CASE q # r
      BY <1>1, <1>2, <2>1, <2>2, <3>2, <3>4
    <3> QED
      BY <3>3, <3>4
  <2> QED
    BY <1>1, <2>1, <2>2
<1>7. ASSUME NEW r \in Runs, NEW s \in Runs, Replay(r, s) PROVE Sourced'
  <2>1. /\ row[s].evidence /\ pc[r] = "unborn"
        /\ source' = [source EXCEPT ![r] = s] /\ UNCHANGED recorded
    BY <1>7 DEF Replay, IsNext
  <2>2. recorded[r] = NotLoaded
    BY <1>1, <2>1 DEF StagesOK, StageOK
  <2>3. ASSUME NEW q \in Runs, source'[q] # NoRun
        PROVE  /\ source'[q] \in Runs /\ row'[source'[q]].evidence
               /\ recorded'[q] \in {NotLoaded, recorded'[source'[q]]}
    <3>1. CASE q = r
      BY <1>2, <1>3, <2>1, <2>2, <3>1
    <3>2. CASE q # r
      BY <1>1, <1>2, <1>3, <2>1, <2>3, <3>2
    <3> QED
      BY <3>1, <3>2
  <2> QED
    BY <2>3
<1>8. ASSUME NEW r \in Runs, Advance(r), ~LoadDocuments(r)
      PROVE  UNCHANGED <<source, recorded>>
  BY <1>8 DEF Advance, MarkRunning, DocumentsRefused, Simulate, PutFinds, PutMisses,
              PutOpens, PutFills, WriteBundle, RecordOutcome, RecordFailure, runVars
<1>9. ASSUME NEW r \in Runs, StartExperiment(r) \/ RunExperiment(r) \/ CreateFails(r)
      PROVE  UNCHANGED <<source, recorded>>
  BY <1>9 DEF StartExperiment, RunExperiment, CreateFails
<1>10. ASSUME NEW r \in Runs,
              MarkFails(r) \/ EvidenceFails(r) \/ RecordFails(r) \/ RecordFailureFails(r)
       PROVE  UNCHANGED <<source, recorded>>
  BY <1>10 DEF MarkFails, EvidenceFails, RecordFails, RecordFailureFails
<1>11. ASSUME EditExperiment \/ Crash PROVE UNCHANGED <<source, recorded>>
  BY <1>11 DEF EditExperiment, Crash, runVars
<1>12. UNCHANGED vars => UNCHANGED <<source, recorded>>
  BY DEF vars, runVars
<1> HIDE DEF Sourced
<1> QED
  BY <1>5, <1>6, <1>7, <1>8, <1>9, <1>10, <1>11, <1>12 DEF Next

\* Each step moves the row of each run along one edge of RunLifecycle, or not at all.
LEMMA RowsMove ==
  RunInv /\ [Next]_vars =>
    \A q \in Runs : row'[q] = row[q] \/ Lifecycle!Moves(row[q], row'[q])
<1> SUFFICES ASSUME RunInv, [Next]_vars, NEW q \in Runs
             PROVE  row'[q] = row[q] \/ Lifecycle!Moves(row[q], row'[q])
  OBVIOUS
<1> DEFINE Moved == row'[q] = row[q] \/ Lifecycle!Moves(row[q], row'[q])
           To(status, evidence) == row' = [row EXCEPT ![q] = Lifecycle!Life(status, evidence)]
<1>1. /\ row \in [Runs -> [status : RowStatuses, evidence : BOOLEAN]]
      /\ StageOK(q)
      /\ Outcomes \subseteq Lifecycle!Decisions
  BY OutcomesAssumption DEF RunInv, RunTypeOK, StagesOK, Lifecycle!Decisions
<1>2. ASSUME NEW r \in Runs, r # q, NEW written, row' = [row EXCEPT ![r] = written]
      PROVE  row'[q] = row[q]
  BY <1>1, <1>2
<1>3. \A status, evidence : To(status, evidence) => row'[q] = Lifecycle!Life(status, evidence)
  BY <1>1
<1>4. row[q] = Lifecycle!Life(row[q].status, row[q].evidence)
  BY <1>1 DEF Lifecycle!Life
<1>5. ASSUME IsNext(q), CreateRun(q) PROVE Moved
  <2>1. row[q] = Lifecycle!Life("absent", FALSE)
    BY <1>1, <1>4, <1>5 DEF IsNext, StageOK
  <2>2. row'[q].status = "queued" /\ row'[q].evidence = row[q].evidence
    BY <1>1, <1>5 DEF CreateRun
  <2>3. row' \in [Runs -> [status : RowStatuses, evidence : BOOLEAN]]
    BY TypeStep DEF RunTypeOK
  <2>4. row'[q] = Lifecycle!Life("queued", FALSE)
    <3>1. row'[q] = [status |-> row'[q].status, evidence |-> row'[q].evidence]
      BY <2>3
    <3>2. row[q].evidence = FALSE
      BY <2>1 DEF Lifecycle!Life
    <3> QED
      BY <2>2, <3>1, <3>2 DEF Lifecycle!Life
  <2> QED
    BY <2>1, <2>4 DEF Lifecycle!Moves, Lifecycle!Submitted
<1>6. ASSUME Scheduled(q), UpdateRun(q, "running", FALSE) PROVE Moved
  <2>1. row[q] = Lifecycle!Life("queued", FALSE)
    BY <1>1, <1>4, <1>6 DEF Scheduled, StageOK
  <2>2. (row[q].evidence \/ FALSE) = FALSE
    BY <2>1 DEF Lifecycle!Life
  <2>3. To("running", FALSE)
    BY <1>6, <2>2 DEF UpdateRun, Lifecycle!Life
  <2> QED
    BY <1>3, <2>1, <2>3 DEF Lifecycle!Moves, Lifecycle!Started
<1>7. ASSUME pc[q] = "record", UpdateRun(q, outcome[q], TRUE) PROVE Moved
  <2>1. row[q] = Lifecycle!Life("running", FALSE) /\ outcome[q] \in Lifecycle!Decisions
    BY <1>1, <1>4, <1>7 DEF StageOK, Running, Simulated
  <2>2. To(outcome[q], TRUE)
    BY <1>7 DEF UpdateRun, Lifecycle!Life
  <2> QED
    BY <1>3, <2>1, <2>2 DEF Lifecycle!Moves, Lifecycle!Decided
<1>8. ASSUME pc[q] = "excuse", UpdateRun(q, "failed", FALSE) PROVE Moved
  <2>1. CASE Running(q)
    <3>1. row[q] = Lifecycle!Life("running", FALSE) /\ To("failed", FALSE)
      BY <1>1, <1>4, <1>8, <2>1 DEF UpdateRun, Running, Lifecycle!Life
    <3> QED
      BY <1>3, <3>1 DEF Lifecycle!Moves, Lifecycle!Abandoned
  <2>2. CASE Backed(q)
    <3>1. /\ row[q].status \in Lifecycle!Decisions
          /\ row[q] = Lifecycle!Life(row[q].status, TRUE)
      BY <1>1, <1>4, <2>2 DEF Backed, Simulated, Lifecycle!Decisions
    <3>2. To("failed", TRUE)
      BY <1>8, <2>2 DEF UpdateRun, Backed, Lifecycle!Life
    <3> QED
      BY <1>3, <3>1, <3>2 DEF Lifecycle!Moves, Lifecycle!Withdrawn
  <2> QED
    BY <1>1, <1>8, <2>1, <2>2 DEF StageOK
<1>9. CASE UNCHANGED row
  BY <1>9
<1>10. CASE Next
  <2>1. CASE \E r \in Runs \ {q} :
                CreateRun(r) \/ \E status, evidence : UpdateRun(r, status, evidence)
    BY <1>2, <2>1 DEF CreateRun, UpdateRun
  <2> QED
    BY <1>5, <1>6, <1>7, <1>8, <1>9, <1>10, <2>1, RowWritten
<1> QED
  BY <1>9, <1>10 DEF vars, runVars

------------------------------------------------------------------------------

\* RunInv is preserved.
LEMMA RunInvStep == RunInv /\ [Next]_vars => RunInv'
  BY TypeStep, StageStep, SourcedStep DEF RunInv

\* The inductive invariant: types, what each place of _execute has written so far, and
\* whence a replay takes its experiment.
THEOREM RunsCorrect == Spec => []RunInv
<1>1. Init => RunInv
  BY InitRunInv
<1>2. RunInv /\ [Next]_vars => RunInv'
  BY RunInvStep
<1> QED
  BY <1>1, <1>2, PTL DEF Spec

\* Every variable of the service stays in its type.
THEOREM RunTypeCorrect == Spec => []RunTypeOK
<1>1. RunInv => RunTypeOK
  BY DEF RunInv
<1> QED
  BY <1>1, RunsCorrect, PTL

\* A row names evidence that is complete and that says what the row says, or the row
\* says "failed"; no other verdict is without evidence.
THEOREM RowsBacked == Spec => []RowBacked
<1>1. RunInv => RowBacked
  <2> SUFFICES ASSUME RunInv, NEW r \in Runs
               PROVE  /\ Ready(r) => /\ bundle[r] # "none"
                                     /\ recorded[r] # NotLoaded
                                     /\ row[r].status \in {ExplainedStatus(r), "failed"}
                      /\ row[r].status \in Decisions \ {"failed"} => Ready(r)
    BY DEF RowBacked
  <2>1. pc[r] \in Stages /\ StageOK(r)
    BY DEF RunInv, RunTypeOK, StagesOK
  <2>2. Backed(r) \/ Undecided(r) \/ Failed(r)
    BY <2>1 DEF StageOK, Undecided, Running
  <2>3. CASE Backed(r)
    BY <2>3, OutcomesAssumption, RunBoundsAssumption
       DEF Backed, Simulated, Loaded, Ready, ExplainedStatus
  <2>4. CASE Undecided(r) \/ Failed(r)
    BY <2>4 DEF Undecided, Failed, Ready
  <2> QED
    BY <2>2, <2>3, <2>4
<1> QED
  BY <1>1, RunsCorrect, PTL

\* A replay runs the experiment recorded with the run it repeats.
THEOREM ReplaysRepeat == Spec => []ReplayRepeatsExperiment
<1>1. RunInv => ReplayRepeatsExperiment
  BY DEF RunInv, Sourced, ReplayRepeatsExperiment
<1> QED
  BY <1>1, RunsCorrect, PTL

\* The rows behave as RunLifecycle says: a verdict comes with its evidence, evidence is
\* never taken back, and a verdict changes to "failed" only.
THEOREM RowsImplementLifecycle == Spec => LifecycleSpec
<1>1. Init => Lifecycle!Init
  BY DEF Init, Lifecycle!Init, Lifecycle!Life
<1>2. RunInv /\ [Next]_vars => [Lifecycle!Next]_row
  BY RowsMove DEF Lifecycle!Next
<1> QED
  BY <1>1, <1>2, RunsCorrect, PTL DEF Spec, LifecycleSpec, Lifecycle!Spec

------------------------------------------------------------------------------
(* The content-addressed store.                                              *)

BeingWritten(d) == \E q \in Runs : writing[q] = d

\* The run has the digest behind it: in its bundle, or found or missed while it puts.
PutBy(r, d) == bundle[r] # "none" \/ (pc[r] \in {"put", "fill"} /\ d \notin todo[r])

\* A file that was opened but not written, and one a run relies on, has its writer.
DigestKept(d) ==
  /\ blob[d] = "empty" => BeingWritten(d)
  /\ \A r \in Runs : d \in Content[r] /\ PutBy(r, d) => blob[d] = "whole" \/ BeingWritten(d)

StoreKept == faults = 0 /\ crashes = 0 => \A d \in Digests : DigestKept(d)

StoreInv == RunInv /\ StoreKept

\* Nothing of the store or of a run's place in it changes.
LEMMA StoreUntouched ==
  ASSUME RunInv, NEW d \in Digests, DigestKept(d), UNCHANGED <<blob, writing, todo, bundle>>,
         \A r \in Runs : pc'[r] \in {"put", "fill"} => pc[r] \in {"put", "fill"}
  PROVE  DigestKept(d)'
<1>1. BeingWritten(d)' = BeingWritten(d)
  BY DEF BeingWritten
<1>2. \A r \in Runs : PutBy(r, d)' => PutBy(r, d)
  BY DEF PutBy
<1> QED
  BY <1>1, <1>2 DEF DigestKept

\* Without failures and crashes, every step of the store keeps what is relied on.
LEMMA StoreStep == StoreInv /\ [Next]_vars => StoreKept'
<1> SUFFICES ASSUME RunInv, StoreKept, [Next]_vars, faults' = 0, crashes' = 0,
                    NEW d \in Digests
             PROVE  DigestKept(d)'
  BY DEF StoreInv, StoreKept
<1> USE DEF Goto
<1>0. /\ pc \in [Runs -> Stages] /\ todo \in [Runs -> SUBSET Digests]
      /\ writing \in [Runs -> Digests \cup {NoDigest}]
      /\ bundle \in [Runs -> Outcomes \cup {"none"}]
      /\ blob \in [Digests -> {"absent", "empty", "whole"}]
      /\ faults \in Nat /\ crashes \in Nat /\ NoDigest \notin Digests
  BY NoDigestAssumption, RunBoundsAssumption DEF RunInv, RunTypeOK
<1>1. ASSUME faults = 0, crashes = 0 PROVE DigestKept(d)
  BY <1>1 DEF StoreKept
<1>2. CASE UNCHANGED vars
  <2>1. UNCHANGED <<blob, writing, todo, bundle, pc>> /\ faults = 0 /\ crashes = 0
    BY <1>2 DEF vars, runVars, casVars, envVars
  <2> QED
    BY <1>1, <2>1, StoreUntouched
<1>3. ASSUME NEW r \in Runs,
             \/ MarkRunning(r) \/ LoadDocuments(r) \/ DocumentsRefused(r)
             \/ RecordOutcome(r) \/ RecordFailure(r) \/ StartExperiment(r) \/ RunExperiment(r)
      PROVE  DigestKept(d)'
  <2>1. /\ UNCHANGED <<blob, writing, todo, bundle>> /\ faults = 0 /\ crashes = 0
        /\ \E stage \in Stages \ {"put", "fill"} : pc' = [pc EXCEPT ![r] = stage]
    BY <1>3 DEF MarkRunning, LoadDocuments, DocumentsRefused, RecordOutcome, RecordFailure,
                StartExperiment, RunExperiment, casVars, envVars
  <2>2. \A q \in Runs : pc'[q] \in {"put", "fill"} => pc[q] \in {"put", "fill"}
    BY <1>0, <2>1
  <2> QED
    BY <1>1, <2>1, <2>2, StoreUntouched
<1>4. ASSUME NEW r \in Runs, NEW s \in Runs, Replay(r, s) PROVE DigestKept(d)'
  <2>1. /\ UNCHANGED <<blob, writing, todo, bundle>> /\ faults = 0 /\ crashes = 0
        /\ \A q \in Runs : pc'[q] \in {"put", "fill"} => pc[q] \in {"put", "fill"}
    BY <1>0, <1>4 DEF Replay, casVars, envVars
  <2> QED
    BY <1>1, <2>1, StoreUntouched
<1>5. CASE EditExperiment
  <2>1. UNCHANGED <<blob, writing, todo, bundle, pc>> /\ faults = 0 /\ crashes = 0
    BY <1>5 DEF EditExperiment, runVars, casVars
  <2> QED
    BY <1>1, <2>1, StoreUntouched
<1>6. ASSUME NEW r \in Runs, Simulate(r) PROVE DigestKept(d)'
  <2>1. /\ UNCHANGED <<blob, writing, bundle>> /\ faults = 0 /\ crashes = 0
        /\ todo' = [todo EXCEPT ![r] = Content[r]] /\ pc' = [pc EXCEPT ![r] = "put"]
    BY <1>6 DEF Simulate, envVars
  <2>2. \A q \in Runs : d \in Content[q] /\ PutBy(q, d)' => PutBy(q, d)
    BY <1>0, <2>1 DEF PutBy
  <2>3. BeingWritten(d)' = BeingWritten(d)
    BY <2>1 DEF BeingWritten
  <2> QED
    BY <1>1, <2>1, <2>2, <2>3 DEF DigestKept
<1>7. ASSUME NEW r \in Runs, NEW f \in Digests, PutFinds(r, f) PROVE DigestKept(d)'
  <2>1. /\ UNCHANGED <<blob, writing, bundle, pc>> /\ faults = 0 /\ crashes = 0
        /\ todo' = [todo EXCEPT ![r] = @ \ {f}] /\ blob[f] # "absent"
    BY <1>7 DEF PutFinds, runVars, envVars
  <2>2. \A q \in Runs : PutBy(q, d)' => PutBy(q, d) \/ d = f
    BY <1>0, <2>1 DEF PutBy
  <2>3. BeingWritten(d)' = BeingWritten(d)
    BY <2>1 DEF BeingWritten
  <2>4. blob[d] \in {"absent", "empty", "whole"}
    BY <1>0
  <2> QED
    BY <1>1, <2>1, <2>2, <2>3, <2>4 DEF DigestKept
<1>8. ASSUME NEW r \in Runs, NEW f \in Digests, PutMisses(r, f) PROVE DigestKept(d)'
  <2>1. /\ UNCHANGED <<blob, bundle, pc>> /\ faults = 0 /\ crashes = 0
        /\ todo' = [todo EXCEPT ![r] = @ \ {f}] /\ writing[r] = NoDigest
        /\ writing' = [writing EXCEPT ![r] = f]
    BY <1>8 DEF PutMisses, runVars, envVars
  <2>2. \A q \in Runs : PutBy(q, d)' => PutBy(q, d) \/ d = f
    BY <1>0, <2>1 DEF PutBy
  <2>3. BeingWritten(d) \/ d = f => BeingWritten(d)'
    BY <1>0, <2>1 DEF BeingWritten
  <2> QED
    BY <1>1, <2>1, <2>2, <2>3 DEF DigestKept
<1>9. ASSUME NEW r \in Runs, PutOpens(r) PROVE DigestKept(d)'
  <2>1. /\ UNCHANGED <<todo, writing, bundle>> /\ faults = 0 /\ crashes = 0
        /\ writing[r] \in Digests /\ blob' = [blob EXCEPT ![writing[r]] = "empty"]
        /\ pc[r] = "put" /\ pc' = [pc EXCEPT ![r] = "fill"]
    BY <1>0, <1>9 DEF PutOpens, envVars
  <2>2. \A q \in Runs : PutBy(q, d)' => PutBy(q, d)
    BY <1>0, <2>1 DEF PutBy
  <2>3. BeingWritten(d)' = BeingWritten(d) /\ (d = writing[r] => BeingWritten(d))
    BY <2>1 DEF BeingWritten
  <2>4. d # writing[r] => blob'[d] = blob[d]
    BY <1>0, <2>1
  <2> QED
    BY <1>1, <2>1, <2>2, <2>3, <2>4 DEF DigestKept
<1>10. ASSUME NEW r \in Runs, PutFills(r) PROVE DigestKept(d)'
  <2>1. /\ UNCHANGED <<todo, bundle>> /\ faults = 0 /\ crashes = 0
        /\ blob' = [blob EXCEPT ![writing[r]] = "whole"]
        /\ writing' = [writing EXCEPT ![r] = NoDigest]
        /\ pc[r] = "fill" /\ pc' = [pc EXCEPT ![r] = "put"]
    BY <1>10 DEF PutFills, envVars
  <2>2. \A q \in Runs : PutBy(q, d)' => PutBy(q, d)
    BY <1>0, <2>1 DEF PutBy
  <2>3. CASE d = writing[r]
    <3>1. blob'[d] = "whole"
      BY <1>0, <2>1, <2>3
    <3> QED
      BY <3>1 DEF DigestKept
  <2>4. CASE d # writing[r]
    <3>1. BeingWritten(d) => BeingWritten(d)'
      BY <1>0, <2>1, <2>4 DEF BeingWritten
    <3>2. blob'[d] = blob[d]
      BY <1>0, <2>1, <2>4
    <3> QED
      BY <1>1, <2>1, <2>2, <3>1, <3>2 DEF DigestKept
  <2> QED
    BY <2>3, <2>4
<1>11. ASSUME NEW r \in Runs, WriteBundle(r) PROVE DigestKept(d)'
  <2>1. /\ UNCHANGED <<todo, writing, blob>> /\ faults = 0 /\ crashes = 0
        /\ pc[r] = "put" /\ todo[r] = {}
        /\ pc' = [pc EXCEPT ![r] = "record"]
        /\ bundle' = [bundle EXCEPT ![r] = outcome[r]]
    BY <1>11 DEF WriteBundle, casVars, envVars
  <2>2. \A q \in Runs : PutBy(q, d)' => PutBy(q, d)
    BY <1>0, <2>1 DEF PutBy
  <2>3. BeingWritten(d)' = BeingWritten(d)
    BY <2>1 DEF BeingWritten
  <2> QED
    BY <1>1, <2>1, <2>2, <2>3 DEF DigestKept
<1>12. ASSUME NEW r \in Runs,
              CreateFails(r) \/ MarkFails(r) \/ EvidenceFails(r) \/ RecordFails(r)
                \/ RecordFailureFails(r)
       PROVE  FALSE
  <2>1. Faulty
    BY <1>12 DEF CreateFails, MarkFails, EvidenceFails, RecordFails, RecordFailureFails
  <2> QED
    BY <1>0, <2>1 DEF Faulty
<1>13. ASSUME Crash PROVE FALSE
  BY <1>0, <1>13 DEF Crash
<1> QED
  BY <1>2, <1>3, <1>4, <1>5, <1>6, <1>7, <1>8, <1>9, <1>10, <1>11, <1>12, <1>13
     DEF Next, Advance

\* Every digest a bundle names is in the store, or about to be, for any number of runs
\* that find, miss, open and fill the same files.
THEOREM BundlesResolve == Spec => []BundleResolves
<1>1. Init => StoreKept
  BY DEF Init, StoreKept, DigestKept, PutBy
<1>2. StoreInv /\ [Next]_vars => StoreInv'
  BY RunInvStep, StoreStep DEF StoreInv
<1>3. StoreInv => BundleResolves
  <2>1. \A r \in Runs : Content[r] \subseteq Digests
    BY ContentAssumption
  <2> QED
    BY <2>1 DEF StoreInv, StoreKept, DigestKept, PutBy, BeingWritten, BundleResolves
<1> QED
  BY <1>1, <1>2, <1>3, InitRunInv, PTL DEF Spec, StoreInv

------------------------------------------------------------------------------
(* Threads descend: the half of RunsAreDecided that needs no fairness.       *)

\* How far a run is from its end: what its thread has before it ...
PlaceOf ==
  [unborn |-> 8, submitted |-> 7, load |-> 6, simulate |-> 5, put |-> 4, fill |-> 4,
   record |-> 3, excuse |-> 2, ended |-> 1]

Place(r) == PlaceOf[pc[r]]

\* ... the digests still to be put, and whether a file is to be opened and filled.
Ahead(r) == Cardinality(todo[r])

Opened(r) ==
  IF pc[r] = "fill" THEN 1 ELSE IF pc[r] = "put" /\ writing[r] # NoDigest THEN 2 ELSE 0

Rank(r) == <<Place(r), <<Ahead(r), Opened(r)>>>>

LessThan == OpToRel(<, Nat)

Ranks == Nat \X (Nat \X Nat)

\* The lexicographic order of the ranks.
Descent ==
  LexPairOrdering(LessThan, LexPairOrdering(LessThan, LessThan, Nat, Nat), Nat, Nat \X Nat)

\* No sequence of ranks descends for ever.
LEMMA DescentWellFounded == IsWellFoundedOn(Descent, Ranks)
<1>1. IsWellFoundedOn(LessThan, Nat)
  BY NatLessThanWellFounded DEF LessThan
<1>2. IsWellFoundedOn(LexPairOrdering(LessThan, LessThan, Nat, Nat), Nat \X Nat)
  BY <1>1, WFLexPairOrdering
<1> QED
  BY <1>1, <1>2, WFLexPairOrdering DEF Descent, Ranks

\* What it takes to descend.
LEMMA Descending ==
  ASSUME NEW a \in Nat, NEW b \in Nat, NEW c \in Nat,
         NEW v \in Nat, NEW w \in Nat, NEW x \in Nat,
         \/ v < a
         \/ v = a /\ w < b
         \/ v = a /\ w = b /\ x < c
  PROVE  <<<<v, <<w, x>>>>, <<a, <<b, c>>>>>> \in Descent
<1> DEFINE Inner == LexPairOrdering(LessThan, LessThan, Nat, Nat)
<1>0. \A m, n \in Nat : m < n => <<m, n>> \in LessThan
  BY DEF LessThan, OpToRel
<1>1. w < b \/ (w = b /\ x < c) => <<<<w, x>>, <<b, c>>>> \in Inner
  BY <1>0 DEF LexPairOrdering
<1>2. Descent = LexPairOrdering(LessThan, Inner, Nat, Nat \X Nat)
  BY DEF Descent
<1> HIDE DEF Inner
<1>3. v < a \/ (v = a /\ <<<<w, x>>, <<b, c>>>> \in Inner)
        => <<<<v, <<w, x>>>>, <<a, <<b, c>>>>>> \in Descent
  BY <1>0, <1>2 DEF LexPairOrdering
<1> QED
  BY <1>1, <1>3

\* A run puts finitely many digests.
TodoFinite == \A r \in Runs : IsFiniteSet(todo[r])

\* It starts with none, gets the files of its evidence, and then strikes them off.
LEMMA TodoStep == RunTypeOK /\ TodoFinite /\ [Next]_vars => TodoFinite'
<1> SUFFICES ASSUME RunTypeOK, TodoFinite, [Next]_vars PROVE TodoFinite'
  OBVIOUS
<1>0. todo \in [Runs -> SUBSET Digests]
  BY DEF RunTypeOK
<1>1. ASSUME UNCHANGED todo PROVE TodoFinite'
  BY <1>1 DEF TodoFinite
<1>2. ASSUME NEW r \in Runs, NEW rest, IsFiniteSet(rest), todo' = [todo EXCEPT ![r] = rest]
      PROVE  TodoFinite'
  BY <1>0, <1>2 DEF TodoFinite
<1>3. ASSUME NEW r \in Runs, Simulate(r) PROVE TodoFinite'
  BY <1>2, <1>3, ContentAssumption DEF Simulate
<1>4. ASSUME NEW r \in Runs, NEW d \in Digests, PutFinds(r, d) \/ PutMisses(r, d)
      PROVE  TodoFinite'
  <2>1. todo' = [todo EXCEPT ![r] = todo[r] \ {d}]
    BY <1>4 DEF PutFinds, PutMisses
  <2>2. IsFiniteSet(todo[r] \ {d})
    BY FS_Subset DEF TodoFinite
  <2> QED
    BY <1>2, <2>1, <2>2
<1>5. ASSUME NEW r \in Runs, EvidenceFails(r) PROVE TodoFinite'
  BY <1>2, <1>5, FS_EmptySet DEF EvidenceFails
<1>6. CASE Crash
  BY <1>6, FS_EmptySet DEF Crash, TodoFinite
<1>7. ASSUME NEW r \in Runs, Advance(r), ~Simulate(r),
             \A d \in Digests : ~PutFinds(r, d) /\ ~PutMisses(r, d)
      PROVE  TodoFinite'
  <2>1. UNCHANGED todo
    BY <1>7 DEF Advance, MarkRunning, LoadDocuments, DocumentsRefused, PutOpens, PutFills,
                WriteBundle, RecordOutcome, RecordFailure, casVars
  <2> QED
    BY <1>1, <2>1
<1>8. ASSUME NEW r \in Runs,
             \/ StartExperiment(r) \/ RunExperiment(r) \/ CreateFails(r)
             \/ \E s \in Runs : Replay(r, s)
             \/ MarkFails(r) \/ RecordFails(r) \/ RecordFailureFails(r)
      PROVE  TodoFinite'
  <2>1. UNCHANGED todo
    BY <1>8 DEF StartExperiment, RunExperiment, CreateFails, Replay, MarkFails, RecordFails,
                RecordFailureFails, casVars
  <2> QED
    BY <1>1, <2>1
<1>9. CASE EditExperiment \/ UNCHANGED vars
  BY <1>1, <1>9 DEF EditExperiment, casVars, vars
<1> QED
  BY <1>3, <1>4, <1>5, <1>6, <1>7, <1>8, <1>9 DEF Next, Advance

\* The parts of a rank are numbers.
RankTyped(r) == Place(r) \in Nat /\ Ahead(r) \in Nat /\ Opened(r) \in Nat

\* They always are.
LEMMA RanksTyped == RunTypeOK /\ TodoFinite => \A r \in Runs : RankTyped(r)
<1> SUFFICES ASSUME RunTypeOK, TodoFinite, NEW r \in Runs PROVE RankTyped(r)
  OBVIOUS
<1>1. pc[r] \in Stages
  BY DEF RunTypeOK
<1>2. Place(r) \in Nat
  BY <1>1 DEF Place, PlaceOf
<1>3. Ahead(r) \in Nat
  BY FS_CardinalityType DEF Ahead, TodoFinite
<1> QED
  BY <1>2, <1>3 DEF RankTyped, Opened

Lower(r) == <<Rank(r)', Rank(r)>> \in Descent

\* The thread comes to a later place.
LEMMA PlaceLowers ==
  ASSUME NEW r \in Runs, RankTyped(r), RankTyped(r)',
         Place(r)' < Place(r)
  PROVE  Lower(r)
<1>1. Rank(r)' = <<Place(r)', <<Ahead(r)', Opened(r)'>>>>
  BY DEF Rank
<1> QED
  BY <1>1, Descending DEF RankTyped, Lower, Rank

\* It stays where it is, and strikes off a digest.
LEMMA AheadLowers ==
  ASSUME NEW r \in Runs, RankTyped(r), RankTyped(r)',
         Place(r)' = Place(r), Ahead(r)' < Ahead(r)
  PROVE  Lower(r)
<1>1. Rank(r)' = <<Place(r)', <<Ahead(r)', Opened(r)'>>>>
  BY DEF Rank
<1> QED
  BY <1>1, Descending DEF RankTyped, Lower, Rank

\* It opens a file, or fills it.
LEMMA OpenedLowers ==
  ASSUME NEW r \in Runs, RankTyped(r), RankTyped(r)',
         Place(r)' = Place(r), Ahead(r)' = Ahead(r), Opened(r)' < Opened(r)
  PROVE  Lower(r)
<1>1. Rank(r)' = <<Place(r)', <<Ahead(r)', Opened(r)'>>>>
  BY DEF Rank
<1> QED
  BY <1>1, Descending DEF RankTyped, Lower, Rank

\* The steps of a run: its thread's, its request, and the failures of its calls.
OwnStep(r) ==
  \/ Advance(r)
  \/ StartExperiment(r) \/ RunExperiment(r) \/ CreateFails(r)
  \/ \E s \in Runs : Replay(r, s)
  \/ MarkFails(r) \/ EvidenceFails(r) \/ RecordFails(r) \/ RecordFailureFails(r)

\* Each of them descends.
LEMMA OwnStepLowers ==
  ASSUME RunTypeOK, TodoFinite, NEW r \in Runs, RankTyped(r), RankTyped(r)', OwnStep(r)
  PROVE  Lower(r)
<1>0. /\ pc \in [Runs -> Stages] /\ todo \in [Runs -> SUBSET Digests]
      /\ writing \in [Runs -> Digests \cup {NoDigest}]
  BY DEF RunTypeOK
<1>1. ASSUME NEW here \in Stages, NEW there \in Stages, pc[r] = here, Goto(r, there),
             PlaceOf[there] < PlaceOf[here]
      PROVE  Lower(r)
  <2>1. Place(r)' < Place(r)
    BY <1>0, <1>1 DEF Place, Goto
  <2> QED
    BY <2>1, PlaceLowers
<1> DEFINE later(here, there) ==
             /\ here \in Stages /\ there \in Stages /\ PlaceOf[there] < PlaceOf[here]
<1>2. /\ later("unborn", "submitted") /\ later("unborn", "ended")
      /\ later("submitted", "load") /\ later("submitted", "ended")
      /\ later("load", "simulate") /\ later("load", "excuse")
      /\ later("simulate", "put") /\ later("put", "record")
      /\ later("put", "excuse") /\ later("fill", "excuse")
      /\ later("record", "ended") /\ later("record", "excuse")
      /\ later("excuse", "ended")
  BY DEF PlaceOf
<1>3. CASE StartExperiment(r) \/ RunExperiment(r) \/ CreateFails(r)
             \/ \E s \in Runs : Replay(r, s)
  <2>1. pc[r] = "unborn" /\ (Goto(r, "submitted") \/ Goto(r, "ended"))
    BY <1>3 DEF StartExperiment, RunExperiment, CreateFails, Replay, IsNext
  <2> QED
    BY <1>1, <1>2, <2>1
<1>4. CASE MarkRunning(r) \/ MarkFails(r)
  <2>1. pc[r] = "submitted" /\ (Goto(r, "load") \/ Goto(r, "ended"))
    BY <1>4 DEF MarkRunning, MarkFails, Scheduled
  <2> QED
    BY <1>1, <1>2, <2>1
<1>5. CASE LoadDocuments(r) \/ DocumentsRefused(r)
  <2>1. pc[r] = "load" /\ (Goto(r, "simulate") \/ Goto(r, "excuse"))
    BY <1>5 DEF LoadDocuments, DocumentsRefused
  <2> QED
    BY <1>1, <1>2, <2>1
<1>6. CASE Simulate(r) \/ WriteBundle(r)
  <2>1. \/ pc[r] = "simulate" /\ Goto(r, "put")
        \/ pc[r] = "put" /\ Goto(r, "record")
    BY <1>6 DEF Simulate, WriteBundle
  <2> QED
    BY <1>1, <1>2, <2>1
<1>7. CASE EvidenceFails(r)
  <2>1. pc[r] \in {"load", "put", "fill"} /\ Goto(r, "excuse")
    BY <1>7 DEF EvidenceFails
  <2> QED
    BY <1>1, <1>2, <2>1
<1>8. CASE RecordOutcome(r) \/ RecordFails(r)
  <2>1. pc[r] = "record" /\ (Goto(r, "ended") \/ Goto(r, "excuse"))
    BY <1>8 DEF RecordOutcome, RecordFails
  <2> QED
    BY <1>1, <1>2, <2>1
<1>9. CASE RecordFailure(r) \/ RecordFailureFails(r)
  <2>1. pc[r] = "excuse" /\ Goto(r, "ended")
    BY <1>9 DEF RecordFailure, RecordFailureFails
  <2> QED
    BY <1>1, <1>2, <2>1
<1>10. ASSUME NEW d \in Digests, PutFinds(r, d) \/ PutMisses(r, d) PROVE Lower(r)
  <2>1. /\ d \in todo[r] /\ todo' = [todo EXCEPT ![r] = todo[r] \ {d}] /\ pc' = pc
    BY <1>10 DEF PutFinds, PutMisses, runVars
  <2>2. todo'[r] = todo[r] \ {d}
    BY <1>0, <2>1
  <2>3. IsFiniteSet(todo[r])
    BY DEF TodoFinite
  <2>4. /\ Cardinality(todo[r]) \in Nat
        /\ Cardinality(todo[r] \ {d}) = Cardinality(todo[r]) - 1
    BY <2>1, <2>3, FS_RemoveElement, FS_CardinalityType
  <2>5. Ahead(r)' < Ahead(r)
    BY <2>2, <2>4 DEF Ahead
  <2>6. Place(r)' = Place(r)
    BY <2>1 DEF Place
  <2> QED
    BY <2>5, <2>6, AheadLowers
<1>11. CASE PutOpens(r)
  <2>1. /\ pc[r] = "put" /\ writing[r] # NoDigest /\ Goto(r, "fill") /\ todo' = todo
    BY <1>11 DEF PutOpens
  <2>2. pc'[r] = "fill"
    BY <1>0, <2>1 DEF Goto
  <2>3. Place(r)' = Place(r) /\ Ahead(r)' = Ahead(r)
    BY <2>1, <2>2 DEF Place, PlaceOf, Ahead
  <2>4. Opened(r)' < Opened(r)
    BY <2>1, <2>2 DEF Opened
  <2> QED
    BY <2>3, <2>4, OpenedLowers
<1>12. CASE PutFills(r)
  <2>1. /\ pc[r] = "fill" /\ Goto(r, "put") /\ todo' = todo
        /\ writing' = [writing EXCEPT ![r] = NoDigest]
    BY <1>12 DEF PutFills
  <2>2. pc'[r] = "put" /\ writing'[r] = NoDigest
    BY <1>0, <2>1 DEF Goto
  <2>3. Place(r)' = Place(r) /\ Ahead(r)' = Ahead(r)
    BY <2>1, <2>2 DEF Place, PlaceOf, Ahead
  <2>4. Opened(r)' < Opened(r)
    BY <2>1, <2>2 DEF Opened
  <2> QED
    BY <2>3, <2>4, OpenedLowers
<1> HIDE DEF later
<1> QED
  BY <1>3, <1>4, <1>5, <1>6, <1>7, <1>8, <1>9, <1>10, <1>11, <1>12 DEF OwnStep, Advance

\* No run moves another.
LEMMA OthersStay ==
  ASSUME RunTypeOK, NEW q \in Runs, OwnStep(q), NEW r \in Runs, r # q
  PROVE  Rank(r)' = Rank(r)
<1>0. /\ pc \in [Runs -> Stages] /\ todo \in [Runs -> SUBSET Digests]
      /\ writing \in [Runs -> Digests \cup {NoDigest}]
  BY DEF RunTypeOK
<1>1. pc' = pc \/ \E there : pc' = [pc EXCEPT ![q] = there]
  BY DEF OwnStep, Advance, MarkRunning, LoadDocuments, DocumentsRefused, Simulate, PutFinds,
         PutMisses, PutOpens, PutFills, WriteBundle, RecordOutcome, RecordFailure,
         StartExperiment, RunExperiment, CreateFails, Replay, MarkFails, EvidenceFails,
         RecordFails, RecordFailureFails, Goto, runVars
<1>2. todo' = todo \/ \E rest : todo' = [todo EXCEPT ![q] = rest]
  BY DEF OwnStep, Advance, MarkRunning, LoadDocuments, DocumentsRefused, Simulate, PutFinds,
         PutMisses, PutOpens, PutFills, WriteBundle, RecordOutcome, RecordFailure,
         StartExperiment, RunExperiment, CreateFails, Replay, MarkFails, EvidenceFails,
         RecordFails, RecordFailureFails, casVars
<1>3. writing' = writing \/ \E digest : writing' = [writing EXCEPT ![q] = digest]
  BY DEF OwnStep, Advance, MarkRunning, LoadDocuments, DocumentsRefused, Simulate, PutFinds,
         PutMisses, PutOpens, PutFills, WriteBundle, RecordOutcome, RecordFailure,
         StartExperiment, RunExperiment, CreateFails, Replay, MarkFails, EvidenceFails,
         RecordFails, RecordFailureFails, casVars
<1>4. pc'[r] = pc[r]
  BY <1>0, <1>1
<1>5. todo'[r] = todo[r]
  BY <1>0, <1>2
<1>6. writing'[r] = writing[r]
  BY <1>0, <1>3
<1> QED
  BY <1>4, <1>5, <1>6 DEF Rank, Place, Ahead, Opened

\* The end of the process ends every run.
LEMMA CrashLowers ==
  ASSUME RunTypeOK, NEW r \in Runs, RankTyped(r), RankTyped(r)', Crash
  PROVE  Lower(r) \/ Rank(r)' = Rank(r)
<1>0. pc[r] \in Stages
  BY DEF RunTypeOK
<1>1. CASE pc[r] \in Executing \cup {"submitted"}
  <2>1. pc'[r] = "ended"
    BY <1>1 DEF Crash
  <2>2. Place(r)' < Place(r)
    BY <1>1, <2>1 DEF Place, PlaceOf
  <2> QED
    BY <2>2, PlaceLowers
<1>2. CASE pc[r] \in {"unborn", "ended"}
  <2>1. pc'[r] = pc[r] /\ todo'[r] = {}
    BY <1>2 DEF Crash
  <2>2. Place(r)' = Place(r)
    BY <2>1 DEF Place
  <2>3. Opened(r)' = 0 /\ Opened(r) = 0
    BY <1>2, <2>1 DEF Opened
  <2>4. Ahead(r)' = 0
    BY <2>1, FS_EmptySet DEF Ahead
  <2>5. Ahead(r) = 0 \/ Ahead(r)' < Ahead(r)
    BY <2>4 DEF RankTyped
  <2>6. CASE Ahead(r) = 0
    BY <2>2, <2>3, <2>4, <2>6 DEF Rank
  <2> QED
    BY <2>2, <2>5, <2>6, AheadLowers
<1> QED
  BY <1>0, <1>1, <1>2

\* Every step of a run descends, and no step, of another run, of a user or of the
\* process ending, takes a run back: a run is never started twice, and however often
\* it meets a file of another it goes on.
RunsDescend ==
  [][\A r \in Runs :
       /\ OwnStep(r) => Lower(r)
       /\ Lower(r) \/ Rank(r)' = Rank(r)]_vars

(* Every run takes finitely many steps: they descend in a well-founded order *)
(* and nothing ascends, for any number of runs that share the store.         *)
THEOREM RunsAreFinite == Spec => RunsDescend
<1> DEFINE Typed == RunTypeOK /\ TodoFinite
           Ranked == \A r \in Runs : RankTyped(r)
<1>1. Typed /\ Ranked /\ Ranked' /\ [Next]_vars
        => [\A r \in Runs : /\ OwnStep(r) => Lower(r)
                            /\ Lower(r) \/ Rank(r)' = Rank(r)]_vars
  <2> SUFFICES ASSUME Typed, Ranked, Ranked', Next, NEW r \in Runs
               PROVE  /\ OwnStep(r) => Lower(r)
                      /\ Lower(r) \/ Rank(r)' = Rank(r)
    OBVIOUS
  <2>1. RankTyped(r) /\ RankTyped(r)'
    OBVIOUS
  <2>2. OwnStep(r) => Lower(r)
    BY <2>1, OwnStepLowers
  <2>3. (\E q \in Runs : OwnStep(q)) \/ EditExperiment \/ Crash
    BY DEF Next, OwnStep
  <2>4. ASSUME NEW q \in Runs, OwnStep(q) PROVE Lower(r) \/ Rank(r)' = Rank(r)
    <3>1. CASE q = r
      BY <2>2, <2>4, <3>1
    <3>2. CASE q # r
      BY <2>4, <3>2, OthersStay
    <3> QED
      BY <3>1, <3>2
  <2>5. CASE EditExperiment
    <3>1. UNCHANGED <<pc, todo, writing>>
      BY <2>5 DEF EditExperiment, runVars, casVars
    <3>2. Rank(r)' = Rank(r)
      BY <3>1 DEF Rank, Place, Ahead, Opened
    <3> QED
      BY <2>2, <3>2
  <2>6. CASE Crash
    BY <2>1, <2>2, <2>6, CrashLowers
  <2> QED
    BY <2>2, <2>3, <2>4, <2>5, <2>6
<1>2. RunInv => RunTypeOK
  BY DEF RunInv
<1>3. Init => TodoFinite
  BY FS_EmptySet DEF Init, TodoFinite
<1>4. Typed => Ranked
  BY RanksTyped
<1>5. Spec => []Typed
  <2>1. RunTypeOK /\ TodoFinite /\ [Next]_vars => TodoFinite'
    BY TodoStep
  <2> QED
    BY <1>2, <1>3, <2>1, RunsCorrect, PTL DEF Spec
<1> HIDE DEF Typed, Ranked
<1> QED
  BY <1>1, <1>4, <1>5, PTL DEF Spec, RunsDescend
================================================================================
