---------------------------- MODULE AgentTurnsProofs ----------------------------
(***************************************************************************)
(* Turns, the working memory and the evolution of plugins, for any number  *)
(* of turns, jobs, plugins, steps and tool calls.                          *)
(***************************************************************************)
EXTENDS AgentTurns, SequenceTheorems, TLAPS

------------------------------------------------------------------------------
(* The registry: its types.                                                  *)

Objects == Plugins \cup {Nobody}

Places ==
  {"unborn", "snapshot", "swap", "unload", "install", "load", "persist",
   "restore", "discard", "reinstall", "reload", "done"}

JobRecords ==
  [at : Places, kind : {"none", "evolve", "rollback"}, target : Ids \cup {"none"},
   candidate : Objects, before : Objects, kept : BOOLEAN, old : Objects,
   verdict : {"none", "hot_swapped", "rolled_back", "failed", "conformance_failed"},
   intact : BOOLEAN]

Snapshots == [job : Jobs, by : {"evolve", "hot_swap"}, instance : Objects]

RegistryTyped ==
  /\ plugins \in [Ids -> Objects]
  /\ job \in [Jobs -> JobRecords]
  /\ snapshots \in [Ids -> Seq(Snapshots)]

\* The places of evolve_plugin before a failure.
SwapPlaces == {"snapshot", "swap", "unload", "install", "load", "persist"}

\* A job under way has a target, and an evolution has a candidate.
Named ==
  \A j \in Jobs :
    /\ job[j].at \in SwapPlaces => job[j].kind = "evolve"
    /\ At(j, "unborn") => job[j].candidate = Nobody
    /\ j \in Underway => job[j].target \in Ids /\ job[j].kind \in {"evolve", "rollback"}
    /\ j \in Underway /\ job[j].kind = "evolve" => job[j].candidate \in Plugins

------------------------------------------------------------------------------
(* The registry: the inductive invariant.                                    *)

\* The objects that have been made.
Made == {Nobody} \cup {Default[i] : i \in Ids} \cup {job[j].candidate : j \in Jobs}

\* Whatever is registered, kept or about to be restored has been made.
HoldsMade ==
  /\ \A i \in Ids : plugins[i] \in Made
  /\ \A i \in Ids : \A n \in DOMAIN snapshots[i] : snapshots[i][n].instance \in Made
  /\ \A j \in Jobs : job[j].old \in Made

\* A snapshot was taken by a job that has begun.
TakenByJobs ==
  \A i \in Ids : \A n \in DOMAIN snapshots[i] : ~At(snapshots[i][n].job, "unborn")

\* While an intact job is under way no other one is.
IntactAlone == \A j \in Underway : job[j].intact => Underway = {j}

\* What evolve_plugin has kept is what it found at the beginning.
KeepsBefore(j) ==
  LET history == snapshots[job[j].target]
  IN  IF job[j].kept
      THEN /\ Found(j) # {}
           /\ \A n \in Found(j) : history[n].instance = job[j].before
      ELSE job[j].before = Nobody

\* The new plugin has replaced the target.
Same(j) == IdOf[job[j].candidate] = job[j].target

\* Where an intact evolution stands, place by place.
Stage(j) ==
  LET i == job[j].target
      new == job[j].candidate
      was == job[j].before
      Live == plugins[SwapId(j)] = new
  IN  /\ was # new
      /\ At(j, "snapshot") =>
           /\ plugins[i] = was
           /\ \A n \in DOMAIN snapshots[i] : snapshots[i][n].job # j
      /\ job[j].at \in {"swap", "unload", "install", "load", "persist", "restore"} =>
           KeepsBefore(j)
      /\ At(j, "swap") => plugins[i] = was
      /\ At(j, "unload") /\ Same(j) => job[j].old = was
      /\ job[j].at \in {"install", "load", "persist"} /\ Same(j) => was \notin loaded
      /\ job[j].at \in {"load", "persist", "restore", "discard"} => Live
      /\ At(j, "persist") => new \in loaded
      /\ At(j, "restore") => job[j].kept
      /\ job[j].at \in {"discard", "reinstall", "reload"} => job[j].old = was
      /\ job[j].at \in {"reinstall", "reload"} /\ Same(j) => new \notin loaded
      /\ At(j, "reload") => plugins[i] = was

Intact(j) == j \in Underway /\ job[j].kind = "evolve" /\ job[j].intact

StagesOK == \A j \in Jobs : Intact(j) => Stage(j)

RegistryInv ==
  RegistryTyped /\ Named /\ HoldsMade /\ TakenByJobs /\ IntactAlone /\ StagesOK

------------------------------------------------------------------------------
(* The turns: the inductive invariant.                                       *)

TurnRecords ==
  [at : {"unborn", "generate", "call", "wait", "results", "done"}, memory : BOOLEAN,
   step : Nat, calls : Nat, ran : Nat, wrote : Nat, waits : Nat]

Kinds == {"user", "assistant", "tool"}

Messages == [turn : Turns, step : Nat, kind : Kinds, n : Nat]

TurnsTyped ==
  /\ turn \in [Turns -> TurnRecords]
  /\ messages \in Seq(Messages)
  /\ cleared \in BOOLEAN

\* A turn that appends results holds the event loop.
LoopHeld == \A t \in Turns : turn[t].at = "results" => loop = ByTurn(t)

\* The message a result of turn t follows.
Latest(t) == Message(t, IF turn[t].wrote = 0 THEN "assistant" ELSE "tool", turn[t].wrote)

\* What turn t has appended last is the last message still, unless it was cleared.
LastIsOwn ==
  \A t \in Turns :
    turn[t].at = "results" /\ turn[t].memory =>
      IF messages = <<>> THEN cleared ELSE messages[Len(messages)] = Latest(t)

MemoryInv == TurnsTyped /\ LoopHeld /\ LastIsOwn /\ ResultsFollowCalls

------------------------------------------------------------------------------
(* What a step makes of the jobs.                                            *)

RegistryStep ==
  \E j \in Jobs :
    \/ JobStep(j)
    \/ \E i \in Ids :
         \/ BeginRefused(j, i) \/ BeginRollback(j, i)
         \/ \E p \in Plugins : BeginEvolve(j, i, p)

\* Of the steps of turns and endpoints the registry sees only these.
LEMMA StepsRegistry == [Next]_vars => [RegistryStep]_registryVars
<1> SUFFICES ASSUME [Next]_vars PROVE [RegistryStep]_registryVars
  OBVIOUS
<1>1. ASSUME NEW t \in Turns, CallEvolve(t) PROVE RegistryStep
  BY <1>1 DEF CallEvolve, RegistryStep
<1>2. ASSUME NEW t \in Turns, TurnStep(t), ~CallEvolve(t) PROVE UNCHANGED registryVars
  BY <1>2 DEF TurnStep, BeginTurn, Generate, EndTurn, CallTool, EvolveReturns,
              AppendStep, AppendResult
<1>3. ASSUME NEW j \in Jobs, EndpointBegins(j) \/ JobGoesOn(j) PROVE RegistryStep
  BY <1>3 DEF EndpointBegins, JobGoesOn, RegistryStep
<1>4. CASE UNCHANGED vars
  BY <1>4 DEF vars
<1> QED
  BY <1>1, <1>2, <1>3, <1>4 DEF Next

\* The job goes on at a place; what it is about, and the other jobs, stay.
GoesOn(j, place) ==
  /\ job' \in [Jobs -> JobRecords]
  /\ \A k \in Jobs \ {j} : job'[k] = job[k]
  /\ job'[j].at = place
  /\ job'[j].kind = job[j].kind
  /\ job'[j].target = job[j].target
  /\ job'[j].candidate = job[j].candidate
  /\ job'[j].before = job[j].before

\* The job's record is replaced by another about the same.
LEMMA Replaced ==
  ASSUME RegistryTyped, NEW j \in Jobs, NEW record \in JobRecords,
         record.kind = job[j].kind, record.target = job[j].target,
         record.candidate = job[j].candidate, record.before = job[j].before,
         job' = [job EXCEPT ![j] = record]
  PROVE  GoesOn(j, record.at) /\ job'[j] = record
BY DEF RegistryTyped, GoesOn

\* A job moves.
LEMMA Moves ==
  ASSUME RegistryTyped, NEW j \in Jobs, NEW place \in Places, Move(j, place)
  PROVE  /\ GoesOn(j, place)
         /\ job'[j].kept = job[j].kept
         /\ job'[j].old = job[j].old
         /\ job'[j].intact = job[j].intact
<1> DEFINE record == [job[j] EXCEPT !.at = place]
<1>1. job[j] \in JobRecords
  BY DEF RegistryTyped
<1>2. record \in JobRecords
  BY <1>1 DEF JobRecords
<1>3. /\ record.kind = job[j].kind /\ record.target = job[j].target
      /\ record.candidate = job[j].candidate /\ record.before = job[j].before
      /\ record.at = place /\ record.old = job[j].old
  BY <1>1 DEF JobRecords
<1>4. record.kept = job[j].kept
  BY <1>1 DEF JobRecords
<1>5. record.intact = job[j].intact
  BY <1>1 DEF JobRecords
<1>6. job' = [job EXCEPT ![j] = record]
  BY DEF RegistryTyped, Move
<1> HIDE DEF record
<1>7. GoesOn(j, place) /\ job'[j] = record
  BY <1>2, <1>3, <1>6, Replaced
<1> QED BY <1>3, <1>4, <1>5, <1>7

\* A job ends.
LEMMA Finishes ==
  ASSUME RegistryTyped, NEW j \in Jobs,
         NEW verdict \in {"hot_swapped", "rolled_back", "failed", "conformance_failed"},
         Finish(j, verdict)
  PROVE  /\ GoesOn(j, "done")
         /\ job'[j].verdict = verdict
         /\ job'[j].old = job[j].old
         /\ job'[j].intact = job[j].intact
<1> DEFINE record == [job[j] EXCEPT !.at = "done", !.verdict = verdict]
<1>1. job[j] \in JobRecords
  BY DEF RegistryTyped
<1>2. record \in JobRecords
  <2>1. [job[j] EXCEPT !.at = "done"] \in JobRecords
    BY <1>1 DEF JobRecords, Places
  <2> QED BY <2>1 DEF JobRecords
<1>3. /\ record.kind = job[j].kind /\ record.target = job[j].target
      /\ record.candidate = job[j].candidate /\ record.before = job[j].before
      /\ record.at = "done" /\ record.old = job[j].old /\ record.verdict = verdict
  BY <1>1 DEF JobRecords
<1>4. record.intact = job[j].intact
  BY <1>1 DEF JobRecords
<1>5. job' = [job EXCEPT ![j] = record]
  BY DEF RegistryTyped, Finish
<1> HIDE DEF record
<1>6. GoesOn(j, "done") /\ job'[j] = record
  BY <1>2, <1>3, <1>5, Replaced
<1> QED BY <1>3, <1>4, <1>6

\* A job takes its own snapshot.
LEMMA TakesSnapshot ==
  ASSUME RegistryTyped, NEW j \in Jobs, TakeSnapshot(j)
  PROVE  /\ GoesOn(j, "swap")
         /\ job'[j].kept = (plugins[job[j].target] # Nobody)
         /\ job'[j].old = job[j].old
         /\ job'[j].intact = job[j].intact
<1>1. ASSUME NEW present \in BOOLEAN,
             job' = [job EXCEPT ![j].at = "swap", ![j].kept = present]
      PROVE  /\ GoesOn(j, "swap")
             /\ job'[j].kept = present
             /\ job'[j].old = job[j].old
             /\ job'[j].intact = job[j].intact
  <2> DEFINE record == [job[j] EXCEPT !.at = "swap", !.kept = present]
  <2>1. job[j] \in JobRecords
    BY DEF RegistryTyped
  <2>2. record \in JobRecords
    <3>1. [job[j] EXCEPT !.at = "swap"] \in JobRecords
      BY <2>1 DEF JobRecords, Places
    <3> QED BY <3>1 DEF JobRecords
  <2>3. /\ record.kind = job[j].kind /\ record.target = job[j].target
        /\ record.candidate = job[j].candidate /\ record.before = job[j].before
        /\ record.at = "swap" /\ record.old = job[j].old
    BY <2>1 DEF JobRecords
  <2>4. record.kept = present
    BY <2>1 DEF JobRecords
  <2>5. record.intact = job[j].intact
    BY <2>1 DEF JobRecords
  <2>6. job' = [job EXCEPT ![j] = record]
    BY <1>1 DEF RegistryTyped
  <2> HIDE DEF record
  <2>7. GoesOn(j, "swap") /\ job'[j] = record
    BY <2>2, <2>3, <2>6, Replaced
  <2> QED BY <2>3, <2>4, <2>5, <2>7
<1>2. (plugins[job[j].target] # Nobody) \in BOOLEAN
  OBVIOUS
<1>3. job' = [job EXCEPT ![j].at = "swap", ![j].kept = plugins[job[j].target] # Nobody]
  BY DEF TakeSnapshot
<1> QED
  BY <1>1, <1>2, <1>3

\* hot_swap takes one, and notes the plugin it replaces.
LEMMA NotesOld ==
  ASSUME RegistryTyped, NEW j \in Jobs, SwapSnapshot(j), SwapId(j) \in Ids
  PROVE  /\ GoesOn(j, "unload")
         /\ job'[j].kept = job[j].kept
         /\ job'[j].old = plugins[SwapId(j)]
         /\ job'[j].intact = job[j].intact
<1>1. ASSUME NEW old \in Objects, job' = [job EXCEPT ![j].at = "unload", ![j].old = old]
      PROVE  /\ GoesOn(j, "unload")
             /\ job'[j].kept = job[j].kept
             /\ job'[j].old = old
             /\ job'[j].intact = job[j].intact
  <2> DEFINE record == [job[j] EXCEPT !.at = "unload", !.old = old]
  <2>1. job[j] \in JobRecords
    BY DEF RegistryTyped
  <2>2. record \in JobRecords
    <3>1. [job[j] EXCEPT !.at = "unload"] \in JobRecords
      BY <2>1 DEF JobRecords, Places
    <3> QED BY <3>1 DEF JobRecords
  <2>3. /\ record.kind = job[j].kind /\ record.target = job[j].target
        /\ record.candidate = job[j].candidate /\ record.before = job[j].before
        /\ record.at = "unload" /\ record.old = old
    BY <2>1 DEF JobRecords
  <2>4. record.kept = job[j].kept
    BY <2>1 DEF JobRecords
  <2>5. record.intact = job[j].intact
    BY <2>1 DEF JobRecords
  <2>6. job' = [job EXCEPT ![j] = record]
    BY <1>1 DEF RegistryTyped
  <2> HIDE DEF record
  <2>7. GoesOn(j, "unload") /\ job'[j] = record
    BY <2>2, <2>3, <2>6, Replaced
  <2> QED BY <2>3, <2>4, <2>5, <2>7
<1>2. plugins[SwapId(j)] \in Objects
  BY DEF RegistryTyped
<1>3. job' = [job EXCEPT ![j].at = "unload", ![j].old = plugins[SwapId(j)]]
  BY DEF SwapSnapshot
<1> QED
  BY <1>1, <1>2, <1>3

\* A rollback notes the plugin it restores.
LEMMA NotesRestored ==
  ASSUME RegistryTyped, NEW j \in Jobs, NEW old \in Objects,
         job' = [job EXCEPT ![j].at = "discard", ![j].old = old]
  PROVE  GoesOn(j, "discard") /\ job'[j].old = old /\ job'[j].intact = job[j].intact
<1> DEFINE record == [job[j] EXCEPT !.at = "discard", !.old = old]
<1>1. job[j] \in JobRecords
  BY DEF RegistryTyped
<1>2. /\ record \in JobRecords
      /\ record.kind = job[j].kind /\ record.target = job[j].target
      /\ record.candidate = job[j].candidate /\ record.before = job[j].before
      /\ record.at = "discard" /\ record.old = old
  BY <1>1 DEF JobRecords, Places
<1>3. record.intact = job[j].intact
  BY <1>1 DEF JobRecords
<1>4. job' = [job EXCEPT ![j] = record]
  BY DEF RegistryTyped
<1> HIDE DEF record
<1>5. GoesOn(j, "discard") /\ job'[j] = record
  BY <1>2, <1>4, Replaced
<1> QED BY <1>2, <1>3, <1>5

\* A rollback takes the plugin it restores out of the history.
LEMMA TakesOut ==
  ASSUME RegistryTyped, NEW j \in Jobs, job[j].target \in Ids,
         NEW n \in DOMAIN snapshots[job[j].target],
         job' = [job EXCEPT ![j].at = "discard",
                            ![j].old = snapshots[job[j].target][n].instance]
  PROVE  /\ GoesOn(j, "discard")
         /\ job'[j].old = snapshots[job[j].target][n].instance
         /\ job'[j].intact = job[j].intact
<1>1. ASSUME NEW i \in Ids, NEW m \in DOMAIN snapshots[i]
      PROVE  snapshots[i][m].instance \in Objects
  <2>1. snapshots[i] \in Seq(Snapshots)
    BY DEF RegistryTyped
  <2>2. snapshots[i][m] \in Snapshots
    BY <2>1
  <2> QED BY <2>2 DEF Snapshots
<1>2. snapshots[job[j].target][n].instance \in Objects
  BY <1>1
<1> QED
  BY <1>2, NotesRestored

\* A restored plugin that fails spoils the job.
LEMMA Fails ==
  ASSUME RegistryTyped, NEW j \in Jobs, RestoreFails(j)
  PROVE  GoesOn(j, "done") /\ job'[j].old = job[j].old /\ ~job'[j].intact
<1>1. ASSUME NEW verdict \in {"rolled_back", "failed"},
             job' = [job EXCEPT ![j].at = "done", ![j].verdict = verdict, ![j].intact = FALSE]
      PROVE  GoesOn(j, "done") /\ job'[j].old = job[j].old /\ ~job'[j].intact
  <2> DEFINE record == [job[j] EXCEPT !.at = "done", !.verdict = verdict, !.intact = FALSE]
  <2>1. job[j] \in JobRecords
    BY DEF RegistryTyped
  <2>2. record \in JobRecords
    <3>1. [job[j] EXCEPT !.at = "done", !.verdict = verdict] \in JobRecords
      BY <2>1, <1>1 DEF JobRecords, Places
    <3> QED BY <3>1 DEF JobRecords
  <2>3. /\ record.kind = job[j].kind /\ record.target = job[j].target
        /\ record.candidate = job[j].candidate /\ record.before = job[j].before
        /\ record.at = "done" /\ record.old = job[j].old
    BY <2>1 DEF JobRecords
  <2>4. ~record.intact
    BY <2>1 DEF JobRecords
  <2>5. job' = [job EXCEPT ![j] = record]
    BY <1>1 DEF RegistryTyped
  <2> HIDE DEF record
  <2> QED BY <2>2, <2>3, <2>4, <2>5, Replaced
<1>2. Reported(j, "failed") \in {"rolled_back", "failed"}
  BY DEF Reported
<1>3. job' = [job EXCEPT ![j].at = "done", ![j].verdict = Reported(j, "failed"),
                         ![j].intact = FALSE]
  BY DEF RestoreFails
<1> QED
  BY <1>1, <1>2, <1>3

\* A record that a job begins with.
BeginsWith(record, place, kind, i, p, was) ==
  /\ record \in JobRecords
  /\ record.at = place /\ record.kind = kind /\ record.target = i
  /\ record.candidate = p /\ record.before = was /\ record.old = Nobody

\* An evolution, a rollback and a refused evolution begin with such records.
LEMMA NewRecords ==
  ASSUME NEW i \in Ids, NEW p \in Plugins, NEW was \in Objects
  PROVE  /\ BeginsWith([NewJob EXCEPT !.at = "snapshot", !.kind = "evolve", !.target = i,
                                      !.candidate = p, !.before = was],
                       "snapshot", "evolve", i, p, was)
         /\ BeginsWith([NewJob EXCEPT !.at = "restore", !.kind = "rollback", !.target = i,
                                      !.before = was],
                       "restore", "rollback", i, Nobody, was)
BY DEF BeginsWith, NewJob, JobRecords, Places, Objects

\* A job that is refused begins and ends at once.
LEMMA RefusedRecord ==
  ASSUME NEW i \in Ids
  PROVE  LET record == [NewJob EXCEPT !.at = "done", !.kind = "evolve", !.target = i,
                                      !.verdict = "conformance_failed"]
         IN  /\ BeginsWith(record, "done", "evolve", i, Nobody, Nobody)
             /\ record.verdict = "conformance_failed"
BY DEF BeginsWith, NewJob, JobRecords, Places, Objects

\* A job that begins spoils those it overlaps with.
LEMMA Begins ==
  ASSUME RegistryTyped, NEW j \in Jobs, NEW record \in JobRecords,
         job' = Begun(j, record)
  PROVE  /\ job' \in [Jobs -> JobRecords]
         /\ job'[j] = [record EXCEPT !.intact = (Underway = {})]
         /\ \A k \in Jobs \ {j} :
              /\ k \notin Underway => job'[k] = job[k]
              /\ k \in Underway => job'[k] = [job[k] EXCEPT !.intact = FALSE]
BY DEF RegistryTyped, JobRecords, Begun

------------------------------------------------------------------------------
(* Jobs that are not intact, or not under way, stay so.                      *)

\* While a job goes on, no other evolution is intact, and nothing new is made.
LEMMA OthersStay ==
  ASSUME RegistryTyped, Named, IntactAlone, NEW j \in Underway,
         NEW place \in Places \ {"unborn"}, GoesOn(j, place),
         place \in SwapPlaces => job[j].at \in SwapPlaces,
         job'[j].intact => job[j].intact
  PROVE  /\ Named' /\ IntactAlone'
         /\ Made' = Made
         /\ \A k \in Jobs \ {j} : ~Intact(k)'
         /\ Intact(j)' => Intact(j)
<1>1. j \in Jobs /\ Underway' \subseteq Underway
  BY DEF Underway, GoesOn
<1>2. Named'
  <2>1. j \notin {k \in Jobs : At(k, "unborn")'}
    BY DEF At, GoesOn
  <2> QED
    BY <1>1, <2>1 DEF Named, At, GoesOn
<1>3. ASSUME NEW k \in Underway', job'[k].intact
      PROVE  k = j /\ Underway' = {k}
  <2>1. job[k].intact
    BY <1>1, <1>3 DEF GoesOn, Underway
  <2>2. Underway = {k}
    BY <1>1, <1>3, <2>1 DEF IntactAlone
  <2> QED
    BY <1>1, <1>3, <2>2
<1>4. IntactAlone'
  BY <1>3 DEF IntactAlone
<1>5. Made' = Made
  BY DEF Made, GoesOn
<1>6. \A k \in Jobs \ {j} : ~Intact(k)'
  BY <1>3 DEF Intact
<1>7. Intact(j)' => Intact(j)
  BY <1>1 DEF Intact, GoesOn
<1> QED
  BY <1>2, <1>4, <1>5, <1>6, <1>7

------------------------------------------------------------------------------
(* The history of snapshots.                                                 *)

\* A new snapshot is the last one of its plugin.
LEMMA SnapshotAdded ==
  ASSUME RegistryTyped, NEW i \in Ids, NEW j \in Jobs, NEW by \in {"evolve", "hot_swap"},
         CreateSnapshot(i, j, by)
  PROVE  /\ snapshots' \in [Ids -> Seq(Snapshots)]
         /\ \A k \in Ids \ {i} : snapshots'[k] = snapshots[k]
         /\ DOMAIN snapshots'[i] = DOMAIN snapshots[i] \cup {Len(snapshots[i]) + 1}
         /\ \A n \in DOMAIN snapshots[i] : snapshots'[i][n] = snapshots[i][n]
         /\ snapshots'[i][Len(snapshots[i]) + 1]
              = [job |-> j, by |-> by, instance |-> plugins[i]]
<1> DEFINE entry == [job |-> j, by |-> by, instance |-> plugins[i]]
<1>1. entry \in Snapshots
  BY DEF RegistryTyped, Snapshots
<1>2. snapshots \in [Ids -> Seq(Snapshots)] /\ snapshots[i] \in Seq(Snapshots)
  BY DEF RegistryTyped
<1>3. snapshots' = [snapshots EXCEPT ![i] = Append(snapshots[i], entry)]
  BY DEF CreateSnapshot
<1> HIDE DEF entry
<1>4. /\ Append(snapshots[i], entry) \in Seq(Snapshots)
      /\ Len(Append(snapshots[i], entry)) = Len(snapshots[i]) + 1
      /\ \A n \in 1..Len(snapshots[i]) : Append(snapshots[i], entry)[n] = snapshots[i][n]
      /\ Append(snapshots[i], entry)[Len(snapshots[i]) + 1] = entry
  BY <1>1, <1>2
<1>5. snapshots'[i] = Append(snapshots[i], entry)
  BY <1>2, <1>3
<1>6. DOMAIN snapshots'[i] = DOMAIN snapshots[i] \cup {Len(snapshots[i]) + 1}
  <2>1. DOMAIN snapshots'[i] = 1..(Len(snapshots[i]) + 1)
    BY <1>4, <1>5
  <2>2. DOMAIN snapshots[i] = 1..Len(snapshots[i]) /\ Len(snapshots[i]) \in Nat
    BY <1>2
  <2> QED
    BY <2>1, <2>2
<1>7. snapshots' \in [Ids -> Seq(Snapshots)] /\ \A k \in Ids \ {i} : snapshots'[k] = snapshots[k]
  BY <1>2, <1>3, <1>4
<1>8. \A n \in DOMAIN snapshots[i] : snapshots'[i][n] = snapshots[i][n]
  BY <1>2, <1>4, <1>5
<1>9. snapshots'[i][Len(snapshots[i]) + 1] = entry
  BY <1>4, <1>5
<1> QED
  BY <1>6, <1>7, <1>8, <1>9 DEF entry

\* What remains of a sequence without one element was in it.
LEMMA Remaining ==
  ASSUME NEW S, NEW s \in Seq(S), NEW n \in 1..Len(s)
  PROVE  /\ RemoveAt(s, n) \in Seq(S)
         /\ \A m \in DOMAIN RemoveAt(s, n) : \E l \in DOMAIN s : RemoveAt(s, n)[m] = s[l]
<1>1. /\ SubSeq(s, 1, n - 1) \in Seq(S) /\ Len(SubSeq(s, 1, n - 1)) = n - 1
      /\ \A m \in 1..(n - 1) : SubSeq(s, 1, n - 1)[m] = s[m]
  BY SubSeqProperties
<1>2. /\ SubSeq(s, n + 1, Len(s)) \in Seq(S) /\ Len(SubSeq(s, n + 1, Len(s))) = Len(s) - n
      /\ \A m \in 1..(Len(s) - n) : SubSeq(s, n + 1, Len(s))[m] = s[n + m]
  BY SubSeqProperties
<1>3. RemoveAt(s, n) = SubSeq(s, 1, n - 1) \o SubSeq(s, n + 1, Len(s))
  BY DEF RemoveAt
<1> DEFINE a == SubSeq(s, 1, n - 1)
           b == SubSeq(s, n + 1, Len(s))
<1>4. a \in Seq(S) /\ b \in Seq(S) /\ Len(a) = n - 1 /\ Len(b) = Len(s) - n
  BY <1>1, <1>2
<1> HIDE DEF a, b
<1>5. /\ a \o b \in Seq(S) /\ Len(a \o b) = Len(s) - 1
      /\ \A m \in 1..(n - 1) : (a \o b)[m] = a[m]
      /\ \A m \in n..(Len(s) - 1) : (a \o b)[m] = b[m - (n - 1)]
  BY <1>4
<1>6. ASSUME NEW m \in DOMAIN (a \o b)
      PROVE  \E l \in DOMAIN s : (a \o b)[m] = s[l]
  <2>1. m \in 1..(Len(s) - 1) /\ Len(s) \in Nat /\ DOMAIN s = 1..Len(s)
    BY <1>5
  <2>2. CASE m \in 1..(n - 1)
    <3>1. (a \o b)[m] = s[m]
      BY <1>1, <1>5, <2>2 DEF a
    <3>2. m \in DOMAIN s
      BY <2>1, <2>2
    <3> QED BY <3>1, <3>2
  <2>3. CASE m \in n..(Len(s) - 1)
    <3>1. m - (n - 1) \in 1..(Len(s) - n) /\ n + (m - (n - 1)) = m + 1
      BY <2>1, <2>3
    <3>2. (a \o b)[m] = s[m + 1]
      BY <1>2, <1>5, <2>3, <3>1 DEF b
    <3>3. m + 1 \in DOMAIN s
      BY <2>1
    <3> QED BY <3>2, <3>3
  <2> QED
    BY <2>1, <2>2, <2>3
<1> QED
  BY <1>3, <1>5, <1>6 DEF a, b

\* A kept plugin stays kept while the history stays.
LEMMA KeepsStays ==
  ASSUME NEW j \in Jobs, NEW place, GoesOn(j, place), KeepsBefore(j),
         job'[j].kept = job[j].kept, UNCHANGED snapshots
  PROVE  KeepsBefore(j)' /\ Found(j)' = Found(j)
<1>1. Found(j)' = Found(j)
  BY DEF Found, GoesOn
<1> QED
  BY <1>1 DEF KeepsBefore, GoesOn

------------------------------------------------------------------------------
(* Every step of a job keeps the invariant, and its report is true.          *)

\* The report of an evolution is true of the registry.
Honest(j) ==
  /\ job[j].verdict = "hot_swapped" => HotSwapHolds(j)
  /\ job[j].verdict = "rolled_back" => RollbackHolds(j)

\* What a step of job j has to leave behind.
LEMMA KeepsInv ==
  ASSUME RegistryInv, NEW j \in Underway, NEW place \in Places \ {"unborn"},
         GoesOn(j, place), place \in SwapPlaces => job[j].at \in SwapPlaces,
         job'[j].intact => job[j].intact, job'[j].old \in Made,
         plugins' \in [Ids -> Objects], \A i \in Ids : plugins'[i] \in Made,
         snapshots' \in [Ids -> Seq(Snapshots)],
         \A i \in Ids : \A n \in DOMAIN snapshots'[i] :
            /\ snapshots'[i][n].instance \in Made
            /\ ~At(snapshots'[i][n].job, "unborn"),
         Intact(j)' => Stage(j)'
  PROVE  RegistryInv'
<1>1. /\ Named' /\ IntactAlone'
      /\ Made' = Made
      /\ \A k \in Jobs \ {j} : ~Intact(k)'
  BY OthersStay DEF RegistryInv
<1>2. j \in Jobs
  BY DEF Underway
<1>3. RegistryTyped'
  BY DEF RegistryTyped, GoesOn
<1>4. HoldsMade'
  <2>1. \A k \in Jobs : job'[k].old \in Made
    BY DEF RegistryInv, HoldsMade, GoesOn
  <2> QED
    BY <1>1, <2>1 DEF HoldsMade
<1>5. TakenByJobs'
  <2>1. ASSUME NEW i \in Ids, NEW n \in DOMAIN snapshots'[i]
        PROVE  job'[snapshots'[i][n].job].at # "unborn"
    <3>1. snapshots'[i][n].job \in Jobs
      <4>1. snapshots'[i] \in Seq(Snapshots)
        OBVIOUS
      <4>2. snapshots'[i][n] \in Snapshots
        BY <4>1
      <4> QED BY <4>2 DEF Snapshots
    <3> QED
      BY <3>1, <2>1 DEF At, GoesOn
  <2> QED
    BY <2>1 DEF TakenByJobs, At
<1>6. StagesOK'
  BY <1>1, <1>2 DEF StagesOK
<1> QED
  BY <1>1, <1>3, <1>4, <1>5, <1>6 DEF RegistryInv

\* The same when no snapshot is taken or removed.
LEMMA KeepsInvWithout ==
  ASSUME RegistryInv, NEW j \in Underway, NEW place \in Places \ {"unborn"},
         GoesOn(j, place), place \in SwapPlaces => job[j].at \in SwapPlaces,
         job'[j].intact => job[j].intact, job'[j].old \in Made,
         plugins' \in [Ids -> Objects], \A i \in Ids : plugins'[i] \in Made,
         UNCHANGED snapshots, Intact(j)' => Stage(j)'
  PROVE  RegistryInv'
<1>1. \A i \in Ids : \A n \in DOMAIN snapshots'[i] :
         /\ snapshots'[i][n].instance \in Made
         /\ ~At(snapshots'[i][n].job, "unborn")
  BY DEF RegistryInv, HoldsMade, TakenByJobs
<1>2. snapshots' \in [Ids -> Seq(Snapshots)]
  BY DEF RegistryInv, RegistryTyped
<1> QED
  BY <1>1, <1>2, KeepsInv

\* Where a job is, and what it is about.
LEMMA JobFacts ==
  ASSUME RegistryInv, NEW j \in Underway
  PROVE  /\ j \in Jobs /\ RegistryTyped
         /\ job[j].target \in Ids
         /\ job[j].at \in SwapPlaces => job[j].kind = "evolve"
         /\ job[j].kind = "evolve" => job[j].candidate \in Plugins /\ SwapId(j) \in Ids
         /\ job[j].old \in Made /\ job[j].old \in Objects
         /\ Intact(j) => Stage(j)
<1>1. j \in Jobs
  BY DEF Underway
<1>2. job[j] \in JobRecords
  BY <1>1 DEF RegistryInv, RegistryTyped
<1>3. job[j].old \in Objects
  BY <1>2 DEF JobRecords
<1> QED
  BY <1>1, <1>3, PluginAssumption
     DEF RegistryInv, Named, HoldsMade, StagesOK, SwapId

\* evolve_plugin takes its snapshot.
LEMMA TakeSnapshotStep ==
  ASSUME RegistryInv, NEW j \in Underway, TakeSnapshot(j)
  PROVE  RegistryInv'
<1> DEFINE i == job[j].target
<1>1. /\ j \in Jobs /\ RegistryTyped /\ i \in Ids /\ job[j].old \in Made
      /\ Intact(j) => Stage(j)
  BY JobFacts
<1>2. /\ GoesOn(j, "swap") /\ job'[j].old = job[j].old /\ job'[j].intact = job[j].intact
  BY <1>1, TakesSnapshot
<1>3. job'[j].kept = (plugins[i] # Nobody)
  BY <1>1, TakesSnapshot
<1>4. UNCHANGED plugins /\ plugins' \in [Ids -> Objects] /\ (\A k \in Ids : plugins'[k] \in Made)
      /\ UNCHANGED loaded /\ At(j, "snapshot")
  BY DEF TakeSnapshot, RegistryInv, RegistryTyped, HoldsMade
<1>5. ASSUME Intact(j)', KeepsBefore(j)'
      PROVE  Stage(j)'
  <2>1. Intact(j) /\ Stage(j)
    BY <1>1, <1>2, <1>5 DEF Intact, GoesOn
  <2>2. job[j].before # job[j].candidate /\ plugins[i] = job[j].before
    BY <2>1, <1>4 DEF Stage
  <2> QED
    BY <1>2, <1>4, <1>5, <2>2 DEF Stage, GoesOn, At, SwapId, Same
<1>6. CASE plugins[i] # Nobody
  <2>1. CreateSnapshot(i, j, "evolve")
    BY <1>6 DEF TakeSnapshot
  <2> DEFINE last == Len(snapshots[i]) + 1
  <2>2. /\ snapshots' \in [Ids -> Seq(Snapshots)]
        /\ \A k \in Ids \ {i} : snapshots'[k] = snapshots[k]
        /\ DOMAIN snapshots'[i] = DOMAIN snapshots[i] \cup {last}
        /\ \A n \in DOMAIN snapshots[i] : snapshots'[i][n] = snapshots[i][n]
        /\ snapshots'[i][last] = [job |-> j, by |-> "evolve", instance |-> plugins[i]]
    BY <1>1, <2>1, SnapshotAdded
  <2> HIDE DEF last, i
  <2>3. ASSUME NEW k \in Ids, NEW n \in DOMAIN snapshots'[k]
        PROVE  /\ snapshots'[k][n].instance \in Made
               /\ ~At(snapshots'[k][n].job, "unborn")
    <3>1. CASE k = i /\ n = last
      <4>1. snapshots'[k][n].instance = plugins[i] /\ snapshots'[k][n].job = j
        BY <2>2, <3>1
      <4> QED
        BY <1>1, <1>4, <4>1 DEF At
    <3>2. CASE ~(k = i /\ n = last)
      <4>1. n \in DOMAIN snapshots[k] /\ snapshots'[k][n] = snapshots[k][n]
        BY <2>2, <2>3, <3>2
      <4> QED
        BY <4>1 DEF RegistryInv, HoldsMade, TakenByJobs
    <3> QED BY <3>1, <3>2
  <2>4. ASSUME Intact(j)' PROVE KeepsBefore(j)'
    <3>1. Intact(j) /\ Stage(j) /\ job[j].kind = "evolve"
      BY <1>1, <1>2, <2>4 DEF Intact, GoesOn
    <3>2. /\ plugins[i] = job[j].before
          /\ \A n \in DOMAIN snapshots[i] : snapshots[i][n].job # j
      BY <3>1, <1>4 DEF Stage, i
    <3>3. Found(j)' = {n \in DOMAIN snapshots'[i] : snapshots'[i][n].job = j
                                                     /\ snapshots'[i][n].by = "evolve"}
      BY <1>2, <3>1 DEF Found, GoesOn, i
    <3>4. last \in Found(j)' /\ \A n \in Found(j)' : n = last
      BY <2>2, <3>2, <3>3
    <3>5. snapshots'[i][last].instance = plugins[i]
      BY <2>2
    <3>6. job'[j].kept /\ job'[j].target = i /\ job'[j].before = job[j].before
      BY <1>2, <1>3, <1>6 DEF GoesOn, i
    <3> QED
      BY <3>2, <3>4, <3>5, <3>6 DEF KeepsBefore
  <2> QED
    BY <1>1, <1>2, <1>4, <1>5, <2>2, <2>3, <2>4, KeepsInv DEF Places, SwapPlaces, At
<1>7. CASE plugins[i] = Nobody
  <2>1. UNCHANGED snapshots
    BY <1>7 DEF TakeSnapshot
  <2>2. ASSUME Intact(j)' PROVE KeepsBefore(j)'
    <3>1. Intact(j) /\ Stage(j)
      BY <1>1, <1>2, <2>2 DEF Intact, GoesOn
    <3>2. plugins[i] = job[j].before
      BY <3>1, <1>4 DEF Stage
    <3> QED
      BY <1>2, <1>3, <1>7, <3>2 DEF KeepsBefore, GoesOn
  <2> QED
    BY <1>1, <1>2, <1>4, <1>5, <2>1, <2>2, KeepsInvWithout
       DEF Places, SwapPlaces, At
<1> QED
  BY <1>6, <1>7

\* hot_swap takes its snapshot, which is not the one evolve_plugin has kept.
LEMMA SwapSnapshotStep ==
  ASSUME RegistryInv, NEW j \in Underway, SwapSnapshot(j)
  PROVE  RegistryInv'
<1> DEFINE i == job[j].target
           s == SwapId(j)
<1>1. /\ j \in Jobs /\ RegistryTyped /\ i \in Ids /\ s \in Ids
      /\ Intact(j) => Stage(j)
  BY JobFacts DEF SwapSnapshot, SwapPlaces, At
<1>2. /\ GoesOn(j, "unload") /\ job'[j].old = plugins[s] /\ job'[j].kept = job[j].kept
      /\ job'[j].intact = job[j].intact
  BY <1>1, NotesOld
<1>3. UNCHANGED plugins /\ plugins' \in [Ids -> Objects] /\ (\A k \in Ids : plugins'[k] \in Made)
      /\ UNCHANGED loaded /\ At(j, "swap") /\ job'[j].old \in Made
  BY <1>1, <1>2 DEF SwapSnapshot, RegistryInv, RegistryTyped, HoldsMade
<1>4. ASSUME Intact(j)', KeepsBefore(j)'
      PROVE  Stage(j)'
  <2>1. Intact(j) /\ Stage(j)
    BY <1>1, <1>2, <1>4 DEF Intact, GoesOn
  <2>2. job[j].before # job[j].candidate /\ plugins[i] = job[j].before
    BY <2>1, <1>3 DEF Stage
  <2> QED
    BY <1>2, <1>3, <1>4, <2>2 DEF Stage, GoesOn, At, SwapId, Same
<1>5. CASE plugins[s] # Nobody
  <2>1. CreateSnapshot(s, j, "hot_swap")
    BY <1>5 DEF SwapSnapshot
  <2> DEFINE last == Len(snapshots[s]) + 1
  <2>2. /\ snapshots' \in [Ids -> Seq(Snapshots)]
        /\ \A k \in Ids \ {s} : snapshots'[k] = snapshots[k]
        /\ DOMAIN snapshots'[s] = DOMAIN snapshots[s] \cup {last}
        /\ \A n \in DOMAIN snapshots[s] : snapshots'[s][n] = snapshots[s][n]
        /\ snapshots'[s][last] = [job |-> j, by |-> "hot_swap", instance |-> plugins[s]]
    BY <1>1, <2>1, SnapshotAdded
  <2>0. last \notin DOMAIN snapshots[s]
    <3>1. snapshots[s] \in Seq(Snapshots)
      BY <1>1 DEF RegistryTyped
    <3> QED BY <3>1
  <2> HIDE DEF last, i, s
  <2>3. ASSUME NEW k \in Ids, NEW n \in DOMAIN snapshots'[k]
        PROVE  /\ snapshots'[k][n].instance \in Made
               /\ ~At(snapshots'[k][n].job, "unborn")
    <3>1. CASE k = s /\ n = last
      <4>1. snapshots'[k][n].instance = plugins[s] /\ snapshots'[k][n].job = j
        BY <2>2, <3>1
      <4> QED
        BY <1>1, <1>3, <4>1 DEF At
    <3>2. CASE ~(k = s /\ n = last)
      <4>1. n \in DOMAIN snapshots[k] /\ snapshots'[k][n] = snapshots[k][n]
        BY <2>2, <2>3, <3>2
      <4> QED
        BY <4>1 DEF RegistryInv, HoldsMade, TakenByJobs
    <3> QED BY <3>1, <3>2
  <2>4. ASSUME Intact(j)' PROVE KeepsBefore(j)'
    <3>1. Intact(j) /\ Stage(j) /\ job[j].kind = "evolve"
      BY <1>1, <1>2, <2>4 DEF Intact, GoesOn
    <3>2. KeepsBefore(j)
      BY <3>1, <1>3 DEF Stage, At
    <3>3. Found(j) = {n \in DOMAIN snapshots[i] : snapshots[i][n].job = j
                                                  /\ snapshots[i][n].by = "evolve"}
      BY <3>1 DEF Found, i
    <3>4. Found(j)' = {n \in DOMAIN snapshots'[i] : snapshots'[i][n].job = j
                                                     /\ snapshots'[i][n].by = "evolve"}
      BY <1>2, <3>1 DEF Found, GoesOn, i
    <3>5. ASSUME NEW n \in DOMAIN snapshots'[i], n \notin DOMAIN snapshots[i]
          PROVE  snapshots'[i][n].by = "hot_swap"
      BY <1>1, <2>2, <3>5
    <3>6. \A n \in DOMAIN snapshots[i] :
             n \in DOMAIN snapshots'[i] /\ snapshots'[i][n] = snapshots[i][n]
      BY <1>1, <2>2
    <3>7. Found(j)' = Found(j)
      BY <3>3, <3>4, <3>5, <3>6
    <3>8. \A n \in Found(j) : snapshots'[i][n] = snapshots[i][n]
      BY <3>3, <3>6
    <3>9. job'[j].kept = job[j].kept /\ job'[j].target = i /\ job'[j].before = job[j].before
      BY <1>2 DEF GoesOn, i
    <3> QED
      BY <3>2, <3>7, <3>8, <3>9 DEF KeepsBefore, i
  <2> QED
    BY <1>1, <1>2, <1>3, <1>4, <2>2, <2>3, <2>4, KeepsInv DEF Places, SwapPlaces, At
<1>6. CASE plugins[s] = Nobody
  <2>1. UNCHANGED snapshots
    BY <1>6 DEF SwapSnapshot
  <2>2. ASSUME Intact(j)' PROVE KeepsBefore(j)'
    <3>1. Intact(j) /\ Stage(j)
      BY <1>1, <1>2, <2>2 DEF Intact, GoesOn
    <3>2. KeepsBefore(j)
      BY <3>1, <1>3 DEF Stage, At
    <3> QED
      BY <1>1, <1>2, <2>1, <3>2, KeepsStays
  <2> QED
    BY <1>1, <1>2, <1>3, <1>4, <2>1, <2>2, KeepsInvWithout
       DEF Places, SwapPlaces, At
<1> QED
  BY <1>5, <1>6

\* Steps that neither take a snapshot nor end the job.
MovesOn(j) ==
  SwapUnload(j) \/ SwapInstall(j) \/ SwapLoad(j) \/ RestoreDiscard(j) \/ RestoreInstall(j)

\* The plugins are changed one at a time, by objects that have been made.
LEMMA InstalledMade ==
  ASSUME RegistryInv, NEW i \in Ids, NEW p \in Made \cap Objects, Install(i, p)
  PROVE  /\ plugins' \in [Ids -> Objects] /\ plugins'[i] = p
         /\ \A k \in Ids : plugins'[k] \in Made
BY DEF Install, RegistryInv, RegistryTyped, HoldsMade

\* A step between the snapshots and the end.
LEMMA MovesOnStep ==
  ASSUME RegistryInv, NEW j \in Underway, MovesOn(j)
  PROVE  RegistryInv'
<1> DEFINE i == job[j].target
           new == job[j].candidate
           was == job[j].before
<1>1. /\ j \in Jobs /\ RegistryTyped /\ i \in Ids
      /\ job[j].at \in SwapPlaces => job[j].kind = "evolve"
      /\ job[j].kind = "evolve" => new \in Plugins /\ SwapId(j) \in Ids
      /\ job[j].old \in Made /\ job[j].old \in Objects
      /\ Intact(j) => Stage(j)
  BY JobFacts
<1>2. UNCHANGED snapshots
  BY DEF MovesOn, SwapUnload, SwapInstall, SwapLoad, RestoreDiscard, RestoreInstall
<1>3. UNCHANGED plugins => plugins' \in [Ids -> Objects] /\ (\A k \in Ids : plugins'[k] \in Made)
  BY DEF RegistryInv, RegistryTyped, HoldsMade
<1>4. ASSUME NEW place \in Places \ {"unborn"}, Move(j, place),
             place \in SwapPlaces => job[j].at \in SwapPlaces,
             plugins' \in [Ids -> Objects], \A k \in Ids : plugins'[k] \in Made,
             Intact(j) /\ Stage(j) /\ GoesOn(j, place) /\ job'[j].kept = job[j].kept
               /\ job'[j].old = job[j].old => Stage(j)'
      PROVE  RegistryInv'
  <2>1. /\ GoesOn(j, place)
        /\ job'[j].kept = job[j].kept
        /\ job'[j].old = job[j].old
        /\ job'[j].intact = job[j].intact
    BY <1>1, <1>4, Moves
  <2>2. Intact(j)' => Intact(j)
    BY <1>1, <2>1 DEF Intact, GoesOn, Underway
  <2> QED
    BY <1>1, <1>2, <1>4, <2>1, <2>2, KeepsInvWithout
<1>5. CASE SwapUnload(j)
  <2>1. /\ At(j, "unload") /\ Move(j, "install") /\ UNCHANGED plugins
        /\ loaded' = loaded \ {job[j].old}
    BY <1>5 DEF SwapUnload, OnUnload
  <2>2. ASSUME Stage(j), GoesOn(j, "install"), job'[j].kept = job[j].kept
        PROVE  Stage(j)'
    <3>1. KeepsBefore(j)'
      BY <1>1, <1>2, <2>1, <2>2, KeepsStays DEF Stage, At
    <3> QED
      BY <2>1, <2>2, <3>1 DEF Stage, GoesOn, At, SwapId, Same
  <2> QED
    BY <1>3, <1>4, <2>1, <2>2 DEF Places, SwapPlaces, At
<1>6. CASE SwapInstall(j)
  <2>1. /\ At(j, "install") /\ Move(j, "load") /\ UNCHANGED loaded
        /\ Install(SwapId(j), new) /\ job[j].kind = "evolve"
    BY <1>1, <1>6 DEF SwapInstall, At, SwapPlaces
  <2>2. /\ plugins' \in [Ids -> Objects] /\ plugins'[SwapId(j)] = new
        /\ \A k \in Ids : plugins'[k] \in Made
    BY <1>1, <2>1, InstalledMade DEF Made, Objects
  <2>3. ASSUME Stage(j), GoesOn(j, "load"), job'[j].kept = job[j].kept
        PROVE  Stage(j)'
    <3>1. KeepsBefore(j)'
      BY <1>1, <1>2, <2>1, <2>3, KeepsStays DEF Stage, At
    <3> QED
      BY <2>1, <2>2, <2>3, <3>1 DEF Stage, GoesOn, At, SwapId, Same
  <2> QED
    BY <1>4, <2>1, <2>2, <2>3 DEF Places, SwapPlaces, At
<1>7. CASE SwapLoad(j)
  <2>1. /\ At(j, "load") /\ Move(j, "persist") /\ UNCHANGED plugins /\ loaded' = loaded \cup {new}
    BY <1>7 DEF SwapLoad
  <2>2. ASSUME Stage(j), GoesOn(j, "persist"), job'[j].kept = job[j].kept
        PROVE  Stage(j)'
    <3>1. KeepsBefore(j)'
      BY <1>1, <1>2, <2>1, <2>2, KeepsStays DEF Stage, At
    <3> QED
      BY <2>1, <2>2, <3>1 DEF Stage, GoesOn, At, SwapId, Same
  <2> QED
    BY <1>3, <1>4, <2>1, <2>2 DEF Places, SwapPlaces, At
<1>8. CASE RestoreDiscard(j)
  <2>1. /\ At(j, "discard") /\ Move(j, "reinstall") /\ UNCHANGED plugins
        /\ loaded' = loaded \ {plugins[i]}
    BY <1>8 DEF RestoreDiscard, OnUnload
  <2>2. ASSUME Stage(j), GoesOn(j, "reinstall"), job'[j].old = job[j].old
        PROVE  Stage(j)'
    BY <2>1, <2>2 DEF Stage, GoesOn, At, SwapId, Same
  <2> QED
    BY <1>3, <1>4, <2>1, <2>2 DEF Places, SwapPlaces, At
<1>9. CASE RestoreInstall(j)
  <2>1. /\ At(j, "reinstall") /\ Move(j, "reload") /\ UNCHANGED loaded
        /\ Install(i, job[j].old)
    BY <1>9 DEF RestoreInstall
  <2>2. /\ plugins' \in [Ids -> Objects] /\ plugins'[i] = job[j].old
        /\ \A k \in Ids : plugins'[k] \in Made
    BY <1>1, <2>1, InstalledMade
  <2>3. ASSUME Stage(j), GoesOn(j, "reload"), job'[j].old = job[j].old
        PROVE  Stage(j)'
    BY <2>1, <2>2, <2>3 DEF Stage, GoesOn, At, SwapId, Same
  <2> QED
    BY <1>4, <2>1, <2>2, <2>3 DEF Places, SwapPlaces, At
<1> QED
  BY <1>5, <1>6, <1>7, <1>8, <1>9 DEF MovesOn

\* rollback takes the plugin to restore out of the history.
LEMMA RestorePopStep ==
  ASSUME RegistryInv, NEW j \in Underway, RestorePop(j)
  PROVE  RegistryInv'
<1> DEFINE i == job[j].target
<1>1. /\ j \in Jobs /\ RegistryTyped /\ i \in Ids /\ (Intact(j) => Stage(j))
      /\ snapshots[i] \in Seq(Snapshots)
  BY JobFacts DEF RegistryTyped
<1>2. PICK n \in Found(j) :
        /\ job' = [job EXCEPT ![j].at = "discard", ![j].old = snapshots[i][n].instance]
        /\ snapshots' = [snapshots EXCEPT ![i] = RemoveAt(snapshots[i], n)]
  BY DEF RestorePop
<1>3. n \in DOMAIN snapshots[i] /\ n \in 1..Len(snapshots[i])
  BY <1>1 DEF Found
<1>4. /\ GoesOn(j, "discard") /\ job'[j].old = snapshots[i][n].instance
      /\ job'[j].intact = job[j].intact
  BY <1>1, <1>2, <1>3, TakesOut
<1>5. /\ UNCHANGED <<plugins, loaded>> /\ At(j, "restore")
      /\ plugins' \in [Ids -> Objects] /\ \A k \in Ids : plugins'[k] \in Made
  BY DEF RestorePop, RegistryInv, RegistryTyped, HoldsMade
<1>6. job'[j].old \in Made
  BY <1>1, <1>3, <1>4 DEF RegistryInv, HoldsMade
<1>7. /\ RemoveAt(snapshots[i], n) \in Seq(Snapshots)
      /\ \A m \in DOMAIN RemoveAt(snapshots[i], n) :
           \E l \in DOMAIN snapshots[i] : RemoveAt(snapshots[i], n)[m] = snapshots[i][l]
  BY <1>1, <1>3, Remaining
<1>8. snapshots' \in [Ids -> Seq(Snapshots)]
  BY <1>1, <1>2, <1>7 DEF RegistryTyped
<1>9. ASSUME NEW k \in Ids, NEW m \in DOMAIN snapshots'[k]
      PROVE  /\ snapshots'[k][m].instance \in Made
             /\ ~At(snapshots'[k][m].job, "unborn")
  <2>1. CASE k = i
    <3>1. snapshots'[k] = RemoveAt(snapshots[i], n)
      BY <1>1, <1>2, <2>1 DEF RegistryTyped
    <3>2. PICK l \in DOMAIN snapshots[i] : snapshots'[k][m] = snapshots[i][l]
      BY <1>7, <1>9, <3>1
    <3> QED
      BY <1>1, <3>2 DEF RegistryInv, HoldsMade, TakenByJobs
  <2>2. CASE k # i
    <3>1. snapshots'[k] = snapshots[k]
      BY <1>1, <1>2, <2>2 DEF RegistryTyped
    <3> QED
      BY <1>9, <3>1 DEF RegistryInv, HoldsMade, TakenByJobs
  <2> QED BY <2>1, <2>2
<1>10. ASSUME Intact(j)' PROVE Stage(j)'
  <2>1. Intact(j) /\ Stage(j)
    BY <1>1, <1>4, <1>10 DEF Intact, GoesOn, Underway
  <2>2. job'[j].old = job[j].before
    BY <1>4, <1>5, <2>1 DEF Stage, KeepsBefore, At
  <2> QED
    BY <1>4, <1>5, <2>1, <2>2 DEF Stage, GoesOn, At, SwapId
<1> QED
  BY <1>4, <1>5, <1>6, <1>8, <1>9, <1>10, KeepsInv DEF Places, SwapPlaces, At

\* Steps after which the job has ended, or goes on with its rollback.
LEMMA SwapFailsStep ==
  ASSUME RegistryInv, NEW j \in Underway, SwapFails(j)
  PROVE  RegistryInv' /\ (Ends(j) => Honest(j)')
<1>1. /\ j \in Jobs /\ RegistryTyped /\ job[j].old \in Made /\ (Intact(j) => Stage(j))
      /\ job[j].at \in {"load", "persist"} /\ job[j].kind = "evolve"
  BY JobFacts DEF SwapFails, SwapPlaces
<1>2. UNCHANGED <<plugins, loaded, snapshots>>
  BY DEF SwapFails
<1>3. plugins' \in [Ids -> Objects] /\ \A k \in Ids : plugins'[k] \in Made
  BY <1>2 DEF RegistryInv, RegistryTyped, HoldsMade
<1>4. CASE job[j].kept
  <2>1. Move(j, "restore")
    BY <1>4 DEF SwapFails
  <2>2. /\ GoesOn(j, "restore") /\ job'[j].kept = job[j].kept /\ job'[j].old = job[j].old
        /\ job'[j].intact = job[j].intact
    BY <1>1, <2>1, Moves DEF Places
  <2>3. ASSUME Intact(j)' PROVE Stage(j)'
    <3>1. Intact(j) /\ Stage(j)
      BY <1>1, <2>2, <2>3 DEF Intact, GoesOn, Underway
    <3>2. KeepsBefore(j)
      BY <1>1, <3>1 DEF Stage
    <3>3. KeepsBefore(j)'
      BY <1>1, <1>2, <2>2, <3>2, KeepsStays
    <3>4. job'[j].kept
      BY <1>4, <2>2
    <3> QED
      BY <1>1, <1>2, <2>2, <3>1, <3>3, <3>4 DEF Stage, GoesOn, At, SwapId
  <2>4. ~Ends(j)
    BY <2>2 DEF Ends, GoesOn
  <2> QED
    BY <1>1, <1>2, <1>3, <2>2, <2>3, <2>4, KeepsInvWithout DEF Places, SwapPlaces
<1>5. CASE ~job[j].kept
  <2>1. Finish(j, "rolled_back")
    BY <1>5 DEF SwapFails
  <2>2. /\ GoesOn(j, "done") /\ job'[j].old = job[j].old /\ job'[j].intact = job[j].intact
        /\ job'[j].verdict = "rolled_back"
    BY <1>1, <2>1, Finishes
  <2>3. ~Intact(j)'
    BY <2>2 DEF Intact, Underway, GoesOn
  <2>4. ASSUME Ends(j) PROVE Honest(j)'
    <3>1. Intact(j) /\ Stage(j)
      BY <1>1, <2>2, <2>4 DEF Intact, Ends
    <3>2. KeepsBefore(j)
      BY <1>1, <3>1 DEF Stage
    <3>3. job'[j].before = Nobody
      BY <1>5, <2>2, <3>2 DEF KeepsBefore, GoesOn
    <3> QED
      BY <2>2, <3>3 DEF Honest, RollbackHolds
  <2> QED
    BY <1>1, <1>2, <1>3, <2>2, <2>3, <2>4, KeepsInvWithout DEF Places, SwapPlaces
<1> QED
  BY <1>4, <1>5

\* The steps at which a job always ends.
Concludes(j) == Persist(j) \/ RestoreMissing(j) \/ RestoreLoad(j) \/ RestoreFails(j)

\* A job that ends leaves the invariant to the others.
LEMMA ConcludesStep ==
  ASSUME RegistryInv, NEW j \in Underway, Concludes(j)
  PROVE  /\ RegistryInv' /\ GoesOn(j, "done") /\ (job'[j].intact => job[j].intact)
<1>1. j \in Jobs /\ RegistryTyped /\ job[j].old \in Made
  BY JobFacts
<1>2. UNCHANGED <<plugins, snapshots>>
  BY DEF Concludes, Persist, RestoreMissing, RestoreLoad, RestoreFails
<1>3. plugins' \in [Ids -> Objects] /\ \A k \in Ids : plugins'[k] \in Made
  BY <1>2 DEF RegistryInv, RegistryTyped, HoldsMade
<1>4. GoesOn(j, "done") /\ job'[j].old = job[j].old /\ (job'[j].intact => job[j].intact)
  <2>1. CASE RestoreFails(j)
    BY <1>1, <2>1, Fails
  <2>2. CASE Persist(j) \/ RestoreMissing(j) \/ RestoreLoad(j)
    <3>1. Reported(j, "failed") \in {"rolled_back", "failed"}
      BY DEF Reported
    <3>2. \E verdict \in {"hot_swapped", "rolled_back", "failed", "conformance_failed"} :
             Finish(j, verdict)
      BY <2>2, <3>1 DEF Persist, RestoreMissing, RestoreLoad
    <3> QED BY <1>1, <3>2, Finishes
  <2> QED BY <2>1, <2>2 DEF Concludes
<1>5. ~Intact(j)'
  BY <1>4 DEF Intact, Underway, GoesOn
<1> QED
  BY <1>1, <1>2, <1>3, <1>4, <1>5, KeepsInvWithout DEF Places, SwapPlaces

\* "hot_swapped" is reported of a plugin that is live and loaded, "rolled_back" when
\* what was there before is.
LEMMA ConcludesHonestly ==
  ASSUME RegistryInv, NEW j \in Underway, Concludes(j), Ends(j)
  PROVE  Honest(j)'
<1>1. GoesOn(j, "done") /\ (job'[j].intact => job[j].intact)
  BY ConcludesStep
<1>2. /\ j \in Jobs /\ RegistryTyped /\ job[j].kind = "evolve" /\ job[j].intact
      /\ Stage(j)
  BY <1>1, JobFacts DEF Ends, Intact, GoesOn
<1>3. CASE Persist(j)
  <2>1. /\ At(j, "persist") /\ UNCHANGED <<plugins, loaded>> /\ Finish(j, "hot_swapped")
    BY <1>3 DEF Persist
  <2>2. job'[j].verdict = "hot_swapped"
    BY <1>2, <2>1, Finishes
  <2> QED
    BY <1>1, <1>2, <2>1, <2>2 DEF Honest, HotSwapHolds, Stage, GoesOn, At, SwapId, Same
<1>4. CASE RestoreMissing(j)
  <2>1. At(j, "restore") /\ Found(j) = {}
    BY <1>4 DEF RestoreMissing
  <2> QED
    BY <1>2, <2>1 DEF Stage, KeepsBefore, At
<1>5. CASE RestoreLoad(j)
  <2>1. /\ At(j, "reload") /\ UNCHANGED plugins /\ loaded' = loaded \cup {job[j].old}
        /\ Finish(j, "rolled_back")
    BY <1>5 DEF RestoreLoad
  <2>2. job'[j].verdict = "rolled_back"
    BY <1>2, <2>1, Finishes
  <2> QED
    BY <1>1, <1>2, <2>1, <2>2 DEF Honest, RollbackHolds, Stage, GoesOn, At, SwapId, Same
<1>6. CASE RestoreFails(j)
  BY <1>2, <1>6, Fails DEF Ends
<1> QED
  BY <1>3, <1>4, <1>5, <1>6 DEF Concludes

------------------------------------------------------------------------------
(* A job begins.                                                             *)

\* Job j begins at a place; of the others at most the mark "intact" changes.
Starts(j, place, kind, i, p) ==
  /\ job' \in [Jobs -> JobRecords]
  /\ \A k \in Jobs \ {j} :
       /\ job'[k].at = job[k].at
       /\ job'[k].kind = job[k].kind
       /\ job'[k].target = job[k].target
       /\ job'[k].candidate = job[k].candidate
       /\ job'[k].old = job[k].old
  /\ job'[j].at = place /\ job'[j].kind = kind /\ job'[j].target = i
  /\ job'[j].candidate = p /\ job'[j].old = Nobody

\* A job that begins keeps what does not depend on the others' marks.
LEMMA StartKeeps ==
  ASSUME RegistryInv, NEW j \in Jobs, At(j, "unborn"), NEW i \in Ids, NEW p \in Objects,
         NEW place \in Places \ {"unborn"}, NEW kind \in {"evolve", "rollback"},
         place \in SwapPlaces => kind = "evolve",
         place # "done" /\ kind = "evolve" => p \in Plugins,
         Starts(j, place, kind, i, p), UNCHANGED <<plugins, loaded, snapshots>>
  PROVE  RegistryTyped' /\ Named' /\ HoldsMade' /\ TakenByJobs'
<1>1. RegistryTyped'
  BY DEF RegistryInv, RegistryTyped, Starts
<1>2. Named'
  <2>1. ASSUME NEW k \in Jobs
        PROVE  /\ job'[k].at \in SwapPlaces => job'[k].kind = "evolve"
               /\ job'[k].at = "unborn" => job'[k].candidate = Nobody
               /\ job'[k].at \notin {"unborn", "done"} =>
                    job'[k].target \in Ids /\ job'[k].kind \in {"evolve", "rollback"}
               /\ job'[k].at \notin {"unborn", "done"} /\ job'[k].kind = "evolve" =>
                    job'[k].candidate \in Plugins
    <3>1. CASE k = j
      BY <3>1 DEF Starts
    <3>2. CASE k # j
      BY <3>2 DEF Starts, RegistryInv, Named, At, Underway
    <3> QED BY <3>1, <3>2
  <2> QED
    BY <2>1 DEF Named, At, Underway
<1>3. Made \subseteq Made'
  <2>1. job[j].candidate = Nobody
    BY DEF RegistryInv, Named
  <2>2. ASSUME NEW k \in Jobs PROVE job[k].candidate \in Made'
    <3>1. CASE k = j
      BY <2>1, <3>1 DEF Made
    <3>2. CASE k # j
      <4>1. job[k].candidate = job'[k].candidate
        BY <3>2 DEF Starts
      <4> QED BY <4>1 DEF Made
    <3> QED BY <3>1, <3>2
  <2> QED
    BY <2>2 DEF Made
<1>4. HoldsMade'
  <2>1. ASSUME NEW k \in Jobs PROVE job'[k].old \in Made'
    BY <1>3 DEF RegistryInv, HoldsMade, Starts, Made
  <2> QED
    BY <1>3, <2>1 DEF RegistryInv, HoldsMade
<1>5. TakenByJobs'
  <2>1. ASSUME NEW k \in Ids, NEW n \in DOMAIN snapshots[k]
        PROVE  job'[snapshots[k][n].job].at # "unborn"
    <3>1. snapshots[k] \in Seq(Snapshots)
      BY DEF RegistryInv, RegistryTyped
    <3>2. snapshots[k][n] \in Snapshots
      BY <3>1
    <3>3. snapshots[k][n].job \in Jobs /\ job[snapshots[k][n].job].at # "unborn"
      BY <3>2 DEF Snapshots, RegistryInv, TakenByJobs, At
    <3> QED
      BY <3>3 DEF Starts
  <2> QED
    BY <2>1 DEF TakenByJobs, At
<1> QED
  BY <1>1, <1>2, <1>4, <1>5

\* A job that begins beside others is not intact, nor are they any more.
LEMMA BegunStep ==
  ASSUME RegistryInv, NEW j \in Jobs, NextJob(j), NEW i \in Ids, NEW p \in Objects,
         NEW place \in {"snapshot", "restore"}, NEW kind \in {"evolve", "rollback"},
         NEW record, BeginsWith(record, place, kind, i, p, plugins[i]),
         kind = "evolve" <=> place = "snapshot",
         kind = "evolve" => p \in Plugins /\ Unused(p),
         job' = Begun(j, record), UNCHANGED <<plugins, loaded, snapshots>>
  PROVE  RegistryInv' /\ \A k \in Jobs : ~Ends(k)
<1>1. /\ record \in JobRecords /\ At(j, "unborn") /\ RegistryTyped
      /\ j \notin Underway
  BY DEF BeginsWith, NextJob, RegistryInv, At, Underway
<1>2. /\ job' \in [Jobs -> JobRecords]
      /\ job'[j] = [record EXCEPT !.intact = (Underway = {})]
      /\ \A k \in Jobs \ {j} :
           /\ k \notin Underway => job'[k] = job[k]
           /\ k \in Underway => job'[k] = [job[k] EXCEPT !.intact = FALSE]
  BY <1>1, Begins
<1>3. /\ job'[j].at = place /\ job'[j].kind = kind /\ job'[j].target = i
      /\ job'[j].candidate = p /\ job'[j].before = plugins[i] /\ job'[j].old = Nobody
  BY <1>1, <1>2 DEF BeginsWith, JobRecords
<1>4. job'[j].intact => Underway = {}
  <2>1. ASSUME NEW b \in BOOLEAN PROVE [record EXCEPT !.intact = b].intact = b
    BY <1>1 DEF JobRecords
  <2> QED
    BY <1>2, <2>1
<1>5. ASSUME NEW k \in Jobs \ {j}
      PROVE  /\ job'[k].at = job[k].at /\ job'[k].kind = job[k].kind
             /\ job'[k].target = job[k].target /\ job'[k].candidate = job[k].candidate
             /\ job'[k].old = job[k].old
             /\ k \in Underway => ~job'[k].intact
  <2>1. job[k] \in JobRecords
    BY <1>1 DEF RegistryTyped
  <2>2. CASE k \notin Underway
    BY <1>2, <2>2
  <2>3. CASE k \in Underway
    <3>1. job'[k] = [job[k] EXCEPT !.intact = FALSE]
      BY <1>2, <2>3
    <3> QED
      BY <2>1, <3>1 DEF JobRecords
  <2> QED BY <2>2, <2>3
<1>6. Starts(j, place, kind, i, p)
  BY <1>2, <1>3, <1>5 DEF Starts
<1>7. RegistryTyped' /\ Named' /\ HoldsMade' /\ TakenByJobs'
  BY <1>1, <1>6, StartKeeps DEF Places, SwapPlaces
<1>8. \A k \in Jobs \ {j} : k \in Underway' <=> k \in Underway
  BY <1>5 DEF Underway
<1>9. ASSUME NEW k \in Underway', job'[k].intact
      PROVE  k = j /\ Underway' = {k}
  <2>1. k \in Jobs
    BY DEF Underway
  <2>2. k = j
    BY <1>5, <1>8, <1>9, <2>1
  <2>3. Underway' \subseteq Jobs
    BY DEF Underway
  <2> QED
    BY <1>4, <1>8, <1>9, <2>2, <2>3
<1>10. IntactAlone'
  BY <1>9 DEF IntactAlone
<1>11. StagesOK'
  <2>1. ASSUME Intact(j)' PROVE Stage(j)'
    <3>1. kind = "evolve" /\ place = "snapshot"
      BY <1>3, <2>1 DEF Intact
    <3>2. p \notin Made
      BY <3>1, PluginAssumption DEF Unused, Made
    <3>3. plugins[i] # p
      BY <3>2 DEF RegistryInv, HoldsMade
    <3>4. \A n \in DOMAIN snapshots[i] : snapshots[i][n].job # j
      BY <1>1 DEF RegistryInv, TakenByJobs, At
    <3> QED
      BY <1>3, <3>1, <3>3, <3>4 DEF Stage, At
  <2>2. \A k \in Jobs : Intact(k)' => k = j
    BY <1>9 DEF Intact
  <2> QED
    BY <2>1, <2>2 DEF StagesOK
<1>12. \A k \in Jobs : ~Ends(k)
  BY <1>3, <1>5 DEF Ends, At
<1> QED
  BY <1>7, <1>10, <1>11, <1>12 DEF RegistryInv

\* An evolution that is refused touches nothing.
LEMMA RefusedStep ==
  ASSUME RegistryInv, NEW j \in Jobs, NEW i \in Ids, BeginRefused(j, i)
  PROVE  RegistryInv' /\ \A k \in Jobs : Ends(k) => Honest(k)'
<1> DEFINE record == [NewJob EXCEPT !.at = "done", !.kind = "evolve", !.target = i,
                                    !.verdict = "conformance_failed"]
<1>1. /\ BeginsWith(record, "done", "evolve", i, Nobody, Nobody)
      /\ record.verdict = "conformance_failed"
  BY RefusedRecord
<1>2. /\ At(j, "unborn") /\ RegistryTyped /\ UNCHANGED <<plugins, loaded, snapshots>>
      /\ job' = [job EXCEPT ![j] = record]
  BY DEF BeginRefused, NextJob, RegistryInv, At
<1> HIDE DEF record
<1>3. /\ job' \in [Jobs -> JobRecords] /\ job'[j] = record
      /\ \A k \in Jobs \ {j} : job'[k] = job[k]
  BY <1>1, <1>2 DEF BeginsWith, RegistryTyped
<1>4. Starts(j, "done", "evolve", i, Nobody)
  BY <1>1, <1>3 DEF Starts, BeginsWith
<1>5. RegistryTyped' /\ Named' /\ HoldsMade' /\ TakenByJobs'
  BY <1>2, <1>4, StartKeeps DEF Places, SwapPlaces, Objects
<1>6. Underway' = Underway /\ j \notin Underway
  BY <1>2, <1>4, <1>3 DEF Underway, Starts, At
<1>7. IntactAlone'
  BY <1>3, <1>6 DEF RegistryInv, IntactAlone, Underway
<1>8. ASSUME NEW k \in Jobs, Intact(k)' PROVE Stage(k)'
  <2>1. k # j /\ job'[k] = job[k]
    BY <1>3, <1>6, <1>8 DEF Intact
  <2>2. Stage(k)
    BY <1>6, <1>8, <2>1 DEF Intact, RegistryInv, StagesOK
  <2>3. Found(k)' = Found(k)
    BY <1>2, <2>1 DEF Found
  <2>4. KeepsBefore(k)' = KeepsBefore(k)
    BY <1>2, <2>1, <2>3 DEF KeepsBefore
  <2> QED
    BY <1>2, <2>1, <2>2, <2>4 DEF Stage, At, SwapId, Same
<1>9. ASSUME NEW k \in Jobs, Ends(k) PROVE Honest(k)'
  <2>1. k = j
    BY <1>3, <1>9 DEF Ends, At
  <2> QED
    BY <1>1, <1>3, <2>1 DEF Honest
<1> QED
  BY <1>5, <1>7, <1>8, <1>9 DEF RegistryInv, StagesOK

------------------------------------------------------------------------------
(* The reports of evolutions.                                                *)

\* Initially no job has begun.
LEMMA RegistryStarts == InitRegistry => RegistryInv
<1> SUFFICES ASSUME InitRegistry PROVE RegistryInv
  OBVIOUS
<1>1. NewJob \in JobRecords /\ NewJob.at = "unborn" /\ NewJob.candidate = Nobody
      /\ NewJob.old = Nobody
  BY DEF NewJob, JobRecords, Places, Objects
<1>2. \A j \in Jobs : job[j] = NewJob
  BY DEF InitRegistry
<1>3. RegistryTyped
  BY <1>1, PluginAssumption DEF InitRegistry, RegistryTyped, Objects
<1>4. Underway = {}
  BY <1>1, <1>2 DEF Underway
<1>5. Named
  BY <1>1, <1>2, <1>4 DEF Named, SwapPlaces
<1>6. \A i \in Ids : snapshots[i] = <<>>
  BY DEF InitRegistry
<1>7. HoldsMade
  BY <1>1, <1>2, <1>6 DEF InitRegistry, HoldsMade, Made
<1>8. TakenByJobs
  BY <1>6 DEF TakenByJobs
<1>9. IntactAlone /\ StagesOK
  BY <1>4 DEF IntactAlone, StagesOK, Intact
<1> QED
  BY <1>3, <1>5, <1>7, <1>8, <1>9 DEF RegistryInv

\* A step of a job.
LEMMA JobStepKeeps ==
  ASSUME RegistryInv, NEW j \in Jobs, JobStep(j)
  PROVE  RegistryInv' /\ \A k \in Jobs : Ends(k) => Honest(k)'
<1>1. j \in Underway
  BY DEF JobStep, TakeSnapshot, SwapSnapshot, SwapUnload, SwapInstall, SwapLoad, Persist,
         SwapFails, RestorePop, RestoreMissing, RestoreDiscard, RestoreInstall,
         RestoreLoad, RestoreFails, At, Underway
<1>2. RegistryTyped
  BY DEF RegistryInv
<1>3. ASSUME NEW place, GoesOn(j, place), place # "done" \/ (Ends(j) => Honest(j)')
      PROVE  \A k \in Jobs : Ends(k) => Honest(k)'
  <2>1. ASSUME NEW k \in Jobs, Ends(k) PROVE k = j /\ place = "done"
    BY <1>3, <2>1 DEF GoesOn, Ends, At
  <2> QED
    BY <1>3, <2>1
<1>4. CASE TakeSnapshot(j)
  BY <1>1, <1>2, <1>3, <1>4, TakeSnapshotStep, TakesSnapshot
<1>5. CASE SwapSnapshot(j)
  <2>1. SwapId(j) \in Ids
    BY <1>1, <1>5, JobFacts DEF SwapSnapshot, SwapPlaces, At
  <2> QED
    BY <1>1, <1>2, <1>3, <1>5, <2>1, SwapSnapshotStep, NotesOld
<1>6. CASE MovesOn(j)
  <2>1. \E place \in Places \ {"done"} : Move(j, place)
    BY <1>6 DEF MovesOn, SwapUnload, SwapInstall, SwapLoad, RestoreDiscard, RestoreInstall,
                Places
  <2> QED
    BY <1>1, <1>2, <1>3, <1>6, <2>1, MovesOnStep, Moves
<1>7. CASE SwapFails(j)
  <2>1. \E place : GoesOn(j, place)
    <3>1. CASE Move(j, "restore")
      BY <1>2, <3>1, Moves DEF Places
    <3>2. CASE Finish(j, "rolled_back")
      BY <1>2, <3>2, Finishes
    <3> QED
      BY <1>7, <3>1, <3>2 DEF SwapFails
  <2> QED
    BY <1>1, <1>3, <1>7, <2>1, SwapFailsStep
<1>8. CASE RestorePop(j)
  <2>1. PICK n \in Found(j) :
          job' = [job EXCEPT ![j].at = "discard",
                             ![j].old = snapshots[job[j].target][n].instance]
    BY <1>8 DEF RestorePop
  <2>2. job[j].target \in Ids
    BY <1>1, JobFacts
  <2>3. n \in DOMAIN snapshots[job[j].target]
    BY DEF Found
  <2>4. GoesOn(j, "discard")
    BY <1>2, <2>1, <2>2, <2>3, TakesOut
  <2> QED
    BY <1>1, <1>3, <1>8, <2>4, RestorePopStep
<1>9. CASE Concludes(j)
  BY <1>1, <1>3, <1>9, ConcludesStep, ConcludesHonestly
<1> QED
  BY <1>4, <1>5, <1>6, <1>7, <1>8, <1>9 DEF JobStep, MovesOn, Concludes

\* A rollback or an evolution begins.
LEMMA BeginKeeps ==
  ASSUME RegistryInv, NEW j \in Jobs, NEW i \in Ids,
         BeginRollback(j, i) \/ \E p \in Plugins : BeginEvolve(j, i, p)
  PROVE  RegistryInv' /\ \A k \in Jobs : ~Ends(k)
<1>1. plugins[i] \in Objects
  BY DEF RegistryInv, RegistryTyped
<1>2. CASE BeginRollback(j, i)
  <2> DEFINE record == [NewJob EXCEPT !.at = "restore", !.kind = "rollback", !.target = i,
                                      !.before = plugins[i]]
  <2>1. \A p \in Plugins : BeginsWith(record, "restore", "rollback", i, Nobody, plugins[i])
    BY <1>1, NewRecords
  <2>2. BeginsWith(record, "restore", "rollback", i, Nobody, plugins[i])
    BY <2>1, TurnAssumption, PluginAssumption
  <2>3. NextJob(j) /\ job' = Begun(j, record) /\ UNCHANGED <<plugins, loaded, snapshots>>
    BY <1>2 DEF BeginRollback
  <2> HIDE DEF record
  <2>4. Nobody \in Objects
    BY DEF Objects
  <2> QED
    BY <2>2, <2>3, <2>4, BegunStep
<1>3. ASSUME NEW p \in Plugins, BeginEvolve(j, i, p)
      PROVE  RegistryInv' /\ \A k \in Jobs : ~Ends(k)
  <2> DEFINE record == [NewJob EXCEPT !.at = "snapshot", !.kind = "evolve", !.target = i,
                                      !.candidate = p, !.before = plugins[i]]
  <2>1. BeginsWith(record, "snapshot", "evolve", i, p, plugins[i])
    BY <1>1, NewRecords
  <2>2. /\ NextJob(j) /\ job' = Begun(j, record) /\ UNCHANGED <<plugins, loaded, snapshots>>
        /\ Unused(p)
    BY <1>3 DEF BeginEvolve
  <2> HIDE DEF record
  <2>3. p \in Objects
    BY DEF Objects
  <2> QED
    BY <2>1, <2>2, <2>3, BegunStep
<1> QED
  BY <1>2, <1>3

\* Every step of the registry.
LEMMA RegistryKeeps ==
  ASSUME RegistryInv, [RegistryStep]_registryVars
  PROVE  RegistryInv' /\ \A k \in Jobs : Ends(k) => Honest(k)'
<1>1. ASSUME NEW j \in Jobs, JobStep(j)
      PROVE  RegistryInv' /\ \A k \in Jobs : Ends(k) => Honest(k)'
  BY <1>1, JobStepKeeps
<1>2. ASSUME NEW j \in Jobs, NEW i \in Ids, BeginRefused(j, i)
      PROVE  RegistryInv' /\ \A k \in Jobs : Ends(k) => Honest(k)'
  BY <1>2, RefusedStep
<1>3. ASSUME NEW j \in Jobs, NEW i \in Ids,
             BeginRollback(j, i) \/ \E p \in Plugins : BeginEvolve(j, i, p)
      PROVE  RegistryInv' /\ \A k \in Jobs : Ends(k) => Honest(k)'
  BY <1>3, BeginKeeps
<1>4. CASE UNCHANGED registryVars
  <2>1. UNCHANGED <<plugins, loaded, snapshots, job>>
    BY <1>4 DEF registryVars
  <2>2. \A k \in Jobs : ~Ends(k)
    BY <2>1 DEF Ends, At
  <2>3. RegistryTyped' /\ Named' /\ HoldsMade' /\ TakenByJobs' /\ IntactAlone'
    BY <2>1 DEF RegistryInv, RegistryTyped, Named, HoldsMade, TakenByJobs, IntactAlone,
                Made, At, Underway
  <2>4. ASSUME NEW k \in Jobs
        PROVE  /\ Intact(k)' = Intact(k)
               /\ Stage(k)' = Stage(k)
    BY <2>1 DEF Intact, Stage, Underway, At, Found, KeepsBefore, SwapId, Same
  <2> QED
    BY <2>2, <2>3, <2>4 DEF RegistryInv, StagesOK
<1> QED
  BY <1>1, <1>2, <1>3, <1>4 DEF RegistryStep

\* What evolve_plugin reports is true of the registry, whatever callbacks raise, if no
\* other job ran at the same time: for any number of plugins, jobs and turns.
THEOREM EvolutionReportsHonestly == Spec => EvolutionHonest
<1>1. Init => RegistryInv
  BY RegistryStarts DEF Init
<1>2. RegistryInv /\ [Next]_vars => RegistryInv'
  BY StepsRegistry, RegistryKeeps
<1>3. RegistryInv /\ [Next]_vars =>
        [\A j \in Jobs : Ends(j) =>
           /\ job'[j].verdict = "hot_swapped" => HotSwapHolds(j)'
           /\ job'[j].verdict = "rolled_back" => RollbackHolds(j)']_registryVars
  BY StepsRegistry, RegistryKeeps DEF Honest
<1> QED
  BY <1>1, <1>2, <1>3, PTL DEF Spec, EvolutionHonest

------------------------------------------------------------------------------
(* Results follow their calls.                                               *)

\* What Append makes of the memory, by its messages.
LEMMA MessageAppended ==
  ASSUME messages \in Seq(Messages), NEW m \in Messages, messages' = Append(messages, m)
  PROVE  /\ messages' \in Seq(Messages) /\ messages' # <<>>
         /\ DOMAIN messages' = 1..(Len(messages) + 1)
         /\ Len(messages') = Len(messages) + 1
         /\ messages'[Len(messages')] = m
         /\ \A n \in 1..Len(messages) : messages'[n] = messages[n]
<1>1. /\ messages' \in Seq(Messages) /\ Len(messages') = Len(messages) + 1
      /\ messages'[Len(messages) + 1] = m
      /\ \A n \in 1..Len(messages) : messages'[n] = messages[n]
  OBVIOUS
<1>2. messages' # <<>>
  BY <1>1
<1> QED
  BY <1>1, <1>2

\* The message before a tool's result is its call, or the result before it.
Follows(earlier, later) ==
  earlier = [later EXCEPT !.n = @ - 1,
                          !.kind = IF later.n = 1 THEN "assistant" ELSE "tool"]

\* A message that is no result, or follows what it has to, keeps the property.
LEMMA AppendKeepsOrder ==
  ASSUME messages \in Seq(Messages), ResultsFollowCalls, UNCHANGED cleared,
         NEW m \in Messages, messages' = Append(messages, m),
         m.kind = "tool" =>
           IF messages = <<>> THEN cleared ELSE Follows(messages[Len(messages)], m)
  PROVE  ResultsFollowCalls'
<1>1. /\ DOMAIN messages' = 1..(Len(messages) + 1)
      /\ messages'[Len(messages) + 1] = m
      /\ \A n \in 1..Len(messages) : messages'[n] = messages[n]
      /\ Len(messages) \in Nat /\ DOMAIN messages = 1..Len(messages)
  BY MessageAppended
<1>2. ASSUME NEW n \in DOMAIN messages', messages'[n].kind = "tool"
      PROVE  \/ n = 1 /\ cleared'
             \/ n > 1 /\ Follows(messages'[n - 1], messages'[n])
  <2>1. CASE n \in 1..Len(messages)
    <3>1. messages'[n] = messages[n] /\ n \in DOMAIN messages
      BY <1>1, <2>1
    <3>2. \/ n = 1 /\ cleared
          \/ n > 1 /\ Follows(messages[n - 1], messages[n])
      BY <1>2, <3>1 DEF ResultsFollowCalls, Follows
    <3>3. n > 1 => messages'[n - 1] = messages[n - 1]
      BY <1>1, <2>1
    <3> QED
      BY <3>1, <3>2, <3>3
  <2>2. CASE n = Len(messages) + 1
    <3>1. messages'[n] = m
      BY <1>1, <2>2
    <3>2. CASE messages = <<>>
      <4>1. Len(messages) = 0
        BY <3>2
      <4> QED
        BY <1>2, <2>2, <3>1, <3>2, <4>1
    <3>3. CASE messages # <<>>
      <4>1. Len(messages) > 0
        BY <3>3
      <4>2. n - 1 = Len(messages) /\ n > 1 /\ Len(messages) \in 1..Len(messages)
        BY <1>1, <2>2, <4>1
      <4>3. messages'[n - 1] = messages[Len(messages)] /\ n > 1
        BY <1>1, <4>2
      <4> QED
        BY <1>2, <3>1, <3>3, <4>3
    <3> QED BY <3>2, <3>3
  <2> QED
    BY <1>1, <2>1, <2>2
<1> QED
  BY <1>2 DEF ResultsFollowCalls, Follows

\* A record of a turn is replaced by another.
LEMMA TurnReplaced ==
  ASSUME turn \in [Turns -> TurnRecords], NEW t \in Turns, NEW record \in TurnRecords,
         turn' = [turn EXCEPT ![t] = record]
  PROVE  /\ turn' \in [Turns -> TurnRecords] /\ turn'[t] = record
         /\ \A u \in Turns \ {t} : turn'[u] = turn[u]
OBVIOUS

\* The event loop tells turns, jobs and nobody apart.
LEMMA LoopHolders ==
  ASSUME NEW t \in Turns, NEW j \in Jobs
  PROVE  ByTurn(t) # Free /\ ByTurn(t) # ByJob(j) /\ \A u \in Turns : ByTurn(t) = ByTurn(u) => t = u
BY TurnAssumption DEF ByTurn, ByJob, Free

\* While nobody holds the loop no turn appends results.
LEMMA NoneAppends ==
  ASSUME LoopHeld, loop = Free PROVE \A t \in Turns : turn[t].at # "results"
BY TurnAssumption DEF LoopHeld, ByTurn, Free

\* A turn that is at another place when nobody held the loop leaves the rest alone.
LEMMA OutsideResults ==
  ASSUME MemoryInv, loop = Free, NEW t \in Turns, NEW record \in TurnRecords,
         turn' = [turn EXCEPT ![t] = record], record.at # "results",
         messages' \in Seq(Messages), cleared' \in BOOLEAN, ResultsFollowCalls'
  PROVE  MemoryInv'
<1>1. /\ turn' \in [Turns -> TurnRecords] /\ turn'[t] = record
      /\ \A u \in Turns \ {t} : turn'[u] = turn[u]
  BY TurnReplaced DEF MemoryInv, TurnsTyped
<1>2. \A u \in Turns : turn'[u].at # "results"
  BY <1>1, NoneAppends DEF MemoryInv
<1> QED
  BY <1>1, <1>2 DEF MemoryInv, TurnsTyped, LoopHeld, LastIsOwn

\* A turn begins, generates, calls its tools, or ends.
LEMMA TurnWaitsStep ==
  ASSUME MemoryInv, NEW t \in Turns,
         BeginTurn(t) \/ Generate(t) \/ EndTurn(t) \/ CallTool(t) \/ CallEvolve(t)
           \/ EvolveReturns(t)
  PROVE  MemoryInv'
<1>1. loop = Free /\ turn \in [Turns -> TurnRecords] /\ turn[t] \in TurnRecords
      /\ messages \in Seq(Messages) /\ cleared \in BOOLEAN
  BY DEF BeginTurn, Generate, EndTurn, CallTool, CallEvolve, EvolveReturns, InTurn,
         MemoryInv, TurnsTyped
<1>2. ASSUME UNCHANGED <<messages, cleared>>,
             NEW record \in TurnRecords, record.at # "results",
             turn' = [turn EXCEPT ![t] = record]
      PROVE  MemoryInv'
  <2>1. ResultsFollowCalls'
    BY <1>2 DEF MemoryInv, ResultsFollowCalls
  <2> QED
    BY <1>1, <1>2, <2>1, OutsideResults
<1>3. CASE BeginTurn(t)
  <2> DEFINE record == [NewTurn EXCEPT !.at = "generate", !.memory = HasMemory, !.step = 1]
             m == [turn |-> t, step |-> 0, kind |-> "user", n |-> 0]
  <2>1. record \in TurnRecords /\ record.at = "generate"
    <3>1. HasMemory \in BOOLEAN
      BY DEF HasMemory
    <3> QED
      BY <3>1 DEF NewTurn, TurnRecords
  <2>2. /\ turn' = [turn EXCEPT ![t] = record] /\ UNCHANGED <<loop, cleared>>
        /\ messages' = IF HasMemory THEN Append(messages, m) ELSE messages
    BY <1>3 DEF BeginTurn
  <2>3. m \in Messages /\ m.kind = "user"
    BY DEF Messages, Kinds
  <2> HIDE DEF record, m
  <2>4. CASE HasMemory
    <3>1. ResultsFollowCalls'
      BY <1>1, <2>2, <2>3, <2>4, AppendKeepsOrder DEF MemoryInv
    <3>2. messages' \in Seq(Messages)
      BY <1>1, <2>2, <2>3, <2>4
    <3> QED
      BY <1>1, <2>1, <2>2, <3>1, <3>2, OutsideResults
  <2>5. CASE ~HasMemory
    BY <1>2, <2>1, <2>2, <2>5
  <2> QED BY <2>4, <2>5
<1>4. CASE Generate(t)
  <2>1. PICK n \in 1..MaxCalls :
          turn' = [turn EXCEPT ![t].at = "call", ![t].calls = n, ![t].ran = 0]
    BY <1>4 DEF Generate
  <2> DEFINE record == [turn[t] EXCEPT !.at = "call", !.calls = n, !.ran = 0]
  <2>2. record \in TurnRecords /\ record.at = "call"
    <3>1. n \in Nat
      BY TurnAssumption
    <3>2. [turn[t] EXCEPT !.at = "call", !.calls = n] \in TurnRecords
      BY <1>1, <3>1 DEF TurnRecords
    <3>3. record \in TurnRecords
      BY <3>2 DEF TurnRecords
    <3> QED BY <1>1, <3>3 DEF TurnRecords
  <2>3. turn' = [turn EXCEPT ![t] = record]
    BY <1>1, <2>1
  <2> HIDE DEF record
  <2> QED
    BY <1>2, <1>4, <2>2, <2>3 DEF Generate
<1>5. CASE EndTurn(t)
  <2> DEFINE record == [turn[t] EXCEPT !.at = "done"]
  <2>1. record \in TurnRecords /\ record.at = "done"
    BY <1>1 DEF TurnRecords
  <2>2. turn' = [turn EXCEPT ![t] = record]
    BY <1>1, <1>5 DEF EndTurn
  <2> HIDE DEF record
  <2> QED
    BY <1>2, <1>5, <2>1, <2>2 DEF EndTurn
<1>6. CASE CallTool(t)
  <2> DEFINE record == [turn[t] EXCEPT !.ran = @ + 1]
  <2>1. record \in TurnRecords /\ record.at = turn[t].at
    <3>1. turn[t].ran + 1 \in Nat
      BY <1>1 DEF TurnRecords
    <3> QED BY <1>1, <3>1 DEF TurnRecords
  <2>2. turn' = [turn EXCEPT ![t] = record] /\ turn[t].at = "call"
    BY <1>1, <1>6 DEF CallTool, InTurn
  <2> HIDE DEF record
  <2> QED
    BY <1>2, <1>6, <2>1, <2>2 DEF CallTool
<1>7. CASE CallEvolve(t)
  <2>1. PICK j \in Jobs : turn' = [turn EXCEPT ![t].at = "wait", ![t].waits = j]
    BY <1>7 DEF CallEvolve
  <2> DEFINE record == [turn[t] EXCEPT !.at = "wait", !.waits = j]
  <2>2. record \in TurnRecords /\ record.at = "wait"
    BY <1>1, PluginAssumption DEF TurnRecords
  <2>3. turn' = [turn EXCEPT ![t] = record]
    BY <1>1, <2>1
  <2> HIDE DEF record
  <2> QED
    BY <1>2, <1>7, <2>2, <2>3 DEF CallEvolve
<1>8. CASE EvolveReturns(t)
  <2> DEFINE record == [turn[t] EXCEPT !.at = "call", !.ran = @ + 1, !.waits = 0]
  <2>1. record \in TurnRecords /\ record.at = "call"
    <3>1. turn[t].ran + 1 \in Nat
      BY <1>1 DEF TurnRecords
    <3>2. [turn[t] EXCEPT !.at = "call", !.ran = @ + 1] \in TurnRecords
      BY <1>1, <3>1 DEF TurnRecords
    <3>3. record \in TurnRecords
      BY <3>2 DEF TurnRecords
    <3> QED BY <1>1, <3>3 DEF TurnRecords
  <2>2. turn' = [turn EXCEPT ![t] = record]
    BY <1>1, <1>8 DEF EvolveReturns
  <2> HIDE DEF record
  <2> QED
    BY <1>2, <1>8, <2>1, <2>2 DEF EvolveReturns
<1> QED
  BY <1>3, <1>4, <1>5, <1>6, <1>7, <1>8

\* The assistant's message is appended, and the turn keeps the loop for the results.
LEMMA AppendStepStep ==
  ASSUME MemoryInv, NEW t \in Turns, AppendStep(t)
  PROVE  MemoryInv'
<1> DEFINE record == [turn[t] EXCEPT !.at = "results", !.wrote = 0]
           m == Message(t, "assistant", 0)
<1>1. /\ loop = Free /\ turn \in [Turns -> TurnRecords] /\ turn[t] \in TurnRecords
      /\ messages \in Seq(Messages) /\ cleared \in BOOLEAN
      /\ loop' = ByTurn(t) /\ UNCHANGED cleared
      /\ messages' = IF turn[t].memory THEN Append(messages, m) ELSE messages
  BY DEF AppendStep, AppendMessage, InTurn, MemoryInv, TurnsTyped
<1>2. record \in TurnRecords /\ record.at = "results" /\ record.wrote = 0
      /\ record.step = turn[t].step
  BY <1>1 DEF TurnRecords
<1>3. record.memory = turn[t].memory
  BY <1>1 DEF TurnRecords
<1>4. turn' = [turn EXCEPT ![t] = record]
  BY <1>1 DEF AppendStep
<1>5. /\ m \in Messages /\ m.kind = "assistant"
      /\ m = [turn |-> t, step |-> turn[t].step, kind |-> "assistant", n |-> 0]
  BY <1>1 DEF Message, Messages, Kinds, TurnRecords
<1> HIDE DEF record, m
<1>6. /\ turn' \in [Turns -> TurnRecords] /\ turn'[t] = record
      /\ \A u \in Turns \ {t} : turn'[u] = turn[u]
  BY <1>1, <1>2, <1>4, TurnReplaced
<1>7. \A u \in Turns \ {t} : turn'[u].at # "results"
  BY <1>1, <1>6, NoneAppends DEF MemoryInv
<1>8. LoopHeld'
  BY <1>1, <1>7 DEF LoopHeld, ByTurn
<1>9. CASE turn[t].memory
  <2>1. messages' = Append(messages, m)
    BY <1>1, <1>9
  <2>2. /\ messages' \in Seq(Messages) /\ messages' # <<>>
        /\ messages'[Len(messages')] = m
    BY <1>1, <1>5, <2>1, MessageAppended
  <2>3. ResultsFollowCalls'
    BY <1>1, <1>5, <2>1, AppendKeepsOrder DEF MemoryInv
  <2>4. Latest(t)' = m
    BY <1>2, <1>5, <1>6 DEF Latest, Message
  <2>5. LastIsOwn'
    BY <1>7, <2>2, <2>4 DEF LastIsOwn
  <2> QED
    BY <1>1, <1>6, <1>8, <2>2, <2>3, <2>5 DEF MemoryInv, TurnsTyped
<1>10. CASE ~turn[t].memory
  <2>1. messages' = messages
    BY <1>1, <1>10
  <2>2. ~turn'[t].memory
    BY <1>3, <1>6, <1>10
  <2>3. LastIsOwn'
    BY <1>7, <2>2 DEF LastIsOwn
  <2>4. ResultsFollowCalls'
    BY <1>1, <2>1 DEF MemoryInv, ResultsFollowCalls
  <2> QED
    BY <1>1, <1>6, <1>8, <2>1, <2>3, <2>4 DEF MemoryInv, TurnsTyped
<1> QED
  BY <1>9, <1>10

\* What the next result follows.
LEMMA ResultFollows ==
  ASSUME NEW t, NEW step, NEW n \in Nat, NEW m,
         m = [turn |-> t, step |-> step, kind |-> "tool", n |-> n + 1]
  PROVE  Follows([turn |-> t, step |-> step,
                  kind |-> IF n = 0 THEN "assistant" ELSE "tool", n |-> n], m)
<1>1. ASSUME NEW kind
      PROVE  [m EXCEPT !.n = n, !.kind = kind]
               = [turn |-> t, step |-> step, kind |-> kind, n |-> n]
  <2> DEFINE sort == [turn : {t}, step : {step}, kind : {"tool", kind}, n : {n, n + 1}]
             after == [m EXCEPT !.n = n, !.kind = kind]
  <2>1. m \in sort
    OBVIOUS
  <2>2. [m EXCEPT !.n = n] \in sort /\ [m EXCEPT !.n = n].n = n
    BY <2>1
  <2>3. after \in sort /\ after.n = n /\ after.kind = kind
    BY <2>2
  <2> HIDE DEF after
  <2>4. after = [turn |-> after.turn, step |-> after.step, kind |-> after.kind, n |-> after.n]
    BY <2>3
  <2>5. after.turn = t /\ after.step = step
    BY <2>3
  <2>6. after = [turn |-> t, step |-> step, kind |-> kind, n |-> n]
    BY <2>3, <2>4, <2>5
  <2> QED
    BY <2>6 DEF after
<1>2. m.n - 1 = n /\ (m.n = 1 <=> n = 0)
  OBVIOUS
<1>3. CASE n = 0
  BY <1>1, <1>2, <1>3 DEF Follows
<1>4. CASE n # 0
  BY <1>1, <1>2, <1>4 DEF Follows
<1> QED
  BY <1>3, <1>4

\* A result is appended behind the turn's last message, since nobody else could append.
LEMMA AppendResultStep ==
  ASSUME MemoryInv, NEW t \in Turns, AppendResult(t)
  PROVE  MemoryInv'
<1> DEFINE last == turn[t].wrote + 1 = turn[t].calls
           record == IF last THEN [turn[t] EXCEPT !.at = "generate", !.step = @ + 1]
                     ELSE [turn[t] EXCEPT !.wrote = @ + 1]
           m == Message(t, "tool", turn[t].wrote + 1)
<1>1. /\ loop = ByTurn(t) /\ turn \in [Turns -> TurnRecords] /\ turn[t] \in TurnRecords
      /\ turn[t].at = "results"
      /\ messages \in Seq(Messages) /\ cleared \in BOOLEAN
      /\ loop' = (IF last THEN Free ELSE loop) /\ UNCHANGED cleared
      /\ messages' = IF turn[t].memory THEN Append(messages, m) ELSE messages
  BY DEF AppendResult, AppendMessage, MemoryInv, TurnsTyped
<1>2. turn[t].wrote \in Nat /\ turn[t].step \in Nat
  BY <1>1 DEF TurnRecords
<1>3. record \in TurnRecords
  <2>1. turn[t].wrote + 1 \in Nat /\ turn[t].step + 1 \in Nat
    BY <1>2
  <2>2. [turn[t] EXCEPT !.wrote = @ + 1] \in TurnRecords
    BY <1>1, <2>1 DEF TurnRecords
  <2>3. [turn[t] EXCEPT !.at = "generate", !.step = @ + 1] \in TurnRecords
    BY <1>1, <2>1 DEF TurnRecords
  <2> QED BY <2>2, <2>3
<1>4. last => record.at = "generate"
  BY <1>1 DEF TurnRecords
<1>5. ~last => /\ record.at = "results" /\ record.wrote = turn[t].wrote + 1
               /\ record.step = turn[t].step
  BY <1>1 DEF TurnRecords
<1>6. record.memory = turn[t].memory
  <2>1. [turn[t] EXCEPT !.wrote = @ + 1].memory = turn[t].memory
    BY <1>1 DEF TurnRecords
  <2>2. [turn[t] EXCEPT !.at = "generate", !.step = @ + 1].memory = turn[t].memory
    BY <1>1 DEF TurnRecords
  <2> QED BY <2>1, <2>2
<1>7. turn' = [turn EXCEPT ![t] = record]
  BY DEF AppendResult
<1>8. /\ m \in Messages /\ m.kind = "tool"
      /\ m = [turn |-> t, step |-> turn[t].step, kind |-> "tool", n |-> turn[t].wrote + 1]
  BY <1>2 DEF Message, Messages, Kinds
<1>9. Follows(Latest(t), m)
  BY <1>2, <1>8, ResultFollows DEF Latest, Message
<1> HIDE DEF record, m, last
<1>10. /\ turn' \in [Turns -> TurnRecords] /\ turn'[t] = record
       /\ \A u \in Turns \ {t} : turn'[u] = turn[u]
  BY <1>1, <1>3, <1>7, TurnReplaced
<1>11. \A u \in Turns \ {t} : turn'[u].at # "results"
  BY <1>1, <1>10 DEF MemoryInv, LoopHeld, ByTurn
<1>12. LoopHeld'
  BY <1>1, <1>4, <1>5, <1>10, <1>11 DEF LoopHeld, ByTurn
<1>13. CASE turn[t].memory
  <2>1. messages' = Append(messages, m)
    BY <1>1, <1>13
  <2>2. /\ messages' \in Seq(Messages) /\ messages' # <<>>
        /\ messages'[Len(messages')] = m
    BY <1>1, <1>8, <2>1, MessageAppended
  <2>3. IF messages = <<>> THEN cleared ELSE messages[Len(messages)] = Latest(t)
    BY <1>1, <1>13 DEF MemoryInv, LastIsOwn
  <2>4. ResultsFollowCalls'
    BY <1>1, <1>8, <1>9, <2>1, <2>3, AppendKeepsOrder DEF MemoryInv
  <2>5. ~last => Latest(t)' = m
    BY <1>2, <1>5, <1>8, <1>10 DEF Latest, Message
  <2>6. LastIsOwn'
    BY <1>4, <1>10, <1>11, <2>2, <2>5 DEF LastIsOwn
  <2> QED
    BY <1>1, <1>10, <1>12, <2>2, <2>4, <2>6 DEF MemoryInv, TurnsTyped
<1>14. CASE ~turn[t].memory
  <2>1. messages' = messages
    BY <1>1, <1>14
  <2>2. ~turn'[t].memory
    BY <1>6, <1>10, <1>14
  <2>3. LastIsOwn'
    BY <1>11, <2>2 DEF LastIsOwn
  <2>4. ResultsFollowCalls'
    BY <1>1, <2>1 DEF MemoryInv, ResultsFollowCalls
  <2> QED
    BY <1>1, <1>10, <1>12, <2>1, <2>3, <2>4 DEF MemoryInv, TurnsTyped
<1> QED
  BY <1>13, <1>14

\* A job may take the loop while nobody holds it; its steps append nothing, though they
\* may clear the memory while a turn appends.
LEMMA JobsKeepOrder ==
  ASSUME MemoryInv, NEW j \in Jobs, EndpointBegins(j) \/ JobGoesOn(j)
  PROVE  MemoryInv'
<1>1. /\ UNCHANGED turn /\ cleared \in BOOLEAN
      /\ turn \in [Turns -> TurnRecords] /\ messages \in Seq(Messages)
  BY DEF EndpointBegins, JobGoesOn, MemoryInv, TurnsTyped
<1>2. LoopHeld'
  <2>1. ASSUME NEW t \in Turns, turn[t].at = "results" PROVE loop' = ByTurn(t)
    <3>1. loop = ByTurn(t)
      BY <2>1 DEF MemoryInv, LoopHeld
    <3> QED
      BY <3>1, LoopHolders DEF EndpointBegins, JobGoesOn
  <2> QED
    BY <1>1, <2>1 DEF LoopHeld
<1>3. CASE UNCHANGED <<messages, cleared>>
  <2>1. \A t \in Turns : Latest(t)' = Latest(t)
    BY <1>1 DEF Latest, Message
  <2> QED
    BY <1>1, <1>2, <1>3, <2>1
       DEF MemoryInv, TurnsTyped, LastIsOwn, ResultsFollowCalls
<1>4. CASE messages' = <<>> /\ cleared'
  <2>1. messages' \in Seq(Messages) /\ cleared' \in BOOLEAN
    <3>1. cleared' \in BOOLEAN
      BY <1>1 DEF EndpointBegins, JobGoesOn
    <3> QED BY <1>4, <3>1
  <2>2. ResultsFollowCalls'
    BY <1>4 DEF ResultsFollowCalls
  <2> QED
    BY <1>1, <1>2, <1>4, <2>1, <2>2 DEF MemoryInv, TurnsTyped, LastIsOwn
<1>5. \/ UNCHANGED <<messages, cleared>>
      \/ messages' = <<>> /\ cleared'
  <2>1. CASE EndpointBegins(j)
    BY <2>1 DEF EndpointBegins
  <2>2. CASE JobGoesOn(j) /\ Clears(j)
    BY <2>2 DEF JobGoesOn
  <2>3. CASE JobGoesOn(j) /\ ~Clears(j)
    BY <1>1, <2>3 DEF JobGoesOn
  <2> QED BY <2>1, <2>2, <2>3
<1> QED
  BY <1>3, <1>4, <1>5

\* The memory starts empty.
LEMMA MemoryStarts == Init => MemoryInv
<1> SUFFICES ASSUME Init PROVE MemoryInv
  OBVIOUS
<1>1. NewTurn \in TurnRecords /\ NewTurn.at = "unborn"
  BY DEF NewTurn, TurnRecords
<1>2. turn \in [Turns -> TurnRecords] /\ \A t \in Turns : turn[t].at # "results"
  BY <1>1 DEF Init
<1>3. messages = <<>> /\ cleared = FALSE
  BY DEF Init
<1>4. messages \in Seq(Messages) /\ DOMAIN messages = {} /\ cleared \in BOOLEAN
  <2>1. DOMAIN messages = {}
    BY <1>3
  <2>2. messages \in Seq(Messages)
    BY <1>3
  <2> QED BY <1>3, <2>1, <2>2
<1>5. LoopHeld /\ LastIsOwn
  BY <1>2 DEF LoopHeld, LastIsOwn
<1>6. ResultsFollowCalls
  BY <1>4 DEF ResultsFollowCalls
<1> QED
  BY <1>2, <1>4, <1>5, <1>6 DEF MemoryInv, TurnsTyped

\* Every step keeps the order of the messages.
LEMMA MemoryKeeps == MemoryInv /\ [Next]_vars => MemoryInv'
<1> SUFFICES ASSUME MemoryInv, [Next]_vars PROVE MemoryInv'
  OBVIOUS
<1>1. ASSUME NEW t \in Turns, TurnStep(t) PROVE MemoryInv'
  BY <1>1, TurnWaitsStep, AppendStepStep, AppendResultStep DEF TurnStep
<1>2. ASSUME NEW j \in Jobs, EndpointBegins(j) \/ JobGoesOn(j) PROVE MemoryInv'
  BY <1>2, JobsKeepOrder
<1>3. CASE UNCHANGED vars
  <2>1. UNCHANGED <<turn, loop, messages, cleared>>
    BY <1>3 DEF vars, turnVars
  <2>2. \A t \in Turns : Latest(t)' = Latest(t)
    BY <2>1 DEF Latest, Message
  <2> QED
    BY <2>1, <2>2 DEF MemoryInv, TurnsTyped, LoopHeld, LastIsOwn, ResultsFollowCalls
<1> QED
  BY <1>1, <1>2, <1>3 DEF Next

\* In the memory the model reads, a result follows its call and the results before it,
\* for any number of turns that share the memory and any evolutions meanwhile.
THEOREM ResultsInOrder == Spec => []ResultsFollowCalls
<1>1. MemoryInv => ResultsFollowCalls
  BY DEF MemoryInv
<1> QED
  BY <1>1, MemoryStarts, MemoryKeeps, PTL DEF Spec
=============================================================================
