------------------------------ MODULE Acceptance ------------------------------
(***************************************************************************)
(* Acceptance and the release gates: BenchmarkRunner.run in                *)
(* src/src/ael/benchmarks.py, the scripts build-software-acceptance.py and *)
(* run-fmi-acceptance.py, and AelService.release_check (service.py).       *)
(*                                                                         *)
(* An acceptance run writes one evidence file after another, hashes each   *)
(* after it was written, and at its end replaces the acceptance manifest.  *)
(* The FMI script adds its entry to the manifest it finds.  Runs may       *)
(* overlap and may be cut short; nothing locks the files.                  *)
(*                                                                         *)
(* The content of an evidence file is known by the run or report it is     *)
(* about, whether it says that all was well, and the revision it names.    *)
(* The gate is what release_check would say of the files of one state.     *)
(***************************************************************************)
EXTENDS FmiTopology, SequencesExt

CONSTANTS
  CaseOrder,         \* the benchmark cases of the catalog
  LastCase,          \* the one whose evidence is the cross-domain evidence too
  BackendOrder,      \* the entries about one backend
  CasesOf,           \* CasesOf[b]: the cases that use b
  SoftwareOrder,     \* the entries of the software manifest
  Runs,              \* runs of the benchmarks or of the software script
  NoRun,
  Revisions, WorkingTree,
  MaxReports,        \* bound of the model: Compose reports
  MaxFmi,            \* bound of the model: runs of the FMI script
  MaxFaults          \* bound of the model: checks that do not pass, runs cut short

ASSUME AcceptanceAssumption ==
  /\ LastCase \in Range(CaseOrder)
  /\ WorkingTree \in Revisions
  /\ NoRun \notin Runs
  /\ {MaxReports, MaxFmi, MaxFaults} \subseteq Nat

\* The names of the entries, and the files of the environments.
Environment == "environment:qualified"
Firmware == "firmware:arm-riscv"
CrossDomain == "cross-domain:five-backend"
FiveDomain == "fmi:five-domain"

EnvironmentFiles == {"simulation environment", "software environment"}

\* No entry has the name of another, or of a file of theirs, and no backend of the
\* list is without a case that uses it.
ASSUME NamesAssumption ==
  /\ CaseOrder \in Seq(STRING) /\ BackendOrder \in Seq(STRING)
  /\ SoftwareOrder \in Seq(STRING)
  /\ Range(CaseOrder) \cap Range(BackendOrder) = {}
  /\ (Range(CaseOrder) \cup Range(BackendOrder))
       \cap ({Environment, Firmware, CrossDomain, FiveDomain} \cup EnvironmentFiles) = {}
  /\ Range(SoftwareOrder) \cap ({FiveDomain} \cup EnvironmentFiles) = {}
  /\ CasesOf \in [Range(BackendOrder) -> (SUBSET Range(CaseOrder)) \ {{}}]

VARIABLES
  catalog,           \* every case of the catalog is executable
  evidence,          \* evidence[f]: content of the file f, or NoEvidence
  manifest,          \* acceptance/simulation.json and acceptance/software.json
  run,               \* the runs, see NewRun
  fmi,               \* the FMI script
  report,            \* Compose reports that passed so far
  faults,            \* checks that did not pass and runs cut short
  raced              \* some hash was taken of what another run had written

filesVars == <<catalog, evidence, manifest, report>>
boundVars == <<faults, raced>>
vars == <<topologyVars, filesVars, run, fmi, boundVars>>

Profiles == {"simulation", "software"}

SimulationOrder == CaseOrder \o <<Firmware>> \o BackendOrder \o <<Environment>>

\* What release_check expects of a profile's manifest.
Expected(profile) ==
  IF profile = "simulation"
    THEN Range(SimulationOrder) \cup {CrossDomain, FiveDomain}
    ELSE Range(SoftwareOrder)

\* The evidence file an entry names.
FileOf(profile, name) ==
  IF name = CrossDomain THEN LastCase
  ELSE IF name # Environment THEN name
  ELSE IF profile = "simulation" THEN "simulation environment" ELSE "software environment"

Files == {FileOf("simulation", name) : name \in Expected("simulation")}
           \cup {FileOf("software", name) : name \in Expected("software")}

NoRevision == "none"
NoEvidence == [by |-> NoRun, passed |-> FALSE, revision |-> NoRevision]
NoManifest == [revision |-> NoRevision, entries |-> <<>>]

NewRun ==
  [at |-> "unborn", profile |-> "none", revision |-> NoRevision,
   about |-> NoRun,           \* what its evidence is about: itself, or a Compose report
   full |-> FALSE,            \* not for some cases only
   todo |-> <<>>, entries |-> <<>>,
   wrote |-> NoEvidence]      \* content written and not yet hashed

Init ==
  /\ SearchInit
  /\ catalog = TRUE
  /\ evidence = [f \in Files |-> NoEvidence]
  /\ manifest = [p \in Profiles |-> NoManifest]
  /\ run = [r \in Runs |-> NewRun]
  /\ fmi = [at |-> "idle", count |-> 0, manifest |-> NoManifest, hash |-> NoEvidence]
  /\ report = 0 /\ faults = 0
  /\ raced = FALSE

------------------------------------------------------------------------------
(* Runs of the benchmarks and of the software script.                        *)

Begin(r, profile, revision, todo, full, about) ==
  /\ run[r].at = "unborn"
  /\ run' = [run EXCEPT ![r] =
               [NewRun EXCEPT !.at = "write", !.profile = profile, !.revision = revision,
                              !.about = about, !.full = full, !.todo = todo]]
  /\ UNCHANGED <<topologyVars, filesVars, fmi, boundVars>>

\* Some of the cases, in the order of the catalog.
Selections ==
  UNION {{[i \in 1..n |-> CaseOrder[place[i]]] :
            place \in {f \in [1..n -> DOMAIN CaseOrder] :
                         \A i, j \in 1..n : i < j => f[i] < f[j]}} :
         n \in DOMAIN CaseOrder}

\* case_ids None, or some ids: then there are only the entries of the cases.
BeginBenchmarks(r, revision) ==
  \/ Begin(r, "simulation", revision, SimulationOrder, TRUE, r)
  \/ \E selected \in Selections : Begin(r, "simulation", revision, selected, FALSE, r)

\* The script raises before it writes anything unless all its inputs passed.
BeginSoftware(r, revision) ==
  report > 0 /\ Begin(r, "software", revision, SoftwareOrder, TRUE, report)

Passed(r, name) == name \in DOMAIN run[r].entries /\ run[r].entries[name].passed

MayFail == faults < MaxFaults

\* What an entry can come out as.  A case fails if one of its two variants ends
\* otherwise than it should, or lacks its evidence; a backend, if it has no case or one
\* of them failed; the environment, also if the revision is not immutable.
Outcomes(r, name) ==
  IF run[r].profile = "software" THEN {TRUE}
  ELSE IF name \in DOMAIN CasesOf
    THEN {CasesOf[name] # {} /\ \A c \in CasesOf[name] : Passed(r, c)}
  ELSE IF name = Environment /\ run[r].revision = WorkingTree THEN {FALSE}
  ELSE {TRUE, ~MayFail}

Content(r, name, passed) ==
  IF name = Environment
    THEN [by |-> IF run[r].profile = "software" THEN run[r].about ELSE NoRun,
          passed |-> passed, revision |-> run[r].revision]
    ELSE [by |-> run[r].about, passed |-> passed, revision |-> NoRevision]

File(r) == FileOf(run[r].profile, Head(run[r].todo))

WriteEvidence(r) ==
  LET name == Head(run[r].todo)
  IN  /\ run[r].at = "write" /\ run[r].todo # <<>>
      /\ \E passed \in Outcomes(r, name) :
           /\ evidence' = [evidence EXCEPT ![File(r)] = Content(r, name, passed)]
           /\ run' = [run EXCEPT ![r].at = "hash", ![r].wrote = Content(r, name, passed)]
           /\ faults' = IF passed \/ TRUE \notin Outcomes(r, name) THEN faults ELSE faults + 1
      /\ UNCHANGED <<topologyVars, catalog, manifest, report, fmi, raced>>

Entry(passed, content) == [passed |-> passed, content |-> content]

\* The entries with these ones put in.
Put(names, entry, entries) ==
  [n \in names \cup DOMAIN entries |-> IF n \in names THEN entry ELSE entries[n]]

\* The status is what the run found, the digest is read from the file.
HashEvidence(r) ==
  LET name == Head(run[r].todo)
      entry == Entry(run[r].wrote.passed, evidence[File(r)])
      names == IF name = LastCase THEN {name, CrossDomain} ELSE {name}
  IN  /\ run[r].at = "hash"
      /\ run' = [run EXCEPT ![r].at = "write", ![r].todo = Tail(@),
                            ![r].entries = Put(names, entry, @),
                            ![r].wrote = NoEvidence]
      /\ raced' = (raced \/ evidence[File(r)] # run[r].wrote)
      /\ UNCHANGED <<topologyVars, filesVars, fmi, faults>>

WriteManifest(r) ==
  /\ run[r].at = "write" /\ run[r].todo = <<>>
  /\ manifest' = [manifest EXCEPT ![run[r].profile] =
                    [revision |-> run[r].revision, entries |-> run[r].entries]]
  /\ run' = [run EXCEPT ![r].at = "done", ![r].entries = <<>>]
  /\ UNCHANGED <<topologyVars, catalog, evidence, report, fmi, boundVars>>

\* An asset is missing, an exception, a kill: the files stay as they are.
CutShort(r) ==
  /\ run[r].at \in {"write", "hash"}
  /\ MayFail /\ faults' = faults + 1
  /\ run' = [run EXCEPT ![r] = [NewRun EXCEPT !.at = "stopped"]]
  /\ UNCHANGED <<topologyVars, filesVars, fmi, raced>>

------------------------------------------------------------------------------
(* The FMI script: it ends with an exception wherever something fails.       *)

FmiUnchanged == UNCHANGED <<filesVars, run, faults>>

FmiEnds == fmi' = [fmi EXCEPT !.at = "idle", !.manifest = NoManifest, !.hash = NoEvidence]

\* A search leaves nothing behind.
ForgetSearch == path' = <<>> /\ visited' = {} /\ verdict' = "searching" /\ UNCHANGED system

FmiStarts ==
  /\ fmi.at = "idle" /\ fmi.count < MaxFmi
  /\ fmi' = [fmi EXCEPT !.at = "export", !.count = @ + 1]
  /\ UNCHANGED <<topologyVars, raced>> /\ FmiUnchanged

FmiSearches ==
  /\ fmi.at = "export"
  /\ Search
  /\ UNCHANGED <<fmi, raced>> /\ FmiUnchanged

FmiExports ==
  /\ fmi.at = "export" /\ verdict = "accepted"
  /\ fmi' = [fmi EXCEPT !.at = "simulate"]
  /\ ForgetSearch
  /\ UNCHANGED raced /\ FmiUnchanged

FmiRefused ==
  /\ fmi.at = "export" /\ verdict = "refused"
  /\ FmiEnds
  /\ ForgetSearch
  /\ UNCHANGED raced /\ FmiUnchanged

\* OMSimulator runs the package; every output is checked before the evidence is written.
FmiSimulates ==
  /\ fmi.at = "simulate"
  /\ evidence' = [evidence EXCEPT ![FiveDomain] =
                    [by |-> fmi.count, passed |-> TRUE, revision |-> NoRevision]]
  /\ fmi' = [fmi EXCEPT !.at = "load"]
  /\ UNCHANGED <<topologyVars, catalog, manifest, report, run, boundVars>>

FmiFails ==
  /\ fmi.at \in {"simulate", "load", "merge"}
  /\ MayFail /\ faults' = faults + 1
  /\ FmiEnds
  /\ UNCHANGED <<topologyVars, filesVars, run, raced>>

\* The manifest must exist.  The evidence is hashed after the manifest was read.
FmiLoads ==
  /\ fmi.at = "load" /\ manifest["simulation"] # NoManifest
  /\ fmi' = [fmi EXCEPT !.at = "merge", !.manifest = manifest["simulation"],
                        !.hash = evidence[FiveDomain]]
  /\ UNCHANGED <<topologyVars, raced>> /\ FmiUnchanged

FmiMissesManifest ==
  /\ fmi.at = "load" /\ manifest["simulation"] = NoManifest
  /\ FmiEnds
  /\ UNCHANGED <<topologyVars, raced>> /\ FmiUnchanged

FmiMergesReplacing ==
  /\ fmi.at = "merge"
  /\ manifest' = [manifest EXCEPT !["simulation"].entries =
                    Put({FiveDomain}, Entry(TRUE, fmi.hash), <<>>)]
  /\ FmiEnds
  /\ UNCHANGED <<topologyVars, catalog, evidence, report, run, boundVars>>

FmiMerges ==
  /\ fmi.at = "merge"
  /\ manifest' = [manifest EXCEPT !["simulation"] =
                    [revision |-> fmi.manifest.revision,
                     entries |-> Put({FiveDomain}, Entry(TRUE, fmi.hash), fmi.manifest.entries)]]
  /\ FmiEnds
  /\ UNCHANGED <<topologyVars, catalog, evidence, report, run, boundVars>>

------------------------------------------------------------------------------
(* The users, and the gates.                                                 *)

\* validate_release finds something from now on: an asset, an experiment or a property.
BreakCatalog ==
  /\ catalog /\ catalog' = FALSE
  /\ MayFail /\ faults' = faults + 1
  /\ UNCHANGED <<topologyVars, evidence, manifest, report, run, fmi, raced>>

ComposeReport ==
  /\ report < MaxReports
  /\ report' = report + 1
  /\ UNCHANGED <<topologyVars, catalog, evidence, manifest, run, fmi, boundVars>>

EntryHoldsIgnoringDigest(profile, name) ==
  LET entries == manifest[profile].entries
  IN  name \in DOMAIN entries /\ entries[name].passed

\* validate_acceptance_manifest
EntryHolds(profile, name) ==
  LET entries == manifest[profile].entries
  IN  /\ name \in DOMAIN entries
      /\ entries[name].passed
      /\ evidence[FileOf(profile, name)] = entries[name].content

\* validate_execution_environment
EnvironmentHolds(profile) ==
  LET environment == evidence[FileOf(profile, Environment)]
  IN  environment.passed /\ environment.revision = manifest[profile].revision

ManifestHolds(profile) ==
  /\ manifest[profile] # NoManifest
  /\ \A name \in Expected(profile) : EntryHolds(profile, name)
  /\ EnvironmentHolds(profile)

\* release_check(profile)["ready"]
Ready(profile) ==
  /\ catalog
  /\ ManifestHolds("simulation")
  /\ profile = "software" => ManifestHolds("software")

Next ==
  \/ \E r \in Runs, revision \in Revisions :
        BeginBenchmarks(r, revision) \/ BeginSoftware(r, revision)
  \/ \E r \in Runs : WriteEvidence(r) \/ HashEvidence(r) \/ WriteManifest(r) \/ CutShort(r)
  \/ FmiStarts \/ FmiSearches \/ FmiExports \/ FmiRefused \/ FmiSimulates \/ FmiFails
  \/ FmiLoads \/ FmiMissesManifest \/ FmiMerges
  \/ BreakCatalog \/ ComposeReport

Spec == Init /\ [][Next]_vars

------------------------------------------------------------------------------
(* Properties.                                                               *)

\* All entries but the FMI script's are about one complete run of the benchmarks, all
\* of whose checks passed, of an immutable revision, and the system has no loop.
SimulationEarned ==
  \E r \in Runs :
    /\ run[r].at = "done" /\ run[r].profile = "simulation" /\ run[r].full
    /\ run[r].revision = manifest["simulation"].revision
    /\ run[r].revision # WorkingTree
    /\ \A name \in Range(SimulationOrder) :
         evidence[FileOf("simulation", name)] = Content(r, name, TRUE)
    /\ evidence[FiveDomain].passed /\ LoopFree(system)

\* The evidence of the software gate is about one Compose report.
SoftwareEarned ==
  \E n \in 1 .. report :
    \A name \in Range(SoftwareOrder) : evidence[FileOf("software", name)].by = n

\* Whatever runs overlap, are cut short or fail, and whichever manifest the FMI script
\* writes back, a gate that is open was earned by one run: entries of different runs
\* never add up.  Unless a file was overwritten just before it was hashed.
ReadyIsEarned ==
  ~raced => /\ Ready("simulation") => SimulationEarned
            /\ Ready("software") => SoftwareEarned

\* Nothing but the benchmarks r, then the FMI script, has been at work.
OnlyOneRun(r) ==
  /\ run[r].at = "done" /\ \A q \in Runs \ {r} : run[q].at = "unborn"
  /\ fmi.at = "idle"

\* The scripts suffice: after a complete run of the benchmarks in which every check
\* passed and an FMI run that ended after it, the gate opens.
CleanRunIsReady ==
  \A r \in Runs :
    /\ OnlyOneRun(r)
    /\ run[r].profile = "simulation" /\ run[r].full /\ run[r].revision # WorkingTree
    /\ faults = 0 /\ catalog
    /\ FiveDomain \in DOMAIN manifest["simulation"].entries
    => Ready("simulation")
==============================================================================
