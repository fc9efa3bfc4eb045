---------------------------- MODULE ModelRegistry ----------------------------
(***************************************************************************)
(* The life of one device model: ModelRegistry in src/src/ael/modeling.py  *)
(* with the models table (storage.py, storage_server.py).                  *)
(*                                                                         *)
(* Each version of the model has a directory with its behavior IR and its  *)
(* package document; the row of the model names one package and repeats    *)
(* its state.  An operation is a sequence of steps without a lock: it      *)
(* loads the package the row names, checks, and saves a new document,      *)
(* first to the file and then to the row.  Several actors work at once, an *)
(* operation may be cut short between two steps (a crash, a database       *)
(* error), and the source documents may be edited at any time.             *)
(*                                                                         *)
(* An evidence path is known by the state it was given for, the generation *)
(* of the IR its author looked at, and whether a human approved; those for *)
(* states that demand none are left out.                                   *)
(***************************************************************************)
EXTENDS Naturals

CONSTANTS
  Humans,           \* actors at the command line
  Agents,           \* actors behind the MCP tools: they generate and validate
  Versions,         \* version directories of the model
  MaxGenerations,   \* bound of the model: IRs generated
  MaxEdits,         \* bound of the model: edits of the sources
  MaxCuts           \* bound of the model: operations cut short

ASSUME ActorsAssumption == Humans \cap Agents = {}

ASSUME RegistryBoundsAssumption ==
  MaxGenerations \in Nat /\ MaxEdits \in Nat /\ MaxCuts \in Nat

VARIABLES
  row,              \* models table: state and version of the package, or NoRow
  package,          \* package[v]: the document in the directory of v
  ir,               \* ir[v]: the behavior IR in the directory of v
  sources,          \* version of the source documents
  op,               \* op[a]: the operation actor a is in
  generated,        \* IRs generated so far
  cuts,             \* operations cut short so far
  raced,            \* some save was based on what had changed meanwhile
  signedOff         \* versions of which a signed, approved document was saved

vars == <<row, package, ir, sources, op, generated, cuts, raced, signedOff>>

Actors == Humans \cup Agents

States == {"generated", "static_validated", "conformance_validated",
           "hardware_validated", "production_approved", "deprecated"}

STATE_TRANSITIONS ==
  [generated             |-> {"static_validated", "deprecated"},
   static_validated      |-> {"conformance_validated", "deprecated"},
   conformance_validated |-> {"hardware_validated", "deprecated"},
   hardware_validated    |-> {"production_approved", "deprecated"},
   production_approved   |-> {"deprecated"},
   deprecated            |-> {}]

ByHuman == {"hardware_validated", "production_approved"}

\* The kinds of evidence a document in a state must bear.  A human may promote
\* to static_validated without the static checks.
Demanded ==
  [generated             |-> {},
   static_validated      |-> {},
   conformance_validated |-> {"conformance_validated"},
   hardware_validated    |-> {"conformance_validated", "hardware_validated"},
   production_approved   |-> {"conformance_validated"} \cup ByHuman,
   deprecated            |-> {}]

Kinds == {"conformance_validated"} \cup ByHuman

Evidence == [kind : Kinds, ir : 0 .. MaxGenerations, human : BOOLEAN]

Packages ==
  [state : States, evidence : SUBSET Evidence, signed : BOOLEAN,
   source_hash : 0 .. MaxEdits]

NoPackage == [state |-> "none"]
Irs == [generation : 0 .. MaxGenerations, sources : 0 .. MaxEdits]
NoIr == [generation |-> 0, sources |-> 0]
NoRow == [state |-> "none"]
Idle == [step |-> "idle"]

Init ==
  /\ row = NoRow
  /\ package = [v \in Versions |-> NoPackage]
  /\ ir = [v \in Versions |-> NoIr]
  /\ sources = 0
  /\ op = [a \in Actors |-> Idle]
  /\ generated = 0
  /\ cuts = 0
  /\ raced = FALSE
  /\ signedOff = {}

------------------------------------------------------------------------------
(* What an operation reads and what it saves.                                *)

HasPackage == row # NoRow /\ package[row.version] # NoPackage

Load == package[row.version]

\* The operations, when what they rest on, the package or the IR of v, is
\* written by actor a.
Overtaken(a, v) ==
  [b \in Actors |->
     IF b # a /\ op[b].step \notin {"idle", "prompt"} /\ op[b].version = v
       THEN [op[b] EXCEPT !.stale = TRUE] ELSE op[b]]

\* The operation goes on to save a document.
Saving(operations, a, v, document, stale) ==
  op' = [operations EXCEPT ![a] =
          [step |-> "file", version |-> v, package |-> document, stale |-> stale]]

------------------------------------------------------------------------------
(* Generation: from SVD or SystemRDL, or from documents by a model provider. *)
(* It does not look at what the directory of the version held before.        *)

NewPackageDraft(hash) ==
  [state |-> "draft", evidence |-> {}, signed |-> FALSE, source_hash |-> hash]

NewPackage(hash) ==
  [state |-> "generated", evidence |-> {}, signed |-> FALSE,
   source_hash |-> hash]

WriteIr(v, read) ==
  /\ generated < MaxGenerations
  /\ generated' = generated + 1
  /\ ir' = [ir EXCEPT ![v] = [generation |-> generated + 1, sources |-> read]]

\* The sources are imported and the IR is written; they are hashed afterwards.
Import(a, v) ==
  /\ op[a] = Idle
  /\ WriteIr(v, sources)
  /\ op' = [Overtaken(a, v) EXCEPT ![a] = [step |-> "hash", version |-> v, stale |-> FALSE]]
  /\ UNCHANGED <<row, package, sources, cuts, raced, signedOff>>

HashSources(a) ==
  /\ op[a].step = "hash"
  /\ Saving(op, a, op[a].version, NewPackage(sources),
            op[a].stale \/ sources # ir[op[a].version].sources)
  /\ UNCHANGED <<row, package, ir, sources, generated, cuts, raced, signedOff>>

\* The documents are hashed and read for the prompt.
Ground(a, v) ==
  /\ op[a] = Idle
  /\ generated < MaxGenerations
  /\ op' = [op EXCEPT ![a] = [step |-> "prompt", version |-> v, sources |-> sources]]
  /\ UNCHANGED <<row, package, ir, sources, generated, cuts, raced, signedOff>>

\* One of the attempts succeeded and the grounding map is complete.
ProviderAnswers(a) ==
  /\ op[a].step = "prompt"
  /\ WriteIr(op[a].version, op[a].sources)
  /\ Saving(Overtaken(a, op[a].version), a, op[a].version, NewPackage(op[a].sources), FALSE)
  /\ UNCHANGED <<row, package, sources, cuts, raced, signedOff>>

\* All attempts failed, or the map leaves something ungrounded.
GenerationRefused(a) ==
  /\ op[a].step = "prompt"
  /\ op' = [op EXCEPT ![a] = Idle]
  /\ UNCHANGED <<row, package, ir, sources, generated, cuts, raced, signedOff>>

------------------------------------------------------------------------------
(* Validation and promotion.                                                 *)

Legal(document, target) == target \in STATE_TRANSITIONS[document.state]

Promoted(document, target, evidence, signature) ==
  [document EXCEPT !.state = target, !.evidence = @ \cup evidence,
                   !.signed = @ \/ signature]

\* The checks of static_validate and conformance_validate are made on the
\* package loaded first.
Check(a, required, target) ==
  /\ op[a] = Idle
  /\ HasPackage
  /\ Load.state = required
  /\ op' = [op EXCEPT ![a] = [step |-> "checked", target |-> target,
                              version |-> row.version, stale |-> FALSE,
                              seen |-> ir[row.version].generation]]
  /\ UNCHANGED <<row, package, ir, sources, generated, cuts, raced, signedOff>>

CheckStatic(a) ==
  /\ HasPackage
  /\ Load.source_hash = sources
  /\ Check(a, "generated", "static_validated")

CheckConformance(a) == Check(a, "static_validated", "conformance_validated")

EvidenceOf(target, seen, human) ==
  {e \in {[kind |-> target, ir |-> seen, human |-> human]} : target \in Kinds}

\* transition loads the package again, and raises if that one may not move.
TransitionChecked(a) ==
  LET target == op[a].target
  IN  /\ op[a].step = "checked"
      /\ HasPackage
      /\ IF Legal(Load, target)
           THEN Saving(op, a, row.version,
                       Promoted(Load, target, EvidenceOf(target, op[a].seen, FALSE), FALSE),
                       op[a].stale \/ row.version # op[a].version)
           ELSE op' = [op EXCEPT ![a] = Idle]
      /\ UNCHANGED <<row, package, ir, sources, generated, cuts, raced, signedOff>>

ApprovedWithoutHuman(target, human, evidence, signature) ==
  /\ target \in ByHuman => evidence
  /\ target = "production_approved" => signature

ApprovedUnsigned(target, human, evidence, signature) ==
  target \in ByHuman => human /\ evidence

Approved(target, human, evidence, signature) ==
  /\ target \in ByHuman => human /\ evidence
  /\ target = "production_approved" => signature

\* ael model promote: conformance_validated is for conformance_validate alone.
Promote(a, target, human, evidence, signature) ==
  /\ op[a] = Idle
  /\ HasPackage
  /\ Legal(Load, target)
  /\ target # "conformance_validated"
  /\ Approved(target, human, evidence, signature)
  /\ LET seen == ir[row.version].generation
         paths == IF evidence THEN EvidenceOf(target, seen, human) ELSE {}
     IN  Saving(op, a, row.version, Promoted(Load, target, paths, signature), FALSE)
  /\ UNCHANGED <<row, package, ir, sources, generated, cuts, raced, signedOff>>

\* generate_renode_source, which no front end calls: the package gets the path of the
\* source, if it lacks it.
ListSource(a) ==
  /\ op[a] = Idle
  /\ HasPackage
  /\ Saving(op, a, row.version, Load, FALSE)
  /\ UNCHANGED <<row, package, ir, sources, generated, cuts, raced, signedOff>>

------------------------------------------------------------------------------
(* save_model: the file, then the row.                                       *)

SaveFile(a) ==
  LET v == op[a].version
      document == op[a].package
  IN  /\ op[a].step = "file"
      /\ package' = [package EXCEPT ![v] = document]
      /\ raced' = (raced \/ op[a].stale)
      /\ signedOff' = IF document.state = "production_approved" /\ document.signed
                       THEN signedOff \cup {v} ELSE signedOff
      /\ op' = [Overtaken(a, v) EXCEPT ![a].step = "row"]
      /\ UNCHANGED <<row, ir, sources, generated, cuts>>

SaveRowKeepingPath(a) ==
  /\ op[a].step = "row"
  /\ row' = [state |-> op[a].package.state,
             version |-> IF row = NoRow THEN op[a].version ELSE row.version]
  /\ raced' = (raced \/ op[a].stale)
  /\ op' = [op EXCEPT ![a] = Idle]
  /\ UNCHANGED <<package, ir, sources, generated, cuts, signedOff>>

SaveRow(a) ==
  /\ op[a].step = "row"
  /\ row' = [state |-> op[a].package.state, version |-> op[a].version]
  /\ raced' = (raced \/ op[a].stale)
  /\ op' = [op EXCEPT ![a] = Idle]
  /\ UNCHANGED <<package, ir, sources, generated, cuts, signedOff>>

\* The process ends or a call raises: what was written stays.
CutShort(a) ==
  /\ op[a] # Idle
  /\ cuts < MaxCuts
  /\ cuts' = cuts + 1
  /\ op' = [op EXCEPT ![a] = Idle]
  /\ UNCHANGED <<row, package, ir, sources, generated, raced, signedOff>>

EditSources ==
  /\ sources < MaxEdits
  /\ sources' = sources + 1
  /\ UNCHANGED <<row, package, ir, op, generated, cuts, raced, signedOff>>

Generate(a) ==
  \/ \E v \in Versions : Import(a, v) \/ Ground(a, v)
  \/ HashSources(a)
  \/ ProviderAnswers(a)
  \/ GenerationRefused(a)

Validate(a) == CheckStatic(a) \/ CheckConformance(a) \/ TransitionChecked(a)

Next ==
  \/ \E a \in Actors : Generate(a) \/ Validate(a) \/ SaveFile(a) \/ SaveRow(a)
  \/ \E a \in Humans, target \in States, human, evidence, signature \in BOOLEAN :
        Promote(a, target, human, evidence, signature)
  \/ \E a \in Humans : ListSource(a)
  \/ \E a \in Actors : CutShort(a)
  \/ EditSources

Spec == Init /\ [][Next]_vars

------------------------------------------------------------------------------
(* Properties.                                                               *)

Ops ==
  {Idle}
    \cup [step : {"hash"}, version : Versions, stale : BOOLEAN]
    \cup [step : {"prompt"}, version : Versions, sources : 0 .. MaxEdits]
    \cup [step : {"checked"}, target : {"static_validated", "conformance_validated"},
          version : Versions, seen : 0 .. MaxGenerations, stale : BOOLEAN]
    \cup [step : {"file", "row"}, version : Versions, package : Packages, stale : BOOLEAN]

\* Every variable stays in its type.
RegistryTypeOK ==
  /\ row \in [state : States, version : Versions] \cup {NoRow}
  /\ package \in [Versions -> Packages \cup {NoPackage}]
  /\ ir \in [Versions -> Irs]
  /\ sources \in 0 .. MaxEdits
  /\ op \in [Actors -> Ops]
  /\ generated \in 0 .. MaxGenerations
  /\ cuts \in 0 .. MaxCuts
  /\ raced \in BOOLEAN
  /\ signedOff \subseteq Versions

Earned(document) ==
  /\ \A kind \in Demanded[document.state] :
       \E e \in document.evidence :
         e.kind = kind /\ (kind \in ByHuman => e.human)
  /\ document.state = "production_approved" => document.signed

\* Whatever operations overlap and wherever they are cut short, no package
\* document, in a file or about to be written, is in a state whose conformance
\* report, human approval or signature it lacks.
StateIsEarned ==
  /\ \A v \in Versions : package[v] # NoPackage => Earned(package[v])
  /\ \A a \in Actors : op[a].step \in {"file", "row"} => Earned(op[a].package)

\* The release gate counts rows: a row that says production_approved names a
\* version of which a signed document was saved before.
GateCountsSigned == row.state = "production_approved" => row.version \in signedOff

\* The operations that still have to write something of version v.
InFlight(v) ==
  {a \in Actors : op[a].step \in {"hash", "file", "row"} /\ op[a].version = v}

\* Unless two operations overlapped or one was cut short, a version at rest is
\* exact: its evidence is about the IR in its directory, its hashes are those
\* of the sources the IR was made from, and the row agrees with the file.
AtRestExact ==
  ~raced /\ cuts = 0 =>
    \A v \in Versions : package[v] # NoPackage /\ InFlight(v) = {} =>
      /\ \A e \in package[v].evidence : e.ir = ir[v].generation
      /\ package[v].source_hash = ir[v].sources
      /\ row # NoRow /\ row.version = v => row.state = package[v].state
==============================================================================
