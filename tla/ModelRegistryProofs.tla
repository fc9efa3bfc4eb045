-------------------------- MODULE ModelRegistryProofs --------------------------
(***************************************************************************)
(* The states of a device model, for any number of actors, versions, edits *)
(* and operations cut short.                                               *)
(***************************************************************************)
EXTENDS ModelRegistry, TLAPS

------------------------------------------------------------------------------
(* Types.                                                                    *)

Hashing == [step : {"hash"}, version : Versions, stale : BOOLEAN]

Prompting == [step : {"prompt"}, version : Versions, sources : 0 .. MaxEdits]

Checked ==
  [step : {"checked"}, target : {"static_validated", "conformance_validated"},
   version : Versions, seen : 0 .. MaxGenerations, stale : BOOLEAN]

Writing == [step : {"file", "row"}, version : Versions, package : Packages, stale : BOOLEAN]

\* An operation is known by its step.
LEMMA OpsByStep ==
  ASSUME NEW o \in Ops
  PROVE  /\ o.step = "idle" => o = Idle
         /\ o.step = "hash" => o \in Hashing
         /\ o.step = "prompt" => o \in Prompting
         /\ o.step = "checked" => o \in Checked
         /\ o.step \in {"file", "row"} => o \in Writing
         /\ o.step \in {"idle", "hash", "prompt", "checked", "file", "row"}
BY DEF Ops, Hashing, Prompting, Checked, Writing, Idle

\* Marking an operation leaves the rest of it, and its type.
LEMMA StaleOp ==
  ASSUME NEW o \in Ops, o.step \notin {"idle", "prompt"}
  PROVE  /\ [o EXCEPT !.stale = TRUE] \in Ops
         /\ [o EXCEPT !.stale = TRUE].step = o.step
         /\ [o EXCEPT !.stale = TRUE].version = o.version
         /\ o.step \in {"file", "row"} => [o EXCEPT !.stale = TRUE].package = o.package
<1>1. CASE o \in Hashing
  BY <1>1 DEF Hashing, Ops
<1>2. CASE o \in Checked
  BY <1>2 DEF Checked, Ops
<1>3. CASE o \in Writing
  BY <1>3 DEF Writing, Ops
<1> QED
  BY <1>1, <1>2, <1>3, OpsByStep

\* The operations are what they were, apart from their marks.
AsBefore(operations) ==
  /\ operations \in [Actors -> Ops]
  /\ \A b \in Actors :
       /\ operations[b].step = op[b].step
       /\ op[b].step \in {"file", "row"} =>
            operations[b].version = op[b].version /\ operations[b].package = op[b].package

\* What is written under an operation changes its mark alone.
LEMMA OvertakenOps ==
  ASSUME op \in [Actors -> Ops], NEW a \in Actors, NEW v
  PROVE  /\ AsBefore(op)
         /\ AsBefore(Overtaken(a, v))
         /\ Overtaken(a, v)[a] = op[a]
<1>1. ASSUME NEW b \in Actors
      PROVE  /\ Overtaken(a, v)[b] \in Ops
             /\ Overtaken(a, v)[b].step = op[b].step
             /\ op[b].step \in {"file", "row"} =>
                  /\ Overtaken(a, v)[b].version = op[b].version
                  /\ Overtaken(a, v)[b].package = op[b].package
  <2>1. CASE b # a /\ op[b].step \notin {"idle", "prompt"} /\ op[b].version = v
    <3>1. Overtaken(a, v)[b] = [op[b] EXCEPT !.stale = TRUE]
      BY <2>1 DEF Overtaken
    <3> QED
      BY <2>1, <3>1, StaleOp
  <2>2. CASE ~(b # a /\ op[b].step \notin {"idle", "prompt"} /\ op[b].version = v)
    BY <2>2 DEF Overtaken
  <2> QED
    BY <2>1, <2>2
<1>2. AsBefore(op) /\ Overtaken(a, v)[a] = op[a]
  BY DEF AsBefore, Overtaken
<1>3. Overtaken(a, v) \in [Actors -> Ops]
  BY <1>1 DEF Overtaken
<1> QED
  BY <1>1, <1>2, <1>3 DEF AsBefore

\* The evidence for a state that demands some is one entry, of that kind.
LEMMA EvidenceTyped ==
  ASSUME NEW target, NEW seen \in 0 .. MaxGenerations, NEW human \in BOOLEAN
  PROVE  /\ EvidenceOf(target, seen, human) \subseteq Evidence
         /\ target \in Kinds =>
              \E e \in EvidenceOf(target, seen, human) : e.kind = target /\ e.human = human
<1>1. CASE target \in Kinds
  <2>1. EvidenceOf(target, seen, human) = {[kind |-> target, ir |-> seen, human |-> human]}
    BY <1>1 DEF EvidenceOf
  <2> QED
    BY <1>1, <2>1 DEF Evidence
<1>2. CASE target \notin Kinds
  BY <1>2 DEF EvidenceOf
<1> QED
  BY <1>1, <1>2

\* A legal promotion that brings the evidence its target demands keeps a document earned.
LEMMA PromotedEarned ==
  ASSUME NEW document \in Packages, NEW target \in States, Legal(document, target),
         NEW evidence \in SUBSET Evidence, NEW signature \in BOOLEAN
  PROVE  /\ Promoted(document, target, evidence, signature) \in Packages
         /\ Earned(document)
            /\ (target \in Kinds =>
                  \E e \in evidence : e.kind = target /\ (target \in ByHuman => e.human))
            /\ (target = "production_approved" => signature)
            => Earned(Promoted(document, target, evidence, signature))
<1> DEFINE promoted == Promoted(document, target, evidence, signature)
<1>1. /\ promoted.state = target
      /\ promoted.evidence = document.evidence \cup evidence
      /\ signature => promoted.signed
      /\ document.signed => promoted.signed
  BY DEF Promoted, Packages
<1>2. promoted \in Packages
  BY DEF Promoted, Packages
<1>3. ASSUME Earned(document),
             target \in Kinds =>
               \E e \in evidence : e.kind = target /\ (target \in ByHuman => e.human),
             target = "production_approved" => signature
      PROVE  Earned(promoted)
  <2>1. \A kind \in Demanded[target] :
          (kind = target /\ target \in Kinds) \/ kind \in Demanded[document.state]
    BY DEF Legal, STATE_TRANSITIONS, Demanded, Packages, States, Kinds, ByHuman
  <2>2. ASSUME NEW kind \in Demanded[target]
        PROVE  \E e \in promoted.evidence : e.kind = kind /\ (kind \in ByHuman => e.human)
    BY <1>1, <1>3, <2>1, <2>2 DEF Earned
  <2>3. target = "production_approved" => promoted.signed
    BY <1>1, <1>3
  <2> QED
    BY <1>1, <2>2, <2>3 DEF Earned
<1> QED
  BY <1>2, <1>3

\* A new package is earned.
LEMMA NewPackageEarned ==
  ASSUME NEW hash \in 0 .. MaxEdits
  PROVE  NewPackage(hash) \in Packages /\ Earned(NewPackage(hash))
BY DEF NewPackage, Packages, States, Earned, Demanded

------------------------------------------------------------------------------
(* The inductive invariant.                                                  *)

\* What an operation goes on to write is earned, and once an approved document is in
\* its file its version counts as signed.
SaveOK(o, signed) ==
  /\ o.step \in {"file", "row"} => Earned(o.package)
  /\ o.step = "row" /\ o.package.state = "production_approved" => o.version \in signed

SavesOK == \A a \in Actors : SaveOK(op[a], signedOff)

FilesOK == \A v \in Versions : package[v] # NoPackage => Earned(package[v])

RegistryInv == RegistryTypeOK /\ SavesOK /\ FilesOK /\ GateCountsSigned

\* The operations keep their types and what they write when actor a's becomes o, and
\* those of the others are at most marked.
LEMMA OpReplaced ==
  ASSUME RegistryInv, NEW operations, NEW a \in Actors, NEW o \in Ops,
         AsBefore(operations),
         op' = [operations EXCEPT ![a] = o],
         signedOff \subseteq signedOff', SaveOK(o, signedOff')
  PROVE  op' \in [Actors -> Ops] /\ SavesOK'
<1>2. /\ operations \in [Actors -> Ops]
      /\ \A b \in Actors :
           /\ operations[b].step = op[b].step
           /\ op[b].step \in {"file", "row"} =>
                operations[b].version = op[b].version /\ operations[b].package = op[b].package
  BY DEF AsBefore
<1>3. op' \in [Actors -> Ops]
  BY <1>2
<1>4. ASSUME NEW b \in Actors PROVE SaveOK(op'[b], signedOff')
  <2>1. CASE b = a
    <3>1. op'[b] = o
      BY <1>2, <2>1
    <3> QED
      BY <3>1 DEF SaveOK
  <2>2. CASE b # a
    <3>1. op'[b] = operations[b]
      BY <1>2, <2>2
    <3>2. SaveOK(op[b], signedOff)
      BY DEF RegistryInv, SavesOK
    <3> QED
      BY <1>2, <3>1, <3>2 DEF SaveOK
  <2> QED
    BY <2>1, <2>2
<1> QED
  BY <1>3, <1>4 DEF SavesOK

\* The invariant holds of the empty registry.
LEMMA InitRegistryInv == Init => RegistryInv
<1> SUFFICES ASSUME Init PROVE RegistryInv
  OBVIOUS
<1>1. Idle \in Ops /\ NoIr \in Irs
  BY RegistryBoundsAssumption DEF Ops, Irs, NoIr
<1>2. RegistryTypeOK
  <2>1. /\ row \in [state : States, version : Versions] \cup {NoRow}
        /\ package \in [Versions -> Packages \cup {NoPackage}]
        /\ ir \in [Versions -> Irs]
        /\ op \in [Actors -> Ops]
    BY <1>1 DEF Init
  <2>2. /\ sources \in 0 .. MaxEdits
        /\ generated \in 0 .. MaxGenerations
        /\ cuts \in 0 .. MaxCuts
    BY RegistryBoundsAssumption DEF Init
  <2>3. raced \in BOOLEAN /\ signedOff \subseteq Versions
    BY DEF Init
  <2> QED
    BY <2>1, <2>2, <2>3 DEF RegistryTypeOK
<1>3. SavesOK /\ FilesOK /\ GateCountsSigned
  BY DEF Init, SavesOK, SaveOK, Idle, FilesOK, GateCountsSigned, NoRow
<1> QED
  BY <1>2, <1>3 DEF RegistryInv

------------------------------------------------------------------------------
(* The steps.                                                                *)

\* What an operation that writes no file and no row needs to preserve the invariant.
LEMMA OperationStep ==
  ASSUME RegistryInv, NEW operations, NEW a \in Actors, NEW o, AsBefore(operations),
         op' = [operations EXCEPT ![a] = o],
         o \in Ops, SaveOK(o, signedOff),
         ir' \in [Versions -> Irs], generated' \in 0 .. MaxGenerations, cuts' \in 0 .. MaxCuts,
         UNCHANGED <<row, package, sources, raced, signedOff>>
  PROVE  RegistryInv'
<1>1. SaveOK(o, signedOff')
  BY DEF SaveOK
<1>2. op' \in [Actors -> Ops] /\ SavesOK'
  <2>1. signedOff \subseteq signedOff'
    OBVIOUS
  <2> QED
    BY <1>1, <2>1, OpReplaced
<1>3. RegistryTypeOK'
  BY <1>2 DEF RegistryInv, RegistryTypeOK
<1>4. FilesOK' /\ GateCountsSigned'
  BY DEF RegistryInv, FilesOK, GateCountsSigned
<1> QED
  BY <1>2, <1>3, <1>4 DEF RegistryInv

\* Writing an IR keeps the type of the directories.
LEMMA IrWritten ==
  ASSUME RegistryTypeOK, NEW v \in Versions, NEW read \in 0 .. MaxEdits, WriteIr(v, read)
  PROVE  ir' \in [Versions -> Irs] /\ generated' \in 0 .. MaxGenerations
BY RegistryBoundsAssumption DEF RegistryTypeOK, WriteIr, Irs

\* An operation that goes on to save an earned document.
LEMMA SavingOp ==
  ASSUME NEW v \in Versions, NEW document \in Packages, NEW stale \in BOOLEAN
  PROVE  LET o == [step |-> "file", version |-> v, package |-> document, stale |-> stale]
         IN  o \in Ops /\ (Earned(document) => SaveOK(o, signedOff))
BY DEF Ops, SaveOK

\* An operation that does not save anything yet.
LEMMA QuietOps ==
  /\ Idle \in Ops /\ SaveOK(Idle, signedOff)
  /\ \A v \in Versions, stale \in BOOLEAN :
       LET o == [step |-> "hash", version |-> v, stale |-> stale]
       IN  o \in Ops /\ SaveOK(o, signedOff)
  /\ \A v \in Versions, read \in 0 .. MaxEdits :
       LET o == [step |-> "prompt", version |-> v, sources |-> read]
       IN  o \in Ops /\ SaveOK(o, signedOff)
  /\ \A target \in {"static_validated", "conformance_validated"}, v \in Versions,
        seen \in 0 .. MaxGenerations :
       LET o == [step |-> "checked", target |-> target, version |-> v, stale |-> FALSE,
                 seen |-> seen]
       IN  o \in Ops /\ SaveOK(o, signedOff)
BY DEF Ops, SaveOK, Idle

\* The package an operation loads is a typed and earned document.
LEMMA Loaded ==
  ASSUME RegistryInv, HasPackage
  PROVE  /\ row.version \in Versions
         /\ Load \in Packages /\ Earned(Load)
         /\ ir[row.version].generation \in 0 .. MaxGenerations
BY DEF RegistryInv, RegistryTypeOK, FilesOK, HasPackage, Load, Irs

\* A generation goes on to write a new package, which demands no evidence.
LEMMA GenerateStep ==
  ASSUME RegistryInv, NEW a \in Actors, Generate(a)
  PROVE  RegistryInv'
<1>1. op[a] \in Ops /\ RegistryTypeOK /\ sources \in 0 .. MaxEdits
  BY DEF RegistryInv, RegistryTypeOK
<1> AsBefore(op) /\ \A v : AsBefore(Overtaken(a, v))
  BY OvertakenOps DEF RegistryInv, RegistryTypeOK
<1>2. CASE \E v \in Versions : Import(a, v)
  <2>1. PICK v \in Versions : Import(a, v)
    BY <1>2
  <2>2. ir' \in [Versions -> Irs] /\ generated' \in 0 .. MaxGenerations
    BY <1>1, <2>1, IrWritten DEF Import
  <2>3. op' = [Overtaken(a, v) EXCEPT ![a] = [step |-> "hash", version |-> v, stale |-> FALSE]]
    BY <2>1 DEF Import
  <2>4. cuts' \in 0 .. MaxCuts /\ UNCHANGED <<row, package, sources, raced, signedOff>>
    BY <1>1, <2>1 DEF Import, RegistryTypeOK
  <2> DEFINE o == [step |-> "hash", version |-> v, stale |-> FALSE]
  <2>5. o \in Ops /\ SaveOK(o, signedOff)
    BY QuietOps
  <2> HIDE DEF o
  <2>6. op' = [Overtaken(a, v) EXCEPT ![a] = o]
    BY <2>3 DEF o
  <2> QED
    BY <2>2, <2>4, <2>5, <2>6, OperationStep
<1>3. CASE \E v \in Versions : Ground(a, v)
  <2>1. PICK v \in Versions : Ground(a, v)
    BY <1>3
  <2>2. op' = [op EXCEPT ![a] = [step |-> "prompt", version |-> v, sources |-> sources]]
    BY <2>1 DEF Ground
  <2>3. /\ ir' \in [Versions -> Irs] /\ generated' \in 0 .. MaxGenerations
        /\ cuts' \in 0 .. MaxCuts /\ UNCHANGED <<row, package, sources, raced, signedOff>>
    BY <1>1, <2>1 DEF Ground, RegistryTypeOK
  <2> QED
    BY <1>1, <2>2, <2>3, QuietOps, OperationStep
<1>4. CASE HashSources(a)
  <2>1. op[a] \in Hashing
    BY <1>1, <1>4, OpsByStep DEF HashSources
  <2>2. PICK stale \in BOOLEAN :
          op' = [op EXCEPT ![a] = [step |-> "file", version |-> op[a].version,
                                   package |-> NewPackage(sources), stale |-> stale]]
    BY <1>4, <2>1 DEF HashSources, Saving, Hashing
  <2>3. op[a].version \in Versions
    BY <2>1 DEF Hashing
  <2>4. /\ ir' \in [Versions -> Irs] /\ generated' \in 0 .. MaxGenerations
        /\ cuts' \in 0 .. MaxCuts /\ UNCHANGED <<row, package, sources, raced, signedOff>>
    BY <1>1, <1>4 DEF HashSources, RegistryTypeOK
  <2> QED
    BY <1>1, <2>2, <2>3, <2>4, NewPackageEarned, SavingOp, OperationStep
<1>5. CASE ProviderAnswers(a)
  <2>1. op[a].version \in Versions /\ op[a].sources \in 0 .. MaxEdits
    BY <1>1, <1>5, OpsByStep DEF ProviderAnswers, Prompting
  <2>2. ir' \in [Versions -> Irs] /\ generated' \in 0 .. MaxGenerations
    BY <1>1, <1>5, <2>1, IrWritten DEF ProviderAnswers
  <2>3. op' = [Overtaken(a, op[a].version) EXCEPT ![a] =
                 [step |-> "file", version |-> op[a].version,
                  package |-> NewPackage(op[a].sources), stale |-> FALSE]]
    BY <1>5 DEF ProviderAnswers, Saving
  <2>4. cuts' \in 0 .. MaxCuts /\ UNCHANGED <<row, package, sources, raced, signedOff>>
    BY <1>1, <1>5 DEF ProviderAnswers, RegistryTypeOK
  <2> DEFINE o == [step |-> "file", version |-> op[a].version,
                   package |-> NewPackage(op[a].sources), stale |-> FALSE]
  <2>5. o \in Ops /\ SaveOK(o, signedOff)
    BY <2>1, NewPackageEarned, SavingOp
  <2> HIDE DEF o
  <2>6. op' = [Overtaken(a, op[a].version) EXCEPT ![a] = o]
    BY <2>3 DEF o
  <2> QED
    BY <2>2, <2>4, <2>5, <2>6, OperationStep
<1>6. CASE GenerationRefused(a)
  <2>1. op' = [op EXCEPT ![a] = Idle]
    BY <1>6 DEF GenerationRefused
  <2>2. /\ ir' \in [Versions -> Irs] /\ generated' \in 0 .. MaxGenerations
        /\ cuts' \in 0 .. MaxCuts /\ UNCHANGED <<row, package, sources, raced, signedOff>>
    BY <1>1, <1>6 DEF GenerationRefused, RegistryTypeOK
  <2> QED
    BY <2>1, <2>2, QuietOps, OperationStep
<1> QED
  BY <1>2, <1>3, <1>4, <1>5, <1>6 DEF Generate

\* A validation acts on the package the row names, earned as it is.
LEMMA ValidateStep ==
  ASSUME RegistryInv, NEW a \in Actors, Validate(a)
  PROVE  RegistryInv'
<1>1. op[a] \in Ops /\ RegistryTypeOK /\ op \in [Actors -> Ops]
  BY DEF RegistryInv, RegistryTypeOK
<1>2. AsBefore(op)
  BY <1>1, OvertakenOps
<1>3. HasPackage /\ UNCHANGED <<row, package, ir, sources, generated, cuts, raced, signedOff>>
  BY DEF Validate, CheckStatic, CheckConformance, Check, TransitionChecked
<1>4. /\ ir' \in [Versions -> Irs] /\ generated' \in 0 .. MaxGenerations
      /\ cuts' \in 0 .. MaxCuts /\ UNCHANGED <<row, package, sources, raced, signedOff>>
  BY <1>1, <1>3 DEF RegistryTypeOK
<1>5. /\ row.version \in Versions
      /\ Load \in Packages /\ Earned(Load)
      /\ ir[row.version].generation \in 0 .. MaxGenerations
  BY <1>3, Loaded
<1>6. CASE CheckStatic(a) \/ CheckConformance(a)
  <2>1. PICK target \in {"static_validated", "conformance_validated"} :
          op' = [op EXCEPT ![a] = [step |-> "checked", target |-> target,
                                   version |-> row.version, stale |-> FALSE,
                                   seen |-> ir[row.version].generation]]
    BY <1>6 DEF CheckStatic, CheckConformance, Check
  <2> DEFINE o == [step |-> "checked", target |-> target, version |-> row.version,
                   stale |-> FALSE, seen |-> ir[row.version].generation]
  <2>2. o \in Ops /\ SaveOK(o, signedOff)
    BY <1>5, QuietOps
  <2> HIDE DEF o
  <2>3. op' = [op EXCEPT ![a] = o]
    BY <2>1 DEF o
  <2> QED
    BY <1>2, <1>4, <2>2, <2>3, OperationStep
<1>7. CASE TransitionChecked(a)
  <2>1. op[a] \in Checked
    BY <1>1, <1>7, OpsByStep DEF TransitionChecked
  <2>2. CASE Legal(Load, op[a].target)
    <3> DEFINE evidence == EvidenceOf(op[a].target, op[a].seen, FALSE)
               document == Promoted(Load, op[a].target, evidence, FALSE)
               stale == op[a].stale \/ row.version # op[a].version
               o == [step |-> "file", version |-> row.version, package |-> document,
                     stale |-> stale]
    <3>1. op[a].target \in {"static_validated", "conformance_validated"}
          /\ op[a].seen \in 0 .. MaxGenerations /\ op[a].target \in States
      BY <2>1 DEF Checked, States
    <3>2. /\ evidence \in SUBSET Evidence
          /\ op[a].target \in Kinds =>
               \E e \in evidence :
                 e.kind = op[a].target /\ (op[a].target \in ByHuman => e.human)
      <4>1. op[a].target \notin ByHuman
        BY <3>1 DEF ByHuman
      <4>2. evidence \subseteq Evidence
        BY <3>1, EvidenceTyped
      <4>3. op[a].target \in Kinds => \E e \in evidence : e.kind = op[a].target
        BY <3>1, EvidenceTyped
      <4> QED
        BY <4>1, <4>2, <4>3
    <3>3. op[a].target # "production_approved"
      BY <3>1
    <3>4. stale \in BOOLEAN
      BY <2>1 DEF Checked
    <3>5. op' = [op EXCEPT ![a] = o]
      BY <1>7, <2>2 DEF TransitionChecked, Saving
    <3> HIDE DEF evidence, stale
    <3>6. document \in Packages /\ Earned(document)
      BY <1>5, <2>2, <3>1, <3>2, <3>3, PromotedEarned
    <3> HIDE DEF document
    <3>7. o \in Ops /\ SaveOK(o, signedOff)
      BY <1>5, <3>4, <3>6, SavingOp
    <3> HIDE DEF o
    <3> QED
      BY <1>2, <1>4, <3>5, <3>7, OperationStep
  <2>3. CASE ~Legal(Load, op[a].target)
    <3>1. op' = [op EXCEPT ![a] = Idle]
      BY <1>7, <2>3 DEF TransitionChecked
    <3> QED
      BY <1>2, <1>4, <3>1, QuietOps, OperationStep
  <2> QED
    BY <2>2, <2>3
<1> QED
  BY <1>6, <1>7 DEF Validate

\* A human brings the evidence, and at the end the signature, that the state demands.
LEMMA PromoteStep ==
  ASSUME RegistryInv, NEW a \in Actors, NEW target \in States, NEW human \in BOOLEAN,
         NEW evidence \in BOOLEAN, NEW signature \in BOOLEAN,
         Promote(a, target, human, evidence, signature)
  PROVE  RegistryInv'
<1> DEFINE paths == IF evidence THEN EvidenceOf(target, ir[row.version].generation, human)
                                ELSE {}
           document == Promoted(Load, target, paths, signature)
           o == [step |-> "file", version |-> row.version, package |-> document,
                 stale |-> FALSE]
<1>1. AsBefore(op)
  BY OvertakenOps DEF RegistryInv, RegistryTypeOK
<1>2. /\ HasPackage /\ Legal(Load, target) /\ target # "conformance_validated"
      /\ Approved(target, human, evidence, signature)
      /\ UNCHANGED <<row, package, ir, sources, generated, cuts, raced, signedOff>>
  BY DEF Promote
<1>3. op' = [op EXCEPT ![a] = o]
  BY DEF Promote, Saving
<1>4. /\ ir' \in [Versions -> Irs] /\ generated' \in 0 .. MaxGenerations
      /\ cuts' \in 0 .. MaxCuts /\ UNCHANGED <<row, package, sources, raced, signedOff>>
  BY <1>2 DEF RegistryInv, RegistryTypeOK
<1>5. /\ row.version \in Versions
      /\ Load \in Packages /\ Earned(Load)
      /\ ir[row.version].generation \in 0 .. MaxGenerations
  BY <1>2, Loaded
<1>6. paths \in SUBSET Evidence
  BY <1>5, EvidenceTyped
<1>7. target \in Kinds =>
        \E e \in paths : e.kind = target /\ (target \in ByHuman => e.human)
  <2>1. SUFFICES ASSUME target \in Kinds
                 PROVE  \E e \in paths : e.kind = target /\ (target \in ByHuman => e.human)
    OBVIOUS
  <2>2. human /\ evidence
    BY <1>2, <2>1 DEF Kinds, Approved
  <2>3. paths = EvidenceOf(target, ir[row.version].generation, human)
    BY <2>2
  <2> QED
    BY <1>5, <2>1, <2>2, <2>3, EvidenceTyped
<1>8. target = "production_approved" => signature
  BY <1>2 DEF Approved
<1> HIDE DEF paths
<1>9. document \in Packages /\ Earned(document)
  BY <1>2, <1>5, <1>6, <1>7, <1>8, PromotedEarned
<1> HIDE DEF document
<1>10. o \in Ops /\ SaveOK(o, signedOff)
  BY <1>5, <1>9, SavingOp
<1> HIDE DEF o
<1> QED
  BY <1>1, <1>3, <1>4, <1>10, OperationStep

\* Listing a source saves the document that is in the file.
LEMMA ListSourceStep ==
  ASSUME RegistryInv, NEW a \in Actors, ListSource(a)
  PROVE  RegistryInv'
<1> DEFINE document == Load
           o == [step |-> "file", version |-> row.version, package |-> document,
                 stale |-> FALSE]
<1>1. AsBefore(op)
  BY OvertakenOps DEF RegistryInv, RegistryTypeOK
<1>2. op' = [op EXCEPT ![a] = o]
  BY DEF ListSource, Saving
<1>3. /\ ir' \in [Versions -> Irs] /\ generated' \in 0 .. MaxGenerations
      /\ cuts' \in 0 .. MaxCuts /\ UNCHANGED <<row, package, sources, raced, signedOff>>
  BY DEF ListSource, RegistryInv, RegistryTypeOK
<1>4. row.version \in Versions /\ document \in Packages /\ Earned(document)
  BY Loaded DEF ListSource
<1> HIDE DEF document
<1>5. o \in Ops /\ SaveOK(o, signedOff)
  BY <1>4, SavingOp
<1> HIDE DEF o
<1> QED
  BY <1>1, <1>2, <1>3, <1>5, OperationStep

\* The document that reaches the file is earned: if it approves production it is signed,
\* and its version counts as signed before the row can say so.
LEMMA SaveFileStep ==
  ASSUME RegistryInv, NEW a \in Actors, SaveFile(a)
  PROVE  RegistryInv'
<1> DEFINE v == op[a].version
           document == op[a].package
           operations == Overtaken(a, v)
           o == [op[a] EXCEPT !.step = "row"]
<1>1. op \in [Actors -> Ops] /\ op[a] \in Writing /\ op[a].step = "file"
  BY OpsByStep DEF RegistryInv, RegistryTypeOK, SaveFile
<1>2. v \in Versions /\ document \in Packages /\ Earned(document)
  BY <1>1 DEF Writing, RegistryInv, SavesOK, SaveOK
<1>3. /\ o \in Ops
      /\ o.step = "row" /\ o.version = v /\ o.package = document
  BY <1>1 DEF Writing, Ops
<1>4. /\ AsBefore(operations) /\ operations \in [Actors -> Ops]
      /\ operations[a] = op[a]
  BY <1>1, OvertakenOps DEF AsBefore
<1>5. op' = [operations EXCEPT ![a].step = "row"]
  BY DEF SaveFile
<1>6. op' = [operations EXCEPT ![a] = o]
  BY <1>4, <1>5
<1>7. /\ signedOff \subseteq signedOff' /\ signedOff' \subseteq Versions
      /\ document.state = "production_approved" => v \in signedOff'
  BY <1>2 DEF SaveFile, Earned, RegistryInv, RegistryTypeOK
<1>8. package' = [package EXCEPT ![v] = document]
      /\ UNCHANGED <<row, ir, sources, generated, cuts>>
  BY DEF SaveFile
<1>9. raced' \in BOOLEAN
  BY <1>1 DEF SaveFile, Writing, RegistryInv, RegistryTypeOK
<1> HIDE DEF v, document, operations, o
<1>10. SaveOK(o, signedOff')
  BY <1>2, <1>3, <1>7 DEF SaveOK
<1>11. op' \in [Actors -> Ops] /\ SavesOK'
  BY <1>3, <1>4, <1>6, <1>7, <1>10, OpReplaced
<1>12. RegistryTypeOK'
  BY <1>2, <1>7, <1>8, <1>9, <1>11 DEF RegistryInv, RegistryTypeOK
<1>13. FilesOK'
  BY <1>2, <1>8 DEF RegistryInv, RegistryTypeOK, FilesOK
<1>14. GateCountsSigned'
  BY <1>7, <1>8 DEF RegistryInv, GateCountsSigned
<1> QED
  BY <1>11, <1>12, <1>13, <1>14 DEF RegistryInv

\* The row repeats the document that was written to the file.
LEMMA SaveRowStep ==
  ASSUME RegistryInv, NEW a \in Actors, SaveRow(a)
  PROVE  RegistryInv'
<1>1. op \in [Actors -> Ops] /\ op[a] \in Writing
  BY OpsByStep DEF RegistryInv, RegistryTypeOK, SaveRow
<1>2. /\ row' \in [state : States, version : Versions]
      /\ row'.state = op[a].package.state /\ row'.version = op[a].version
      /\ op[a].step = "row"
  BY <1>1 DEF SaveRow, Writing, Packages
<1>3. /\ op' = [op EXCEPT ![a] = Idle]
      /\ UNCHANGED <<package, ir, sources, generated, cuts, signedOff>>
  BY DEF SaveRow
<1>4. raced' \in BOOLEAN
  BY <1>1 DEF SaveRow, Writing, RegistryInv, RegistryTypeOK
<1>5. op' \in [Actors -> Ops] /\ SavesOK'
  BY <1>1, <1>3, OvertakenOps, QuietOps, OpReplaced
<1>6. RegistryTypeOK'
  BY <1>2, <1>3, <1>4, <1>5 DEF RegistryInv, RegistryTypeOK
<1>7. FilesOK' /\ GateCountsSigned'
  BY <1>2, <1>3 DEF RegistryInv, SavesOK, SaveOK, FilesOK, GateCountsSigned
<1> QED
  BY <1>5, <1>6, <1>7 DEF RegistryInv

\* Every step of the registry preserves the invariant.
LEMMA RegistryInvStep == RegistryInv /\ [Next]_vars => RegistryInv'
<1> SUFFICES ASSUME RegistryInv, [Next]_vars PROVE RegistryInv'
  OBVIOUS
<1>1. ASSUME NEW a \in Actors, CutShort(a) PROVE RegistryInv'
  <2>1. AsBefore(op)
    BY OvertakenOps DEF RegistryInv, RegistryTypeOK
  <2>2. op' = [op EXCEPT ![a] = Idle]
    BY <1>1 DEF CutShort
  <2>3. /\ ir' \in [Versions -> Irs] /\ generated' \in 0 .. MaxGenerations
        /\ cuts' \in 0 .. MaxCuts /\ UNCHANGED <<row, package, sources, raced, signedOff>>
    BY <1>1, RegistryBoundsAssumption DEF CutShort, RegistryInv, RegistryTypeOK
  <2> QED
    BY <2>1, <2>2, <2>3, QuietOps, OperationStep
<1>2. CASE EditSources
  <2>1. RegistryTypeOK'
    BY <1>2, RegistryBoundsAssumption DEF EditSources, RegistryInv, RegistryTypeOK
  <2>2. SavesOK' /\ FilesOK' /\ GateCountsSigned'
    BY <1>2 DEF EditSources, RegistryInv, SavesOK, SaveOK, FilesOK, GateCountsSigned
  <2> QED
    BY <2>1, <2>2 DEF RegistryInv
<1>3. CASE UNCHANGED vars
  <2>1. RegistryTypeOK'
    BY <1>3 DEF vars, RegistryInv, RegistryTypeOK
  <2>2. SavesOK' /\ FilesOK' /\ GateCountsSigned'
    BY <1>3 DEF vars, RegistryInv, SavesOK, SaveOK, FilesOK, GateCountsSigned
  <2> QED
    BY <2>1, <2>2 DEF RegistryInv
<1>4. Humans \subseteq Actors
  BY DEF Actors
<1> QED
  BY <1>1, <1>2, <1>3, <1>4, GenerateStep, ValidateStep, PromoteStep, ListSourceStep,
     SaveFileStep, SaveRowStep DEF Next

------------------------------------------------------------------------------
(* The theorems.                                                             *)

\* The invariant holds in every state, however operations overlap, whichever
\* are cut short and whenever the sources are edited.
THEOREM RegistryCorrect == Spec => []RegistryInv
<1> QED
  BY InitRegistryInv, RegistryInvStep, PTL DEF Spec

\* Every variable of the registry stays in its type.
THEOREM RegistryTypeCorrect == Spec => []RegistryTypeOK
<1>1. RegistryInv => RegistryTypeOK
  BY DEF RegistryInv
<1> QED
  BY <1>1, RegistryCorrect, PTL

\* No package document, in a file or about to be written, is in a state whose
\* conformance report, human approval or signature it lacks.
THEOREM StatesEarned == Spec => []StateIsEarned
<1>1. RegistryInv => StateIsEarned
  BY DEF RegistryInv, SavesOK, SaveOK, FilesOK, StateIsEarned
<1> QED
  BY <1>1, RegistryCorrect, PTL

\* The row that the release gate counts as approved names a version of which a
\* signed document was saved before.
THEOREM GateCountsOnlySigned == Spec => []GateCountsSigned
<1>1. RegistryInv => GateCountsSigned
  BY DEF RegistryInv
<1> QED
  BY <1>1, RegistryCorrect, PTL

------------------------------------------------------------------------------
(* Exactness, while nothing overlapped and nothing was cut short.            *)

ExactTo(document, behavior) ==
  /\ \A e \in document.evidence : e.ir = behavior.generation
  /\ document.source_hash = behavior.sources

\* The operation will overwrite the file of v, or is about to make the overlap show.
StillWrites(o, v) ==
  /\ o.step \in {"hash", "file", "row"} /\ o.version = v
  /\ o.step = "row" => o.stale

FileExact(v) ==
  package[v] # NoPackage =>
    ExactTo(package[v], ir[v]) \/ \E b \in Actors : StillWrites(op[b], v)

\* What is saved unmarked is exact, unless another operation is going to save as well.
SaveExact(a) ==
  op[a].step \in {"file", "row"} /\ ~op[a].stale =>
    \/ ExactTo(op[a].package, ir[op[a].version])
    \/ \E b \in Actors : b # a /\ StillWrites(op[b], op[a].version)

RowAgrees(v) ==
  package[v] # NoPackage /\ row # NoRow /\ row.version = v =>
    \/ row.state = package[v].state
    \/ \E b \in Actors : op[b].step = "row" /\ op[b].version = v

FileWritten(a) ==
  op[a].step = "row" /\ ~op[a].stale => package[op[a].version] = op[a].package

CheckCurrent(a) ==
  op[a].step = "checked" /\ ~op[a].stale => op[a].seen = ir[op[a].version].generation

ExactInv ==
  /\ \A v \in Versions : FileExact(v) /\ RowAgrees(v)
  /\ \A a \in Actors : SaveExact(a) /\ FileWritten(a) /\ CheckCurrent(a)

\* What a step leaves of an operation, apart from the mark.
SameWork(b) ==
  /\ op'[b].step = op[b].step
  /\ op[b].step \notin {"idle", "prompt"} => op'[b].version = op[b].version
  /\ op[b].step \in {"file", "row"} => op'[b].package = op[b].package
  /\ op[b].step = "checked" => op'[b].seen = op[b].seen
  /\ op[b].step \notin {"idle", "prompt"} /\ op[b].stale => op'[b].stale

Marked(b, v) ==
  op[b].step \notin {"idle", "prompt"} /\ op[b].version = v => op'[b].stale

\* The operations of the others, when actor a reads, and when it writes to v.
LEMMA OthersStay ==
  ASSUME op \in [Actors -> Ops], NEW a \in Actors, NEW o, op' = [op EXCEPT ![a] = o]
  PROVE  op'[a] = o /\ \A b \in Actors : b # a => op'[b] = op[b] /\ SameWork(b)
BY DEF SameWork

\* ... and when actor a writes to v: those at work on v are marked.
LEMMA OthersMarked ==
  ASSUME op \in [Actors -> Ops], NEW a \in Actors, NEW v, NEW o,
         op' = [Overtaken(a, v) EXCEPT ![a] = o]
  PROVE  op'[a] = o /\ \A b \in Actors : b # a => SameWork(b) /\ Marked(b, v)
<1>1. op'[a] = o /\ \A b \in Actors : b # a => op'[b] = Overtaken(a, v)[b]
  BY DEF Overtaken
<1>2. ASSUME NEW b \in Actors, b # a PROVE SameWork(b) /\ Marked(b, v)
  <2>1. CASE op[b].step \notin {"idle", "prompt"} /\ op[b].version = v
    <3>1. op'[b] = [op[b] EXCEPT !.stale = TRUE]
      BY <1>1, <1>2, <2>1 DEF Overtaken
    <3>2. op[b] \in Hashing \/ op[b] \in Checked \/ op[b] \in Writing
      BY <2>1, OpsByStep
    <3>3. CASE op[b] \in Hashing
      BY <3>1, <3>3 DEF Hashing, SameWork, Marked
    <3>4. CASE op[b] \in Checked
      BY <3>1, <3>4 DEF Checked, SameWork, Marked
    <3>5. CASE op[b] \in Writing
      BY <3>1, <3>5 DEF Writing, SameWork, Marked
    <3> QED
      BY <3>2, <3>3, <3>4, <3>5
  <2>2. CASE ~(op[b].step \notin {"idle", "prompt"} /\ op[b].version = v)
    <3>1. op'[b] = op[b]
      BY <1>1, <1>2, <2>2 DEF Overtaken
    <3> QED
      BY <2>2, <3>1 DEF SameWork, Marked
  <2> QED
    BY <2>1, <2>2
<1> QED
  BY <1>1, <1>2

\* An operation that is going to write still does, if its work is the same.
LEMMA StillWritesStays ==
  ASSUME NEW b, NEW v, SameWork(b), StillWrites(op[b], v)
  PROVE  StillWrites(op'[b], v)
BY DEF SameWork, StillWrites

\* A step that only reads, or begins to save what it read.
LEMMA ReadStep ==
  ASSUME op \in [Actors -> Ops], ExactInv, NEW a \in Actors, NEW o,
         op' = [op EXCEPT ![a] = o], UNCHANGED <<row, package, ir>>,
         op[a].step \in {"idle", "prompt", "checked", "hash"},
         o.step \in {"idle", "prompt", "checked", "file"},
         op[a].step = "hash" => o.step = "file" /\ o.version = op[a].version,
         o.step = "checked" => o.seen = ir[o.version].generation,
         o.step = "file" /\ ~o.stale =>
           \/ ExactTo(o.package, ir[o.version])
           \/ \E b \in Actors : b # a /\ StillWrites(op[b], o.version)
  PROVE  ExactInv'
<1>1. op'[a] = o /\ \A b \in Actors : b # a => op'[b] = op[b] /\ SameWork(b)
  BY OthersStay
<1>2. ASSUME NEW v, NEW b \in Actors, StillWrites(op[b], v)
      PROVE  StillWrites(op'[b], v)
  <2>1. CASE b = a
    BY <1>1, <1>2, <2>1 DEF StillWrites
  <2>2. CASE b # a
    BY <1>1, <1>2, <2>2, StillWritesStays
  <2> QED
    BY <2>1, <2>2
<1>3. ASSUME NEW v \in Versions PROVE FileExact(v)' /\ RowAgrees(v)'
  <2>1. FileExact(v) /\ RowAgrees(v)
    BY DEF ExactInv
  <2>2. FileExact(v)'
    BY <1>2, <2>1 DEF FileExact
  <2>3. \A b \in Actors : op[b].step = "row" =>
         op'[b].step = "row" /\ op'[b].version = op[b].version
    BY <1>1
  <2>4. RowAgrees(v)'
    BY <2>1, <2>3 DEF RowAgrees
  <2> QED
    BY <2>2, <2>4
<1>4. ASSUME NEW b \in Actors PROVE SaveExact(b)' /\ FileWritten(b)' /\ CheckCurrent(b)'
  <2>1. SaveExact(b) /\ FileWritten(b) /\ CheckCurrent(b)
    BY DEF ExactInv
  <2>2. CASE b = a
    <3>1. SaveExact(b)'
      BY <1>1, <1>2, <2>2 DEF SaveExact
    <3>2. FileWritten(b)' /\ CheckCurrent(b)'
      BY <1>1, <2>2 DEF FileWritten, CheckCurrent
    <3> QED
      BY <3>1, <3>2
  <2>3. CASE b # a
    <3>1. op'[b] = op[b]
      BY <1>1, <2>3
    <3>2. SaveExact(b)'
      BY <1>2, <2>1, <3>1 DEF SaveExact
    <3>3. FileWritten(b)' /\ CheckCurrent(b)'
      BY <2>1, <3>1 DEF FileWritten, CheckCurrent
    <3> QED
      BY <3>2, <3>3
  <2> QED
    BY <2>2, <2>3
<1> QED
  BY <1>3, <1>4 DEF ExactInv

\* A step that writes the IR of v and goes on to save.
LEMMA IrStep ==
  ASSUME op \in [Actors -> Ops], ir \in [Versions -> Irs], ExactInv,
         NEW a \in Actors, NEW v \in Versions, NEW o, NEW behavior,
         op' = [Overtaken(a, v) EXCEPT ![a] = o], UNCHANGED <<row, package>>,
         ir' = [ir EXCEPT ![v] = behavior],
         op[a].step \in {"idle", "prompt"},
         o.step \in {"hash", "file"}, o.version = v,
         o.step = "file" => ExactTo(o.package, behavior)
  PROVE  ExactInv'
<1>1. op'[a] = o /\ \A b \in Actors : b # a => SameWork(b) /\ Marked(b, v)
  BY OthersMarked
<1>2. ir'[v] = behavior /\ \A w \in Versions : w # v => ir'[w] = ir[w]
  OBVIOUS
<1>3. ASSUME NEW w, NEW b \in Actors, StillWrites(op[b], w)
      PROVE  StillWrites(op'[b], w)
  <2>1. b # a
    BY <1>3 DEF StillWrites
  <2> QED
    BY <1>1, <1>3, <2>1, StillWritesStays
<1>4. StillWrites(op'[a], v)
  BY <1>1 DEF StillWrites
<1>5. ASSUME NEW w \in Versions PROVE FileExact(w)' /\ RowAgrees(w)'
  <2>1. FileExact(w) /\ RowAgrees(w)
    BY DEF ExactInv
  <2>2. FileExact(w)'
    <3>1. CASE w = v
      BY <1>4, <3>1 DEF FileExact
    <3>2. CASE w # v
      BY <1>2, <1>3, <2>1, <3>2 DEF FileExact
    <3> QED
      BY <3>1, <3>2
  <2>3. \A b \in Actors : op[b].step = "row" =>
         op'[b].step = "row" /\ op'[b].version = op[b].version
    BY <1>1 DEF SameWork
  <2>4. RowAgrees(w)'
    BY <2>1, <2>3 DEF RowAgrees
  <2> QED
    BY <2>2, <2>4
<1>6. ASSUME NEW b \in Actors PROVE SaveExact(b)' /\ FileWritten(b)' /\ CheckCurrent(b)'
  <2>1. SaveExact(b) /\ FileWritten(b) /\ CheckCurrent(b)
    BY DEF ExactInv
  <2>2. CASE b = a
    BY <1>1, <1>2, <2>2 DEF SaveExact, FileWritten, CheckCurrent
  <2>3. CASE b # a /\ op[b].step \notin {"idle", "prompt"}
    <3>1. SameWork(b) /\ Marked(b, v) /\ op'[b].version = op[b].version
      BY <1>1, <2>3 DEF SameWork
    <3>2. CASE op[b].version = v
      BY <3>1, <3>2, <2>3 DEF Marked, SaveExact, FileWritten, CheckCurrent
    <3>3. CASE op[b].version # v
      <4>1. op[b].version \in Versions
        BY <2>3, OpsByStep DEF Hashing, Checked, Writing
      <4>2. ir'[op'[b].version] = ir[op[b].version]
        BY <1>2, <3>1, <3>3, <4>1
      <4>3. SaveExact(b)'
        BY <1>3, <2>1, <3>1, <4>2 DEF SaveExact, SameWork
      <4>4. FileWritten(b)' /\ CheckCurrent(b)'
        BY <2>1, <3>1, <4>2 DEF FileWritten, CheckCurrent, SameWork
      <4> QED
        BY <4>3, <4>4
    <3> QED
      BY <3>2, <3>3
  <2>4. CASE b # a /\ op[b].step \in {"idle", "prompt"}
    BY <1>1, <2>4 DEF SameWork, SaveExact, FileWritten, CheckCurrent
  <2> QED
    BY <2>2, <2>3, <2>4
<1> QED
  BY <1>5, <1>6 DEF ExactInv

\* A save that is not marked leaves its file exact, or under an operation that it marks.
LEMMA SaveFileExact ==
  ASSUME RegistryTypeOK, ExactInv, NEW a \in Actors, SaveFile(a), ~raced'
  PROVE  ExactInv'
<1> DEFINE v == op[a].version
           o == [op[a] EXCEPT !.step = "row"]
<1>1. /\ op \in [Actors -> Ops] /\ op[a] \in Writing /\ op[a].step = "file"
      /\ v \in Versions /\ ~op[a].stale
      /\ package' = [package EXCEPT ![v] = op[a].package]
      /\ package \in [Versions -> Packages \cup {NoPackage}]
      /\ UNCHANGED <<row, ir>>
  BY OpsByStep DEF RegistryTypeOK, SaveFile, Writing
<1>2. /\ o.step = "row" /\ o.version = v /\ o.package = op[a].package /\ o.stale = op[a].stale
  BY <1>1 DEF Writing
<1>3. op' = [Overtaken(a, v) EXCEPT ![a] = o]
  <2>1. op' = [Overtaken(a, v) EXCEPT ![a].step = "row"]
    BY DEF SaveFile
  <2>2. Overtaken(a, v)[a] = op[a]
    BY <1>1, OvertakenOps
  <2> QED
    BY <2>1, <2>2
<1> HIDE DEF v, o
<1>4. op'[a] = o /\ \A b \in Actors : b # a => SameWork(b) /\ Marked(b, v)
  BY <1>1, <1>3, OthersMarked
<1>5. ASSUME NEW w, NEW b \in Actors, b # a, StillWrites(op[b], w)
      PROVE  StillWrites(op'[b], w)
  BY <1>4, <1>5, StillWritesStays
<1>6. package'[v] = op[a].package /\ \A w \in Versions : w # v => package'[w] = package[w]
  BY <1>1
<1>7. ASSUME NEW w, w # v PROVE ~StillWrites(op[a], w)
  BY <1>7 DEF StillWrites, v
<1>8. \/ ExactTo(op[a].package, ir[v])
      \/ \E b \in Actors : b # a /\ StillWrites(op'[b], v)
  <2>1. SaveExact(a)
    BY DEF ExactInv
  <2> QED
    BY <1>1, <1>5, <2>1 DEF SaveExact, v
<1>9. ASSUME NEW w \in Versions PROVE FileExact(w)' /\ RowAgrees(w)'
  <2>1. FileExact(w) /\ RowAgrees(w)
    BY DEF ExactInv
  <2>2. CASE w = v
    <3>1. FileExact(w)'
      BY <1>1, <1>6, <1>8, <2>2 DEF FileExact
    <3>2. RowAgrees(w)'
      BY <1>2, <1>4, <2>2 DEF RowAgrees
    <3> QED
      BY <3>1, <3>2
  <2>3. CASE w # v
    <3>1. package'[w] = package[w] /\ ir'[w] = ir[w] /\ row' = row
      BY <1>1, <1>6, <2>3
    <3>2. FileExact(w)'
      BY <1>5, <1>7, <2>1, <2>3, <3>1 DEF FileExact
    <3>3. \A b \in Actors : op[b].step = "row" =>
           op'[b].step = "row" /\ op'[b].version = op[b].version
      BY <1>1, <1>4 DEF SameWork
    <3>4. RowAgrees(w)'
      BY <2>1, <3>1, <3>3 DEF RowAgrees
    <3> QED
      BY <3>2, <3>4
  <2> QED
    BY <2>2, <2>3
<1>10. ASSUME NEW b \in Actors PROVE SaveExact(b)' /\ FileWritten(b)' /\ CheckCurrent(b)'
  <2>1. SaveExact(b) /\ FileWritten(b) /\ CheckCurrent(b)
    BY DEF ExactInv
  <2>2. CASE b = a
    <3>1. SaveExact(b)'
      BY <1>1, <1>2, <1>4, <1>8, <2>2 DEF SaveExact
    <3>2. FileWritten(b)' /\ CheckCurrent(b)'
      BY <1>2, <1>4, <1>6, <2>2 DEF FileWritten, CheckCurrent
    <3> QED
      BY <3>1, <3>2
  <2>3. CASE b # a /\ op[b].step \notin {"idle", "prompt"}
    <3>1. SameWork(b) /\ Marked(b, v) /\ op'[b].version = op[b].version
      BY <1>4, <2>3 DEF SameWork
    <3>2. CASE op[b].version = v
      BY <3>1, <3>2, <2>3 DEF Marked, SaveExact, FileWritten, CheckCurrent
    <3>3. CASE op[b].version # v
      <4>1. op[b].version \in Versions
        BY <1>1, <2>3, OpsByStep DEF Hashing, Checked, Writing
      <4>2. package'[op'[b].version] = package[op[b].version] /\ ir' = ir
        BY <1>1, <1>6, <3>1, <3>3, <4>1
      <4>3. SaveExact(b)'
        <5>1. \A c \in Actors :
               StillWrites(op[c], op[b].version) => StillWrites(op'[c], op[b].version)
          BY <1>5, <1>7, <3>3
        <5> QED
          BY <2>1, <3>1, <4>2, <5>1 DEF SaveExact, SameWork
      <4>4. FileWritten(b)' /\ CheckCurrent(b)'
        BY <2>1, <3>1, <4>2 DEF FileWritten, CheckCurrent, SameWork
      <4> QED
        BY <4>3, <4>4
    <3> QED
      BY <3>2, <3>3
  <2>4. CASE b # a /\ op[b].step \in {"idle", "prompt"}
    BY <1>4, <2>4 DEF SameWork, SaveExact, FileWritten, CheckCurrent
  <2> QED
    BY <2>2, <2>3, <2>4
<1> QED
  BY <1>9, <1>10 DEF ExactInv

\* A row that is saved unmarked repeats the file.
LEMMA SaveRowExact ==
  ASSUME RegistryTypeOK, ExactInv, NEW a \in Actors, SaveRow(a), ~raced'
  PROVE  ExactInv'
<1> DEFINE v == op[a].version
<1>1. /\ op \in [Actors -> Ops] /\ op[a].step = "row" /\ ~op[a].stale
      /\ row'.state = op[a].package.state /\ row'.version = v
      /\ op' = [op EXCEPT ![a] = Idle] /\ UNCHANGED <<package, ir>>
  BY DEF RegistryTypeOK, SaveRow
<1>2. op'[a] = Idle /\ \A b \in Actors : b # a => op'[b] = op[b]
  BY <1>1
<1>3. ASSUME NEW w, NEW b \in Actors, StillWrites(op[b], w)
      PROVE  StillWrites(op'[b], w)
  BY <1>1, <1>2, <1>3 DEF StillWrites
<1>4. package[v] = op[a].package
  BY <1>1 DEF ExactInv, FileWritten
<1>5. ASSUME NEW w \in Versions PROVE FileExact(w)' /\ RowAgrees(w)'
  <2>1. FileExact(w)
    BY DEF ExactInv
  <2>2. FileExact(w)'
    BY <1>1, <1>3, <2>1 DEF FileExact
  <2>3. RowAgrees(w)'
    BY <1>1, <1>4 DEF RowAgrees
  <2> QED
    BY <2>2, <2>3
<1>6. ASSUME NEW b \in Actors PROVE SaveExact(b)' /\ FileWritten(b)' /\ CheckCurrent(b)'
  <2>1. SaveExact(b) /\ FileWritten(b) /\ CheckCurrent(b)
    BY DEF ExactInv
  <2>2. CASE b = a
    BY <1>2, <2>2 DEF Idle, SaveExact, FileWritten, CheckCurrent
  <2>3. CASE b # a
    <3>1. op'[b] = op[b]
      BY <1>2, <2>3
    <3> QED
      BY <1>1, <1>3, <2>1, <3>1 DEF SaveExact, FileWritten, CheckCurrent
  <2> QED
    BY <2>2, <2>3
<1> QED
  BY <1>5, <1>6 DEF ExactInv

\* A new package is exact to the IR whose sources it hashes: it bears no evidence.
LEMMA NewPackageExact ==
  ASSUME NEW hash, NEW behavior, behavior.sources = hash
  PROVE  ExactTo(NewPackage(hash), behavior)
BY DEF NewPackage, ExactTo

\* A generation saves what is exact to its own IR, or what it knows to be overtaken.
LEMMA GenerateExact ==
  ASSUME RegistryTypeOK, ExactInv, NEW a \in Actors, Generate(a)
  PROVE  ExactInv'
<1>1. op \in [Actors -> Ops] /\ op[a] \in Ops /\ ir \in [Versions -> Irs]
  BY DEF RegistryTypeOK
<1>2. CASE \E v \in Versions : Import(a, v)
  <2>1. PICK v \in Versions : Import(a, v)
    BY <1>2
  <2> DEFINE o == [step |-> "hash", version |-> v, stale |-> FALSE]
             behavior == [generation |-> generated + 1, sources |-> sources]
  <2>2. o.step = "hash" /\ o.version = v
    OBVIOUS
  <2>3. /\ op' = [Overtaken(a, v) EXCEPT ![a] = o] /\ ir' = [ir EXCEPT ![v] = behavior]
        /\ op[a].step = "idle" /\ UNCHANGED <<row, package>>
    BY <2>1 DEF Import, WriteIr, Idle
  <2> HIDE DEF o, behavior
  <2> QED
    BY <1>1, <2>2, <2>3, IrStep
<1>3. CASE \E v \in Versions : Ground(a, v)
  <2>1. PICK v \in Versions : Ground(a, v)
    BY <1>3
  <2> DEFINE o == [step |-> "prompt", version |-> v, sources |-> sources]
  <2>2. o.step = "prompt"
    OBVIOUS
  <2>3. op' = [op EXCEPT ![a] = o] /\ op[a].step = "idle" /\ UNCHANGED <<row, package, ir>>
    BY <2>1 DEF Ground, Idle
  <2> HIDE DEF o
  <2> QED
    BY <1>1, <2>2, <2>3, ReadStep
<1>4. CASE HashSources(a)
  <2> DEFINE v == op[a].version
             stale == op[a].stale \/ sources # ir[v].sources
             o == [step |-> "file", version |-> v, package |-> NewPackage(sources),
                   stale |-> stale]
  <2>1. /\ o.step = "file" /\ o.version = v /\ o.package = NewPackage(sources)
        /\ o.stale = stale
    OBVIOUS
  <2>2. /\ op' = [op EXCEPT ![a] = o] /\ op[a].step = "hash"
        /\ UNCHANGED <<row, package, ir>>
    BY <1>4 DEF HashSources, Saving
  <2>3. ~stale => ExactTo(NewPackage(sources), ir[v])
    BY NewPackageExact
  <2> HIDE DEF o, stale
  <2> QED
    BY <1>1, <2>1, <2>2, <2>3, ReadStep
<1>5. CASE ProviderAnswers(a)
  <2> DEFINE v == op[a].version
             behavior == [generation |-> generated + 1, sources |-> op[a].sources]
             o == [step |-> "file", version |-> v, package |-> NewPackage(op[a].sources),
                   stale |-> FALSE]
  <2>1. o.step = "file" /\ o.version = v /\ o.package = NewPackage(op[a].sources)
    OBVIOUS
  <2>2. /\ op' = [Overtaken(a, v) EXCEPT ![a] = o] /\ ir' = [ir EXCEPT ![v] = behavior]
        /\ op[a].step = "prompt" /\ UNCHANGED <<row, package>>
    BY <1>5 DEF ProviderAnswers, WriteIr, Saving
  <2>3. v \in Versions
    BY <1>1, <2>2, OpsByStep DEF Prompting
  <2>4. ExactTo(NewPackage(op[a].sources), behavior)
    BY NewPackageExact
  <2> HIDE DEF o, behavior
  <2> QED
    BY <1>1, <2>1, <2>2, <2>3, <2>4, IrStep
<1>6. CASE GenerationRefused(a)
  <2>1. /\ op' = [op EXCEPT ![a] = Idle] /\ op[a].step = "prompt"
        /\ UNCHANGED <<row, package, ir>>
    BY <1>6 DEF GenerationRefused
  <2>2. Idle.step = "idle"
    BY DEF Idle
  <2> QED
    BY <1>1, <2>1, <2>2, ReadStep
<1> QED
  BY <1>2, <1>3, <1>4, <1>5, <1>6 DEF Generate

\* Evidence about the IR a document is exact to leaves it exact.
LEMMA PromotedExact ==
  ASSUME NEW document \in Packages, NEW target, NEW evidence, NEW signature, NEW behavior,
         ExactTo(document, behavior), \A e \in evidence : e.ir = behavior.generation
  PROVE  ExactTo(Promoted(document, target, evidence, signature), behavior)
<1>1. /\ Promoted(document, target, evidence, signature).evidence
           = document.evidence \cup evidence
      /\ Promoted(document, target, evidence, signature).source_hash = document.source_hash
  BY DEF Promoted, Packages
<1> QED
  BY <1>1 DEF ExactTo

\* The evidence given for a state is about the IR its author looked at.
LEMMA EvidenceAbout ==
  ASSUME NEW target, NEW seen, NEW human
  PROVE  \A e \in EvidenceOf(target, seen, human) : e.ir = seen
BY DEF EvidenceOf

\* The file that was loaded is exact, or another operation is going to write it.
LEMMA LoadedExact ==
  ASSUME RegistryInv, ExactInv, HasPackage, NEW a \in Actors,
         op[a].step \in {"idle", "checked"}
  PROVE  \/ ExactTo(Load, ir[row.version])
         \/ \E b \in Actors : b # a /\ StillWrites(op[b], row.version)
<1>1. row.version \in Versions /\ package[row.version] # NoPackage
  BY Loaded DEF HasPackage
<1>2. FileExact(row.version) /\ ~StillWrites(op[a], row.version)
  BY <1>1 DEF ExactInv, StillWrites
<1> QED
  BY <1>1, <1>2 DEF FileExact, Load

\* A validation adds evidence about the IR of the version it was made on, or knows better.
LEMMA ValidateExact ==
  ASSUME RegistryInv, ExactInv, NEW a \in Actors, Validate(a)
  PROVE  ExactInv'
<1>1. op \in [Actors -> Ops] /\ op[a] \in Ops
  BY DEF RegistryInv, RegistryTypeOK
<1>2. HasPackage /\ UNCHANGED <<row, package, ir>>
  BY DEF Validate, CheckStatic, CheckConformance, Check, TransitionChecked
<1>3. CASE CheckStatic(a) \/ CheckConformance(a)
  <2>1. PICK target :
          /\ op[a] = Idle
          /\ op' = [op EXCEPT ![a] = [step |-> "checked", target |-> target,
                                      version |-> row.version, stale |-> FALSE,
                                      seen |-> ir[row.version].generation]]
    BY <1>3 DEF CheckStatic, CheckConformance, Check
  <2> DEFINE o == [step |-> "checked", target |-> target, version |-> row.version,
                   stale |-> FALSE, seen |-> ir[row.version].generation]
  <2>2. o.step = "checked" /\ o.version = row.version /\ o.seen = ir[row.version].generation
    OBVIOUS
  <2>3. op' = [op EXCEPT ![a] = o] /\ op[a].step = "idle"
    BY <2>1 DEF Idle
  <2> HIDE DEF o
  <2> QED
    BY <1>1, <1>2, <2>2, <2>3, ReadStep
<1>4. CASE TransitionChecked(a)
  <2>1. op[a].step = "checked" /\ op[a] \in Checked
    BY <1>1, <1>4, OpsByStep DEF TransitionChecked
  <2>2. CASE Legal(Load, op[a].target)
    <3> DEFINE evidence == EvidenceOf(op[a].target, op[a].seen, FALSE)
               document == Promoted(Load, op[a].target, evidence, FALSE)
               stale == op[a].stale \/ row.version # op[a].version
               o == [step |-> "file", version |-> row.version, package |-> document,
                     stale |-> stale]
    <3>1. /\ o.step = "file" /\ o.version = row.version /\ o.package = document
          /\ o.stale = stale
      OBVIOUS
    <3>2. op' = [op EXCEPT ![a] = o]
      BY <1>4, <2>2 DEF TransitionChecked, Saving
    <3>3. ASSUME ~stale, ExactTo(Load, ir[row.version])
          PROVE  ExactTo(document, ir[row.version])
      <4>1. op[a].seen = ir[row.version].generation
        BY <2>1, <3>3 DEF ExactInv, CheckCurrent
      <4>2. \A e \in evidence : e.ir = ir[row.version].generation
        BY <4>1, EvidenceAbout
      <4> QED
        BY <1>2, <3>3, <4>2, Loaded, PromotedExact
    <3>4. \/ ExactTo(Load, ir[row.version])
          \/ \E b \in Actors : b # a /\ StillWrites(op[b], row.version)
      BY <1>2, <2>1, LoadedExact
    <3> HIDE DEF document, stale, o
    <3> QED
      BY <1>1, <1>2, <2>1, <3>1, <3>2, <3>3, <3>4, ReadStep
  <2>3. CASE ~Legal(Load, op[a].target)
    <3>1. op' = [op EXCEPT ![a] = Idle] /\ Idle.step = "idle"
      BY <1>4, <2>3 DEF TransitionChecked, Idle
    <3> QED
      BY <1>1, <1>2, <2>1, <3>1, ReadStep
  <2> QED
    BY <2>2, <2>3
<1> QED
  BY <1>3, <1>4 DEF Validate

\* A human's evidence is about the IR of the version at that moment.
LEMMA PromoteExact ==
  ASSUME RegistryInv, ExactInv, NEW a \in Actors, NEW target, NEW human,
         NEW evidence \in BOOLEAN, NEW signature,
         Promote(a, target, human, evidence, signature)
  PROVE  ExactInv'
<1> DEFINE seen == ir[row.version].generation
           paths == IF evidence THEN EvidenceOf(target, seen, human) ELSE {}
           document == Promoted(Load, target, paths, signature)
           o == [step |-> "file", version |-> row.version, package |-> document,
                 stale |-> FALSE]
<1>1. op \in [Actors -> Ops]
  BY DEF RegistryInv, RegistryTypeOK
<1>2. /\ HasPackage /\ UNCHANGED <<row, package, ir>>
      /\ op[a].step = "idle" /\ op' = [op EXCEPT ![a] = o]
  BY DEF Promote, Saving, Idle
<1>3. o.step = "file" /\ o.version = row.version /\ o.package = document
  OBVIOUS
<1>4. \A e \in paths : e.ir = seen
  BY EvidenceAbout
<1> HIDE DEF paths
<1>5. ExactTo(Load, ir[row.version]) => ExactTo(document, ir[row.version])
  BY <1>2, <1>4, Loaded, PromotedExact
<1>6. \/ ExactTo(Load, ir[row.version])
      \/ \E b \in Actors : b # a /\ StillWrites(op[b], row.version)
  BY <1>2, LoadedExact
<1> HIDE DEF document, o
<1> QED
  BY <1>1, <1>2, <1>3, <1>5, <1>6, ReadStep

\* To list the source saves the document as it was loaded.
LEMMA ListSourceExact ==
  ASSUME RegistryInv, ExactInv, NEW a \in Actors, ListSource(a)
  PROVE  ExactInv'
<1> DEFINE o == [step |-> "file", version |-> row.version, package |-> Load,
                 stale |-> FALSE]
<1>1. op \in [Actors -> Ops]
  BY DEF RegistryInv, RegistryTypeOK
<1>2. /\ HasPackage /\ UNCHANGED <<row, package, ir>>
      /\ op[a].step = "idle" /\ op' = [op EXCEPT ![a] = o]
  BY DEF ListSource, Saving, Idle
<1>3. o.step = "file" /\ o.version = row.version /\ o.package = Load
  OBVIOUS
<1>4. \/ ExactTo(Load, ir[row.version])
      \/ \E b \in Actors : b # a /\ StillWrites(op[b], row.version)
  BY <1>2, LoadedExact
<1> HIDE DEF o
<1> QED
  BY <1>1, <1>2, <1>3, <1>4, ReadStep

Undisturbed == ~raced /\ cuts = 0

\* Every step: only one that shows an overlap, or cuts an operation short, ends exactness.
LEMMA ExactStep ==
  ASSUME RegistryInv, Undisturbed => ExactInv, [Next]_vars
  PROVE  Undisturbed' => ExactInv'
<1> SUFFICES ASSUME Undisturbed' PROVE ExactInv'
  OBVIOUS
<1>1. RegistryTypeOK /\ cuts \in Nat /\ raced \in BOOLEAN
  BY RegistryBoundsAssumption DEF RegistryInv, RegistryTypeOK
<1>2. ASSUME UNCHANGED <<raced, cuts>> PROVE ExactInv
  BY <1>2 DEF Undisturbed
<1>3. ASSUME UNCHANGED <<row, package, ir, op, raced, cuts>> PROVE ExactInv'
  <2>1. ExactInv
    BY <1>2, <1>3
  <2> QED
    BY <1>3, <2>1 DEF ExactInv, FileExact, RowAgrees, SaveExact, FileWritten, CheckCurrent
<1>4. ASSUME NEW a \in Actors, Generate(a) PROVE ExactInv'
  <2>1. UNCHANGED <<raced, cuts>>
    BY <1>4 DEF Generate, Import, Ground, HashSources, ProviderAnswers, GenerationRefused
  <2> QED
    BY <1>1, <1>2, <1>4, <2>1, GenerateExact
<1>5. ASSUME NEW a \in Actors, Validate(a) PROVE ExactInv'
  <2>1. UNCHANGED <<raced, cuts>>
    BY <1>5 DEF Validate, CheckStatic, CheckConformance, Check, TransitionChecked
  <2> QED
    BY <1>2, <1>5, <2>1, ValidateExact
<1>6. ASSUME NEW a \in Actors, SaveFile(a) PROVE ExactInv'
  <2>1. raced' = (raced \/ op[a].stale) /\ cuts' = cuts
    BY <1>6 DEF SaveFile
  <2>2. ExactInv /\ ~raced'
    BY <2>1 DEF Undisturbed
  <2> QED
    BY <1>1, <1>6, <2>2, SaveFileExact
<1>7. ASSUME NEW a \in Actors, SaveRow(a) PROVE ExactInv'
  <2>1. raced' = (raced \/ op[a].stale) /\ cuts' = cuts
    BY <1>7 DEF SaveRow
  <2>2. ExactInv /\ ~raced'
    BY <2>1 DEF Undisturbed
  <2> QED
    BY <1>1, <1>7, <2>2, SaveRowExact
<1>8. ASSUME NEW a \in Humans, NEW target \in States, NEW human \in BOOLEAN,
             NEW evidence \in BOOLEAN, NEW signature \in BOOLEAN,
             Promote(a, target, human, evidence, signature)
      PROVE  ExactInv'
  <2>1. UNCHANGED <<raced, cuts>> /\ a \in Actors
    BY <1>8 DEF Promote, Actors
  <2> QED
    BY <1>2, <1>8, <2>1, PromoteExact
<1>9. ASSUME NEW a \in Humans, ListSource(a) PROVE ExactInv'
  <2>1. UNCHANGED <<raced, cuts>> /\ a \in Actors
    BY <1>9 DEF ListSource, Actors
  <2> QED
    BY <1>2, <1>9, <2>1, ListSourceExact
<1>10. ASSUME NEW a \in Actors, CutShort(a) PROVE ExactInv'
  BY <1>1, <1>10 DEF CutShort, Undisturbed
<1>11. CASE EditSources
  BY <1>3, <1>11 DEF EditSources
<1>12. CASE UNCHANGED vars
  BY <1>3, <1>12 DEF vars
<1> QED
  BY <1>4, <1>5, <1>6, <1>7, <1>8, <1>9, <1>10, <1>11, <1>12 DEF Next

\* Nothing is written, and nobody is at work, at the start.
LEMMA InitExact == Init => ExactInv
BY DEF Init, ExactInv, FileExact, RowAgrees, SaveExact, FileWritten, CheckCurrent, Idle

\* The versions nobody is about to write are at rest, and exact.
LEMMA ExactAtRest ==
  ASSUME Undisturbed => ExactInv
  PROVE  AtRestExact
<1> SUFFICES ASSUME Undisturbed, NEW v \in Versions, package[v] # NoPackage, InFlight(v) = {}
             PROVE  /\ \A e \in package[v].evidence : e.ir = ir[v].generation
                    /\ package[v].source_hash = ir[v].sources
                    /\ row # NoRow /\ row.version = v => row.state = package[v].state
  BY DEF AtRestExact, Undisturbed
<1>1. \A b \in Actors : ~(op[b].step \in {"hash", "file", "row"} /\ op[b].version = v)
  BY DEF InFlight
<1>2. FileExact(v) /\ RowAgrees(v)
  BY DEF ExactInv
<1>3. ExactTo(package[v], ir[v])
  BY <1>1, <1>2 DEF FileExact, StillWrites
<1> QED
  BY <1>1, <1>2, <1>3 DEF ExactTo, RowAgrees

\* ModelRegistry: unless two operations overlapped or one was cut short, a version nobody
\* is writing has evidence about the IR in its directory, the hash of the sources that IR
\* was made from, and a row that agrees with its file.
THEOREM AtRestIsExact == Spec => []AtRestExact
<1>1. Init => RegistryInv /\ (Undisturbed => ExactInv)
  BY InitRegistryInv, InitExact
<1>2. RegistryInv /\ (Undisturbed => ExactInv) /\ [Next]_vars
        => RegistryInv' /\ (Undisturbed => ExactInv)'
  BY RegistryInvStep, ExactStep
<1>3. RegistryInv /\ (Undisturbed => ExactInv) => AtRestExact
  BY ExactAtRest
<1> QED
  BY <1>1, <1>2, <1>3, PTL DEF Spec
==============================================================================
