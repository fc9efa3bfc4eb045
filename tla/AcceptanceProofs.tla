---------------------------- MODULE AcceptanceProofs ----------------------------
(***************************************************************************)
(* Proofs about acceptance and the release gates (Acceptance.tla), for     *)
(* every catalog, number of runs and set of systems: the search for        *)
(* algebraic loops decides rightly (FmiTopology.tla); a gate that is open  *)
(* was earned by one run; a clean run opens it.                            *)
(***************************************************************************)
EXTENDS Acceptance, FiniteSetTheorems, SequenceTheorems, TLAPS

------------------------------------------------------------------------------
(* The search for algebraic loops.                                           *)

\* Until the search ends, no component on the path is visited or twice on it.
PathFresh ==
  /\ \A i \in DOMAIN path : path[i] \notin visited
  /\ \A i, j \in DOMAIN path : path[i] = path[j] => i = j

\* Each call of visit was made by the one before, for one of its targets.
PathConnected ==
  \A i \in 1 .. (Len(path) - 1) : path[i + 1] \in Graph(system, path[i])

\* The successors of what is visited are visited ...
VisitedClosed == \A n \in visited : Graph(system, n) \subseteq visited

\* ... and no loop goes through it.
VisitedLoopFree ==
  \A S \in SUBSET visited : S # {} => \E n \in S : Graph(system, n) \cap S = {}

SearchInv ==
  /\ SearchTypeOK
  /\ PathFresh
  /\ PathConnected
  /\ VisitedClosed
  /\ VisitedLoopFree
  /\ LoopsDecided

\* A call that returns leaves a visited set through which no loop goes.
LEMMA ReturnKeepsLoopFree ==
  ASSUME VisitedClosed, VisitedLoopFree, NEW n, n \notin visited,
         Graph(system, n) \subseteq visited
  PROVE  \A S \in SUBSET (visited \cup {n}) :
           S # {} => \E m \in S : Graph(system, m) \cap S = {}
<1> SUFFICES ASSUME NEW S \in SUBSET (visited \cup {n}), S # {}
             PROVE  \E m \in S : Graph(system, m) \cap S = {}
  OBVIOUS
<1> DEFINE T == S \ {n}
<1>1. CASE T = {}
  <2>1. n \in S /\ S \subseteq {n}
    BY <1>1
  <2>2. Graph(system, n) \cap S = {}
    BY <2>1
  <2> QED
    BY <2>1, <2>2
<1>2. CASE T # {}
  <2>1. PICK m \in T : Graph(system, m) \cap T = {}
    BY <1>2 DEF VisitedLoopFree
  <2>2. Graph(system, m) \subseteq visited
    BY <2>1 DEF VisitedClosed
  <2>3. Graph(system, m) \cap S = {}
    BY <2>1, <2>2
  <2> QED
    BY <2>1, <2>3
<1> QED
  BY <1>1, <1>2

\* A target that is being visited closes a loop: the rest of the path from it.
LEMMA TargetClosesLoop ==
  ASSUME SearchTypeOK, PathConnected, path # <<>>,
         NEW t \in Graph(system, Top), t \in Visiting
  PROVE  ~LoopFree(system)
<1>1. PICK i \in DOMAIN path : path[i] = t
  BY DEF Visiting
<1> DEFINE S == {path[j] : j \in i .. Len(path)}
<1>2. S \in SUBSET Components /\ t \in S
  BY <1>1 DEF SearchTypeOK
<1>3. ASSUME NEW n \in S PROVE Graph(system, n) \cap S # {}
  <2>1. PICK j \in i .. Len(path) : n = path[j]
    OBVIOUS
  <2>2. CASE j = Len(path)
    BY <2>1, <2>2, <1>2 DEF Top
  <2>3. CASE j # Len(path)
    <3>1. j \in 1 .. (Len(path) - 1) /\ j + 1 \in i .. Len(path)
      BY <2>1, <2>3, <1>1 DEF SearchTypeOK
    <3>2. path[j + 1] \in Graph(system, n) /\ path[j + 1] \in S
      BY <2>1, <3>1 DEF PathConnected
    <3> QED
      BY <3>2
  <2> QED
    BY <2>2, <2>3
<1> QED
  BY <1>2, <1>3 DEF LoopFree

\* The invariant of the search holds when nothing is visited and no call is under way.
THEOREM SearchInitOK == SearchInit => SearchInv
  BY DEF SearchInit, SearchInv, SearchTypeOK, PathFresh, PathConnected,
         VisitedClosed, VisitedLoopFree, LoopsDecided

\* Every call, return, refusal and the end of the search preserve it.
THEOREM SearchStepOK == SearchInv /\ [Search]_topologyVars => SearchInv'
<1> SUFFICES ASSUME SearchInv, [Search]_topologyVars
             PROVE  SearchInv'
  OBVIOUS
<1> USE DEF SearchInv
<1>1. ASSUME NEW n \in Components, VisitRoot(n)
      PROVE  SearchInv'
  BY <1>1 DEF VisitRoot, SearchTypeOK, PathFresh, PathConnected, VisitedClosed,
              VisitedLoopFree, LoopsDecided, Graph
<1>2. ASSUME NEW n \in Components, VisitTarget(n)
      PROVE  SearchInv'
  <2>1. CASE n \in Visiting
    <3>1. verdict' = "refused" /\ UNCHANGED <<system, path, visited>>
      BY <1>2, <2>1 DEF VisitTarget
    <3>2. ~LoopFree(system)
      BY <1>2, <2>1, TargetClosesLoop DEF VisitTarget
    <3> QED
      BY <3>1, <3>2 DEF SearchTypeOK, PathFresh, PathConnected, VisitedClosed,
                        VisitedLoopFree, LoopsDecided
  <2>2. CASE n \notin Visiting
    <3>1. path' = Append(path, n) /\ UNCHANGED <<system, visited, verdict>>
      BY <1>2, <2>2 DEF VisitTarget
    <3>2. SearchTypeOK' /\ Len(path') = Len(path) + 1 /\ Len(path) \in Nat
      BY <3>1 DEF SearchTypeOK
    <3>3. \A i \in DOMAIN path' :
            path'[i] = IF i = Len(path) + 1 THEN n ELSE path[i]
      BY <3>1 DEF SearchTypeOK
    <3>4. PathFresh'
      BY <1>2, <2>2, <3>1, <3>2, <3>3 DEF PathFresh, VisitTarget, Visiting, SearchTypeOK
    <3>5. PathConnected'
      <4> SUFFICES ASSUME NEW i \in 1 .. (Len(path') - 1)
                   PROVE  path'[i + 1] \in Graph(system, path'[i])
        BY <3>1 DEF PathConnected, Graph
      <4>1. i \in DOMAIN path /\ i \in DOMAIN path' /\ i + 1 \in DOMAIN path'
        BY <3>2, <3>1 DEF SearchTypeOK
      <4>2. CASE i = Len(path)
        BY <4>1, <4>2, <3>3, <3>2, <1>2 DEF VisitTarget, Top
      <4>3. CASE i # Len(path)
        BY <4>1, <4>3, <3>3, <3>2 DEF PathConnected
      <4> QED
        BY <4>2, <4>3
    <3> QED
      BY <3>1, <3>2, <3>4, <3>5 DEF VisitedClosed, VisitedLoopFree, LoopsDecided,
                                    Graph, LoopFree
  <2> QED
    BY <2>1, <2>2
<1>3. ASSUME Return
      PROVE  SearchInv'
  <2>1. /\ path # <<>> /\ verdict = "searching"
        /\ visited' = visited \cup {Top}
        /\ path' = SubSeq(path, 1, Len(path) - 1)
        /\ UNCHANGED <<system, verdict>>
        /\ Graph(system, Top) \subseteq visited
    BY <1>3 DEF Return, ReturnEarly
  <2>2. Len(path) \in Nat \ {0} /\ Top \in Components /\ Top \notin visited
    BY <2>1 DEF SearchTypeOK, PathFresh, Top
  <2>3. /\ path' \in Seq(Components) /\ Len(path') = Len(path) - 1
        /\ \A i \in DOMAIN path' : path'[i] = path[i] /\ i \in DOMAIN path /\ i # Len(path)
    <3>1. /\ Len(path) - 1 \in Nat /\ DOMAIN path = 1 .. Len(path)
          /\ \A i \in 1 .. (Len(path) - 1) : path[i] \in Components
      BY <2>2 DEF SearchTypeOK
    <3>2. /\ path' \in Seq(Components) /\ Len(path') = Len(path) - 1
          /\ \A i \in 1 .. (Len(path) - 1) : path'[i] = path[i]
      BY <3>1, <2>1, SubSeqProperties
    <3>3. DOMAIN path' = 1 .. (Len(path) - 1)
      BY <3>2
    <3> QED
      BY <3>1, <3>2, <3>3
  <2>4. PathFresh'
    BY <2>1, <2>2, <2>3 DEF PathFresh, Top, SearchTypeOK
  <2>5. PathConnected'
    <3> SUFFICES ASSUME NEW i \in 1 .. (Len(path') - 1)
                 PROVE  path'[i + 1] \in Graph(system, path'[i])
      BY <2>1 DEF PathConnected, Graph
    <3>1. i \in DOMAIN path' /\ i + 1 \in DOMAIN path' /\ i \in 1 .. (Len(path) - 1)
      BY <2>2, <2>3
    <3> QED
      BY <3>1, <2>3 DEF PathConnected
  <2>6. VisitedClosed'
    BY <2>1 DEF VisitedClosed, Graph
  <2>7. VisitedLoopFree'
    BY <2>1, <2>2, ReturnKeepsLoopFree DEF VisitedLoopFree, Graph
  <2> QED
    BY <2>1, <2>2, <2>3, <2>4, <2>5, <2>6, <2>7 DEF SearchTypeOK, LoopsDecided
<1>4. ASSUME Accept
      PROVE  SearchInv'
  <2>1. visited = Components /\ verdict' = "accepted" /\ UNCHANGED <<system, path, visited>>
    BY <1>4 DEF Accept, SearchTypeOK
  <2>2. LoopFree(system)
    BY <2>1 DEF VisitedLoopFree, LoopFree
  <2> QED
    BY <2>1, <2>2 DEF SearchTypeOK, PathFresh, PathConnected, VisitedClosed,
                      VisitedLoopFree, LoopsDecided
<1>5. CASE UNCHANGED topologyVars
  BY <1>5 DEF topologyVars, SearchTypeOK, PathFresh, PathConnected, VisitedClosed,
              VisitedLoopFree, LoopsDecided
<1> QED
  BY <1>1, <1>2, <1>3, <1>4, <1>5 DEF Search

\* validate_fmi_topology refuses exactly the systems with an algebraic loop.
THEOREM TopologyDecided == SearchSpec => []LoopsDecided
<1>1. SearchInit => SearchInv
  BY SearchInitOK
<1>2. SearchInv /\ [Search]_topologyVars => SearchInv'
  BY SearchStepOK
<1>3. SearchInv => LoopsDecided
  BY DEF SearchInv
<1> QED
  BY <1>1, <1>2, <1>3, PTL DEF SearchSpec

------------------------------------------------------------------------------
(* The search ends.                                                          *)

\* The steps the search can still make: each component that is not visited is
\* entered and left, except that those on the path have been entered.
Fuel ==
  2 * Cardinality(Components \ visited) - Len(path)
    + (IF verdict = "searching" THEN 1 ELSE 0)

\* There are at least as many components to visit as calls under way.
LEMMA PathFits ==
  ASSUME SearchInv
  PROVE  /\ IsFiniteSet(Components \ visited)
         /\ Cardinality(Components \ visited) \in Nat
         /\ Len(path) \in Nat /\ Len(path) <= Cardinality(Components \ visited)
<1>1. IsFiniteSet(Components \ visited)
  BY ComponentsAssumption, FS_Subset
<1>2. path \in Seq(Components) /\ Len(path) \in Nat
  BY DEF SearchInv, SearchTypeOK
<1>3. path \in [1 .. Len(path) -> Components \ visited]
  BY <1>2 DEF SearchInv, PathFresh
<1>4. \A i, j \in 1 .. Len(path) : path[i] = path[j] => i = j
  BY <1>2 DEF SearchInv, PathFresh
<1>5. path \in Injection(1 .. Len(path), Components \ visited)
  <2>1. DOMAIN path = 1 .. Len(path)
    BY <1>3
  <2>2. IsInjective(path)
    BY <1>4, <2>1 DEF IsInjective
  <2> QED
    BY <1>3, <2>2 DEF Injection
<1>6. Cardinality(1 .. Len(path)) <= Cardinality(Components \ visited)
  BY <1>1, <1>5, FS_Injection
<1>7. Cardinality(1 .. Len(path)) = Len(path)
  <2> DEFINE n == Len(path)
  <2>1. n \in Nat /\ 1 \in Int /\ n \in Int
    BY <1>2
  <2> HIDE DEF n
  <2>2. Cardinality(1 .. n) = IF 1 > n THEN 0 ELSE n - 1 + 1
    BY <2>1, FS_Interval
  <2>3. Cardinality(1 .. n) = n
    BY <2>1, <2>2
  <2> QED
    BY <2>3 DEF n
<1> QED
  BY <1>1, <1>2, <1>6, <1>7, FS_CardinalityType

\* The fuel never runs out in the middle of a call.
LEMMA FuelTyped == SearchInv => Fuel \in Nat
  BY PathFits DEF Fuel

\* Every step of the search burns one unit.
LEMMA FuelBurns ==
  ASSUME SearchInv, Search
  PROVE  Fuel' = Fuel - 1
<1> DEFINE rest == Cardinality(Components \ visited)
<1>1. IsFiniteSet(Components \ visited) /\ rest \in Nat /\ Len(path) \in Nat
  BY PathFits
<1>2. path \in Seq(Components)
  BY DEF SearchInv, SearchTypeOK
<1>3. ASSUME NEW n \in Components, VisitRoot(n) PROVE Fuel' = Fuel - 1
  <2>1. Len(path) = 0 /\ Len(path') = 1 /\ UNCHANGED <<visited, verdict>>
    BY <1>3 DEF VisitRoot
  <2>2. Fuel' = 2 * rest - 1 + (IF verdict = "searching" THEN 1 ELSE 0)
    BY <2>1 DEF Fuel
  <2>3. Fuel = 2 * rest - 0 + (IF verdict = "searching" THEN 1 ELSE 0)
    BY <2>1 DEF Fuel
  <2> HIDE DEF rest
  <2> QED
    BY <1>1, <2>2, <2>3
<1>4. ASSUME NEW n \in Components, VisitTarget(n) PROVE Fuel' = Fuel - 1
  <2>1. CASE n \in Visiting
    <3>1. verdict = "searching" /\ verdict' = "refused" /\ UNCHANGED <<visited, path>>
      BY <1>4, <2>1 DEF VisitTarget
    <3>2. Fuel = 2 * rest - Len(path) + 1 /\ Fuel' = 2 * rest - Len(path) + 0
      BY <3>1 DEF Fuel
    <3> HIDE DEF rest
    <3> QED
      BY <1>1, <3>2
  <2>2. CASE n \notin Visiting
    <3>1. path' = Append(path, n) /\ UNCHANGED <<visited, verdict>>
      BY <1>4, <2>2 DEF VisitTarget
    <3>2. Len(path') = Len(path) + 1
      BY <1>2, <3>1
    <3>3. /\ Fuel = 2 * rest - Len(path) + (IF verdict = "searching" THEN 1 ELSE 0)
          /\ Fuel' = 2 * rest - (Len(path) + 1) + (IF verdict = "searching" THEN 1 ELSE 0)
      BY <3>1, <3>2 DEF Fuel
    <3> HIDE DEF rest
    <3> QED
      BY <1>1, <3>3
  <2> QED
    BY <2>1, <2>2
<1>5. CASE Return
  <2>1. /\ path # <<>> /\ verdict = "searching" /\ verdict' = verdict
        /\ visited' = visited \cup {Top}
        /\ path' = SubSeq(path, 1, Len(path) - 1)
    BY <1>5 DEF Return, ReturnEarly
  <2>2. Len(path) \in Nat \ {0} /\ Top \in Components \ visited
    BY <1>2, <2>1 DEF SearchInv, PathFresh, Top
  <2>3. Len(path') = Len(path) - 1
    <3>1. /\ Len(path) - 1 \in Nat /\ DOMAIN path = 1 .. Len(path)
          /\ \A i \in 1 .. (Len(path) - 1) : path[i] \in Components
      BY <1>2, <2>2
    <3> QED
      BY <3>1, <2>1, SubSeqProperties
  <2>4. Components \ visited' = (Components \ visited) \ {Top}
    BY <2>1
  <2>5. Cardinality((Components \ visited) \ {Top}) = rest - 1
    BY <1>1, <2>2, FS_RemoveElement
  <2>6. /\ Fuel = 2 * rest - Len(path) + 1
        /\ Fuel' = 2 * (rest - 1) - (Len(path) - 1) + 1
    BY <2>1, <2>3, <2>4, <2>5 DEF Fuel
  <2> HIDE DEF rest
  <2> QED
    BY <1>1, <2>6
<1>6. CASE Accept
  <2>1. verdict = "searching" /\ verdict' = "accepted" /\ UNCHANGED <<visited, path>>
    BY <1>6 DEF Accept
  <2>2. Fuel = 2 * rest - Len(path) + 1 /\ Fuel' = 2 * rest - Len(path) + 0
    BY <2>1 DEF Fuel
  <2> HIDE DEF rest
  <2> QED
    BY <1>1, <2>2
<1> QED
  BY <1>3, <1>4, <1>5, <1>6 DEF Search

\* The search visits no component twice and does not go round a loop it meets: of
\* n components it takes at most 2n + 1 steps, whatever the wires and the order of
\* the successors.
SearchBurnsFuel == [](Fuel \in Nat) /\ [][Fuel' = Fuel - 1]_topologyVars

(* validate_fmi_topology ends, in time linear in the number of components.    *)
THEOREM SearchIsLinear == SearchSpec => SearchBurnsFuel
<1>1. SearchInv /\ [Search]_topologyVars => [Fuel' = Fuel - 1]_topologyVars
  BY FuelBurns
<1>2. SearchInv => Fuel \in Nat
  BY FuelTyped
<1> QED
  BY <1>1, <1>2, SearchInitOK, SearchStepOK, PTL DEF SearchSpec, SearchBurnsFuel

------------------------------------------------------------------------------
(* What the runs have at hand.                                               *)

Names == Expected("simulation") \cup Expected("software")

Contents == [by : Runs \cup Nat \cup {NoRun}, passed : BOOLEAN,
             revision : Revisions \cup {NoRevision}]
Entries == [passed : BOOLEAN, content : Contents]
EntryMaps == UNION {[S -> Entries] : S \in SUBSET Names}
Manifests == [revision : Revisions \cup {NoRevision}, entries : EntryMaps]

RunRecords ==
  [at : {"unborn", "write", "hash", "done", "stopped"}, profile : Profiles \cup {"none"},
   revision : Revisions \cup {NoRevision}, about : Runs \cup Nat \cup {NoRun},
   full : BOOLEAN, todo : Seq(Names), entries : EntryMaps, wrote : Contents]

FmiRecords ==
  [at : {"idle", "export", "simulate", "load", "merge"}, count : Nat,
   manifest : Manifests, hash : Contents]

Typed ==
  /\ evidence \in [Files -> Contents]
  /\ manifest \in [Profiles -> Manifests]
  /\ run \in [Runs -> RunRecords]
  /\ fmi \in FmiRecords
  /\ report \in Nat /\ faults \in Nat
  /\ raced \in BOOLEAN /\ catalog \in BOOLEAN

\* The entries a run is to write.
Planned(x) ==
  IF x.profile = "software" THEN Range(SoftwareOrder)
  ELSE IF x.full THEN Range(SimulationOrder)
  ELSE Range(CaseOrder)

------------------------------------------------------------------------------
(* Entries are about one run.                                                *)

\* What a run writes for an entry, see Content.
ContentOf(x, name, passed) ==
  IF name = Environment
    THEN [by |-> IF x.profile = "software" THEN x.about ELSE NoRun,
          passed |-> passed, revision |-> x.revision]
    ELSE [by |-> x.about, passed |-> passed, revision |-> NoRevision]

\* What the run x says of itself; no environment of a working tree passes.
Says(x, name, passed, content) ==
  /\ content = ContentOf(x, name, passed)
  /\ name = Environment /\ passed /\ x.profile = "simulation" => x.revision # WorkingTree

About(x, entries) ==
  /\ DOMAIN entries \subseteq Planned(x) \cup {CrossDomain, FiveDomain}
  /\ \A name \in DOMAIN entries \ {FiveDomain} :
       Says(x, name, entries[name].passed, entries[name].content)

Reported(x, reports) ==
  x.profile = "software" => x.about \in 1..reports

RunKept(x, reports) ==
  /\ Reported(x, reports)
  /\ About(x, x.entries)
  /\ x.at = "hash" => Says(x, Head(x.todo), x.wrote.passed, x.wrote)

\* A manifest that is there was written by one run.
ManifestOf(runs, reports, profile, m) ==
  \E r \in Runs :
    /\ runs[r].at = "done" /\ runs[r].profile = profile /\ Reported(runs[r], reports)
    /\ m.revision = runs[r].revision
    /\ About(runs[r], m.entries)

ManifestsKept ==
  /\ \A p \in Profiles :
       manifest[p] # NoManifest => ManifestOf(run, report, p, manifest[p])
  /\ fmi.at = "merge" => ManifestOf(run, report, "simulation", fmi.manifest)

OneRunEach ==
  ~raced =>
    /\ \A r \in Runs : run[r].at \in {"write", "hash"} => RunKept(run[r], report)
    /\ ManifestsKept

\* The FMI script says that all was well only of a system without a loop.
FmiKept ==
  /\ fmi.at \in {"simulate", "load", "merge"} => LoopFree(system)
  /\ fmi.at = "load" => evidence[FiveDomain].passed
  /\ fmi.at = "merge" => fmi.hash.passed
  /\ FiveDomain \in DOMAIN manifest["simulation"].entries =>
       LoopFree(system) /\ manifest["simulation"].entries[FiveDomain].content.passed

\* These do not depend on races.
RunsPlan ==
  \A r \in Runs : run[r].at \in {"write", "hash"} =>
    /\ run[r].profile \in Profiles
    /\ \A i \in DOMAIN run[r].todo : run[r].todo[i] \in Planned(run[r])
    /\ FiveDomain \notin DOMAIN run[r].entries
    /\ run[r].at = "hash" => run[r].todo # <<>>

------------------------------------------------------------------------------
(* A run that is left alone.                                                 *)

Alone(r) ==
  /\ run[r].at \in {"write", "hash", "done"}
  /\ run[r].profile = "simulation" /\ run[r].full /\ run[r].revision # WorkingTree
  /\ \A q \in Runs \ {r} : run[q].at = "unborn"
  /\ faults = 0

\* Its entries, the FMI script's aside, passed, and the files are still what they were.
Passing(x, files, entries) ==
  /\ DOMAIN entries \subseteq Range(SimulationOrder) \cup {CrossDomain, FiveDomain}
  /\ \A name \in DOMAIN entries \ {FiveDomain} :
       /\ entries[name] = Entry(TRUE, ContentOf(x, name, TRUE))
       /\ files[FileOf("simulation", name)] = ContentOf(x, name, TRUE)
  /\ LastCase \in DOMAIN entries => CrossDomain \in DOMAIN entries

\* It goes through the entries in their order.
Ahead(x) == Len(SimulationOrder) - Len(x.todo)

InPlan(x) ==
  /\ Ahead(x) \in Nat
  /\ \A i \in DOMAIN x.todo : x.todo[i] = SimulationOrder[Ahead(x) + i]
  /\ \A i \in 1..Ahead(x) : SimulationOrder[i] \in DOMAIN x.entries

\* The run x, the evidence and the manifest of the benchmarks.
AloneKept(x, files, m) ==
  /\ x.at \in {"write", "hash"} => Passing(x, files, x.entries) /\ InPlan(x)
  /\ x.at = "hash" =>
       /\ x.wrote = ContentOf(x, Head(x.todo), TRUE)
       /\ files[FileOf("simulation", Head(x.todo))] = x.wrote
  /\ x.at = "done" =>
       /\ Passing(x, files, m.entries)
       /\ Range(SimulationOrder) \subseteq DOMAIN m.entries
       /\ m.revision = x.revision

\* The FMI script takes no manifest away, and its entry is about its last evidence.
FmiAlone(script, files, m) ==
  /\ script.at = "merge" => script.manifest = m /\ script.hash = files[FiveDomain]
  /\ FiveDomain \in DOMAIN m.entries /\ script.at \notin {"load", "merge"} =>
       m.entries[FiveDomain] = Entry(TRUE, files[FiveDomain])

\* No manifest without a run that wrote it.
ManifestsWritten ==
  manifest["simulation"] # NoManifest \/ fmi.at = "merge" =>
    \E r \in Runs : run[r].at = "done"

LeftAlone ==
  \A r \in Runs : Alone(r) =>
    /\ AloneKept(run[r], evidence, manifest["simulation"])
    /\ FmiAlone(fmi, evidence, manifest["simulation"])

------------------------------------------------------------------------------
(* The names.                                                                *)

OrderNames ==
  Range(CaseOrder) \cup Range(BackendOrder) \cup Range(SoftwareOrder)
    \cup {Firmware, Environment}

\* The orders are sequences of names.
LEMMA Orders ==
  /\ CaseOrder \in Seq(OrderNames) /\ BackendOrder \in Seq(OrderNames)
  /\ SoftwareOrder \in Seq(OrderNames)
  /\ <<Firmware>> \in Seq(OrderNames) /\ Len(<<Firmware>>) = 1
  /\ <<Environment>> \in Seq(OrderNames) /\ Len(<<Environment>>) = 1
<1>1. ASSUME NEW s \in Seq(STRING), Range(s) \subseteq OrderNames PROVE s \in Seq(OrderNames)
  <2>1. s \in Seq(Range(s))
    BY SeqOfRange
  <2> QED
    BY <1>1, <2>1
<1>2. Firmware \in OrderNames /\ Environment \in OrderNames
  BY DEF OrderNames
<1>3. /\ CaseOrder \in Seq(OrderNames) /\ BackendOrder \in Seq(OrderNames)
      /\ SoftwareOrder \in Seq(OrderNames)
  BY <1>1, NamesAssumption DEF OrderNames
<1> QED
  BY <1>2, <1>3

\* Which names are there, and which are apart.
LEMMA NamesApart ==
  /\ Range(SimulationOrder) =
       Range(CaseOrder) \cup {Firmware} \cup Range(BackendOrder) \cup {Environment}
  /\ FiveDomain \notin Range(SimulationOrder) \cup Range(SoftwareOrder)
  /\ CrossDomain \notin Range(SimulationOrder)
  /\ LastCase \in Range(CaseOrder) /\ LastCase # Environment
  /\ Environment \notin DOMAIN CasesOf
  /\ SimulationOrder \in Seq(OrderNames) /\ SoftwareOrder \in Seq(OrderNames)
<1>1. /\ CaseOrder \in Seq(OrderNames) /\ BackendOrder \in Seq(OrderNames)
      /\ SoftwareOrder \in Seq(OrderNames)
  BY Orders
<1> DEFINE first == CaseOrder \o <<Firmware>>
           second == first \o BackendOrder
<1>2. <<Firmware>> \in Seq(OrderNames) /\ <<Environment>> \in Seq(OrderNames)
  BY Orders
<1>3. Range(<<Firmware>>) = {Firmware} /\ Range(<<Environment>>) = {Environment}
  <2>1. DOMAIN <<Firmware>> = {1} /\ DOMAIN <<Environment>> = {1}
    OBVIOUS
  <2>2. <<Firmware>>[1] = Firmware /\ <<Environment>>[1] = Environment
    OBVIOUS
  <2> QED
    BY <2>1, <2>2 DEF Range
<1>0. ASSUME NEW s \in Seq(OrderNames), NEW t \in Seq(OrderNames)
      PROVE  s \o t \in Seq(OrderNames) /\ Range(s \o t) = Range(s) \cup Range(t)
  <2>1. s \o t \in Seq(OrderNames)
    BY ConcatProperties
  <2>2. Range(s \o t) = Range(s) \cup Range(t)
    BY RangeConcatenation
  <2> QED
    BY <2>1, <2>2
<1>4. first \in Seq(OrderNames) /\ Range(first) = Range(CaseOrder) \cup {Firmware}
  <2>1. first \in Seq(OrderNames) /\ Range(first) = Range(CaseOrder) \cup Range(<<Firmware>>)
    BY <1>0, <1>1, <1>2
  <2> QED
    BY <1>3, <2>1
<1> HIDE DEF first
<1>5. second \in Seq(OrderNames) /\ Range(second) = Range(first) \cup Range(BackendOrder)
  BY <1>0, <1>1, <1>4
<1> HIDE DEF second
<1>6. /\ SimulationOrder \in Seq(OrderNames)
      /\ Range(SimulationOrder) = Range(second) \cup {Environment}
  <2>1. SimulationOrder = second \o <<Environment>>
    BY DEF SimulationOrder, second, first
  <2>2. /\ second \o <<Environment>> \in Seq(OrderNames)
        /\ Range(second \o <<Environment>>) = Range(second) \cup Range(<<Environment>>)
    BY <1>0, <1>2, <1>5
  <2> QED
    BY <1>3, <2>1, <2>2
<1>7. LastCase \in Range(CaseOrder)
  BY AcceptanceAssumption
<1> QED
  BY <1>1, <1>4, <1>5, <1>6, <1>7, NamesAssumption
     DEF Environment, Firmware, CrossDomain, FiveDomain

\* Backends come after all cases.
LEMMA CasesFirst ==
  ASSUME NEW i \in 1..Len(SimulationOrder), SimulationOrder[i] \in Range(BackendOrder),
         NEW name \in Range(CaseOrder)
  PROVE  \E j \in 1..(i - 1) : SimulationOrder[j] = name
<1>1. CaseOrder \in Seq(OrderNames) /\ Len(CaseOrder) \in Nat
  BY Orders, LenProperties
<1> DEFINE first == CaseOrder \o <<Firmware>>
           second == first \o BackendOrder
<1>2. /\ BackendOrder \in Seq(OrderNames) /\ <<Firmware>> \in Seq(OrderNames)
      /\ <<Environment>> \in Seq(OrderNames) /\ Len(<<Firmware>>) = 1 /\ Len(<<Environment>>) = 1
  BY Orders
<1>3. /\ first \in Seq(OrderNames) /\ Len(first) = Len(CaseOrder) + 1
      /\ \A k \in 1..Len(CaseOrder) : first[k] = CaseOrder[k]
  <2>1. /\ Len(CaseOrder \o <<Firmware>>) = Len(CaseOrder) + Len(<<Firmware>>)
        /\ CaseOrder \o <<Firmware>> \in Seq(OrderNames)
        /\ \A k \in 1..(Len(CaseOrder) + Len(<<Firmware>>)) : (CaseOrder \o <<Firmware>>)[k] =
             IF k <= Len(CaseOrder) THEN CaseOrder[k] ELSE <<Firmware>>[k - Len(CaseOrder)]
    BY <1>1, <1>2, ConcatProperties
  <2> QED
    BY <1>1, <1>2, <2>1
<1> HIDE DEF first
<1>4. /\ second \in Seq(OrderNames) /\ Len(second) = Len(first) + Len(BackendOrder)
      /\ \A k \in 1..Len(CaseOrder) : second[k] = CaseOrder[k]
  <2>1. /\ Len(first \o BackendOrder) = Len(first) + Len(BackendOrder)
        /\ first \o BackendOrder \in Seq(OrderNames)
        /\ \A k \in 1..(Len(first) + Len(BackendOrder)) : (first \o BackendOrder)[k] =
             IF k <= Len(first) THEN first[k] ELSE BackendOrder[k - Len(first)]
    BY <1>2, <1>3, ConcatProperties
  <2>2. Len(BackendOrder) \in Nat
    BY <1>2
  <2> QED
    BY <1>1, <1>3, <2>1, <2>2
<1> HIDE DEF second
<1>5. /\ Len(SimulationOrder) = Len(second) + 1
      /\ \A k \in 1..Len(CaseOrder) : SimulationOrder[k] = CaseOrder[k]
      /\ SimulationOrder \in Seq(OrderNames)
  <2>1. SimulationOrder = second \o <<Environment>>
    BY DEF SimulationOrder, second, first
  <2>2. /\ Len(second \o <<Environment>>) = Len(second) + Len(<<Environment>>)
        /\ second \o <<Environment>> \in Seq(OrderNames)
        /\ \A k \in 1..(Len(second) + Len(<<Environment>>)) : (second \o <<Environment>>)[k] =
             IF k <= Len(second) THEN second[k] ELSE <<Environment>>[k - Len(second)]
    BY <1>2, <1>4, ConcatProperties
  <2>3. Len(BackendOrder) \in Nat
    BY <1>2
  <2> QED
    BY <1>1, <1>2, <1>3, <1>4, <2>1, <2>2, <2>3
<1>6. PICK j \in 1..Len(CaseOrder) : CaseOrder[j] = name
  BY <1>1 DEF Range
<1>7. i \in Nat /\ i > Len(CaseOrder)
  <2>1. i \in Nat
    BY <1>5
  <2>2. SUFFICES ASSUME i <= Len(CaseOrder) PROVE FALSE
    BY <1>1, <2>1
  <2>3. i \in 1..Len(CaseOrder) /\ SimulationOrder[i] = CaseOrder[i]
    BY <1>1, <1>5, <2>1, <2>2
  <2>4. CaseOrder[i] \in Range(CaseOrder)
    BY <1>1, <2>3 DEF Range
  <2> QED
    BY <2>3, <2>4, NamesAssumption
<1>8. j \in 1..(i - 1)
  BY <1>1, <1>6, <1>7
<1> QED
  BY <1>5, <1>6, <1>8

\* The file of a name the FMI script does not write, and whom two names share one with.
LEMMA FilesApart ==
  /\ \A name \in Range(SimulationOrder) : FileOf("simulation", name) # FiveDomain
  /\ \A name \in Range(SoftwareOrder) : FileOf("software", name) # FiveDomain
  /\ FileOf("simulation", FiveDomain) = FiveDomain /\ FiveDomain \in Files
  /\ \A p \in {"simulation"}, m \in Range(SimulationOrder) \cup {CrossDomain},
        n \in Range(SimulationOrder) :
       FileOf(p, m) = FileOf(p, n) => m = n \/ (m = CrossDomain /\ n = LastCase)
<1>1. LastCase # FiveDomain /\ LastCase \in Range(SimulationOrder)
  BY NamesApart
<1>2. /\ \A name \in Range(SimulationOrder) : FileOf("simulation", name) # FiveDomain
      /\ \A name \in Range(SoftwareOrder) : FileOf("software", name) # FiveDomain
  BY <1>1, NamesApart DEF FileOf, FiveDomain
<1>3. FileOf("simulation", FiveDomain) = FiveDomain
  BY DEF FileOf, FiveDomain, CrossDomain, Environment
<1>4. FiveDomain \in Files
  BY <1>3 DEF Files, Expected
<1>5. \A n \in Range(SimulationOrder) :
        n \notin EnvironmentFiles /\ n # CrossDomain
  BY NamesApart, NamesAssumption DEF EnvironmentFiles, Firmware, Environment, CrossDomain
<1>6. ASSUME NEW m \in Range(SimulationOrder) \cup {CrossDomain},
             NEW n \in Range(SimulationOrder),
             FileOf("simulation", m) = FileOf("simulation", n)
      PROVE  m = n \/ (m = CrossDomain /\ n = LastCase)
  <2>1. /\ n # CrossDomain /\ n \notin EnvironmentFiles
        /\ LastCase # Environment /\ LastCase \notin EnvironmentFiles
        /\ m # CrossDomain => m \notin EnvironmentFiles
    BY <1>1, <1>5, NamesApart
  <2>2. /\ FileOf("simulation", n) = IF n = Environment THEN "simulation environment" ELSE n
        /\ FileOf("simulation", m) =
             IF m = CrossDomain THEN LastCase
             ELSE IF m = Environment THEN "simulation environment" ELSE m
    BY <2>1 DEF FileOf
  <2>3. "simulation environment" \in EnvironmentFiles
    BY DEF EnvironmentFiles
  <2>4. CASE n = Environment
    BY <1>6, <2>1, <2>2, <2>3, <2>4
  <2>5. CASE n # Environment /\ m = Environment
    BY <1>6, <2>1, <2>2, <2>3, <2>5
  <2>6. CASE n # Environment /\ m # Environment
    BY <1>6, <2>1, <2>2, <2>6
  <2> QED
    BY <2>4, <2>5, <2>6
<1> QED
  BY <1>2, <1>3, <1>4, <1>6

------------------------------------------------------------------------------
(* Entries, plans and contents have their types.                             *)

\* What is put into the entries.
LEMMA PutNames ==
  ASSUME NEW entries, NEW names, NEW entry
  PROVE  DOMAIN Put(names, entry, entries) = names \cup DOMAIN entries
BY DEF Put

\* What it holds for a name.
LEMMA PutEntries ==
  ASSUME NEW entries, NEW names, NEW entry, NEW n \in names \cup DOMAIN entries
  PROVE  Put(names, entry, entries)[n] = IF n \in names THEN entry ELSE entries[n]
BY DEF Put

\* Entries put into entries make entries.
LEMMA PutTyped ==
  ASSUME NEW entries \in EntryMaps, NEW names \in SUBSET Names, NEW entry \in Entries
  PROVE  Put(names, entry, entries) \in EntryMaps
<1>1. PICK S \in SUBSET Names : entries \in [S -> Entries]
  BY DEF EntryMaps
<1>2. Put(names, entry, entries) \in [names \cup S -> Entries]
  BY <1>1 DEF Put
<1>3. names \cup S \in SUBSET Names
  OBVIOUS
<1> QED
  BY <1>2, <1>3 DEF EntryMaps

\* The entries of a map.
LEMMA EntryOf ==
  ASSUME NEW entries \in EntryMaps
  PROVE  /\ DOMAIN entries \subseteq Names
         /\ \A n \in DOMAIN entries : entries[n] \in Entries
BY DEF EntryMaps

\* No entries are entries.
LEMMA EmptyMap == <<>> \in EntryMaps /\ DOMAIN <<>> = {}
<1>1. <<>> \in [{} -> Entries] /\ {} \in SUBSET Names
  OBVIOUS
<1> QED
  BY <1>1 DEF EntryMaps

\* There is nothing in the manifest that is not there.
LEMMA NoEntries == DOMAIN NoManifest.entries = {}
<1>1. NoManifest.entries = <<>>
  BY DEF NoManifest
<1> QED
  BY <1>1, EmptyMap

\* The plans name entries.
LEMMA Plans ==
  /\ SimulationOrder \in Seq(Names) /\ SoftwareOrder \in Seq(Names) /\ <<>> \in Seq(Names)
  /\ {CrossDomain, FiveDomain} \subseteq Names
  /\ \A selected \in Selections :
       /\ selected \in Seq(Names)
       /\ \A i \in DOMAIN selected : selected[i] \in Range(CaseOrder)
<1>1. /\ Range(SimulationOrder) \subseteq Names /\ Range(SoftwareOrder) \subseteq Names
      /\ Range(CaseOrder) \subseteq Names /\ {CrossDomain, FiveDomain} \subseteq Names
  BY NamesApart DEF Names, Expected
<1>2. ASSUME NEW s \in Seq(OrderNames), Range(s) \subseteq Names PROVE s \in Seq(Names)
  <2>1. s \in Seq(Range(s))
    BY SeqOfRange
  <2> QED
    BY <1>2, <2>1
<1>3. SimulationOrder \in Seq(Names) /\ SoftwareOrder \in Seq(Names)
  BY <1>1, <1>2, NamesApart
<1>4. ASSUME NEW selected \in Selections
      PROVE  /\ selected \in Seq(Names)
             /\ \A i \in DOMAIN selected : selected[i] \in Range(CaseOrder)
  <2>1. DOMAIN CaseOrder = 1..Len(CaseOrder) /\ Len(CaseOrder) \in Nat
    BY Orders, LenProperties
  <2>0. PICK n \in DOMAIN CaseOrder :
           selected \in {[i \in 1..n |-> CaseOrder[place[i]]] :
                          place \in {f \in [1..n -> DOMAIN CaseOrder] :
                                       \A i, j \in 1..n : i < j => f[i] < f[j]}}
    BY <1>4 DEF Selections
  <2>2. PICK place \in [1..n -> DOMAIN CaseOrder] :
               selected = [i \in 1..n |-> CaseOrder[place[i]]]
    BY <2>0
  <2>3. n \in Nat /\ DOMAIN selected = 1..n
    BY <2>1, <2>2
  <2>4. ASSUME NEW i \in 1..n PROVE selected[i] \in Range(CaseOrder)
    BY <2>2, <2>4 DEF Range
  <2>5. selected \in [1..n -> Names]
    BY <1>1, <2>2, <2>3, <2>4
  <2> QED
    BY <2>3, <2>4, <2>5
<1> QED
  BY <1>1, <1>3, <1>4

\* What is written is a content, and the file is one.
LEMMA ContentTyped ==
  ASSUME Typed, NEW r \in Runs, NEW name, NEW passed \in BOOLEAN
  PROVE  Content(r, name, passed) \in Contents
BY DEF Typed, RunRecords, Content, Contents

\* The entry a run has come to, what is left, and the file it writes: none of the FMI script.
LEMMA FileTyped ==
  ASSUME Typed, NEW r \in Runs, run[r].profile \in Profiles, run[r].todo # <<>>,
         \A i \in DOMAIN run[r].todo : run[r].todo[i] \in Planned(run[r])
  PROVE  /\ Head(run[r].todo) \in Planned(run[r]) /\ Head(run[r].todo) \in Names
         /\ Tail(run[r].todo) \in Seq(Names)
         /\ \A i \in DOMAIN Tail(run[r].todo) : Tail(run[r].todo)[i] \in Planned(run[r])
         /\ File(r) \in Files /\ File(r) # FiveDomain
<1>1. run[r].todo \in Seq(Names)
  BY DEF Typed, RunRecords
<1>2. /\ Head(run[r].todo) = run[r].todo[1] /\ Head(run[r].todo) \in Names
      /\ Tail(run[r].todo) \in Seq(Names) /\ Len(run[r].todo) \in Nat \ {0}
      /\ Len(Tail(run[r].todo)) = Len(run[r].todo) - 1
      /\ \A i \in 1..Len(Tail(run[r].todo)) : Tail(run[r].todo)[i] = run[r].todo[i + 1]
  BY <1>1, HeadTailProperties, EmptySeq
<1>3. Head(run[r].todo) \in Planned(run[r])
  BY <1>1, <1>2
<1>4. ASSUME NEW i \in DOMAIN Tail(run[r].todo) PROVE Tail(run[r].todo)[i] \in Planned(run[r])
  <2>1. i \in 1..Len(Tail(run[r].todo)) /\ i + 1 \in 1..Len(run[r].todo)
    BY <1>2
  <2> QED
    BY <1>1, <1>2, <2>1
<1>5. CASE run[r].profile = "software"
  <2>1. Head(run[r].todo) \in Range(SoftwareOrder)
    BY <1>3, <1>5 DEF Planned
  <2> QED
    BY <1>2, <1>3, <1>4, <1>5, <2>1, FilesApart DEF File, Files, Expected
<1>6. CASE run[r].profile # "software"
  <2>1. run[r].profile = "simulation"
    BY <1>6 DEF Profiles
  <2>2. Head(run[r].todo) \in Range(SimulationOrder)
    BY <1>3, <1>6, NamesApart DEF Planned
  <2> QED
    BY <1>2, <1>3, <1>4, <2>1, <2>2, FilesApart DEF File, Files, Expected
<1> QED
  BY <1>5, <1>6

------------------------------------------------------------------------------
(* What a run's steps make of it.                                            *)

\* It stays the run it is.
Keeps(r) ==
  /\ run'[r].profile = run[r].profile /\ run'[r].revision = run[r].revision
  /\ run'[r].about = run[r].about /\ run'[r].full = run[r].full

OthersStay(r) == \A q \in Runs \ {r} : run'[q] = run[q]

\* A run begins.
LEMMA Begins ==
  ASSUME Typed, NEW r \in Runs, NEW revision \in Revisions,
         NEW profile, NEW todo, NEW full, NEW about,
         Begin(r, profile, revision, todo, full, about)
  PROVE  /\ run[r].at = "unborn" /\ OthersStay(r)
         /\ run'[r] = [at |-> "write", profile |-> profile, revision |-> revision,
                       about |-> about, full |-> full, todo |-> todo, entries |-> <<>>,
                       wrote |-> NoEvidence]
         /\ UNCHANGED <<topologyVars, filesVars, fmi, boundVars>>
<1>1. [NewRun EXCEPT !.at = "write", !.profile = profile, !.revision = revision,
                     !.about = about, !.full = full, !.todo = todo]
        = [at |-> "write", profile |-> profile, revision |-> revision,
           about |-> about, full |-> full, todo |-> todo, entries |-> <<>>,
           wrote |-> NoEvidence]
  <2> DEFINE fields == {"at", "profile", "revision", "about", "full", "todo", "entries", "wrote"}
             new == [NewRun EXCEPT !.at = "write", !.profile = profile, !.revision = revision,
                                   !.about = about, !.full = full, !.todo = todo]
  <2>1. NewRun = [f \in fields |-> NewRun[f]] /\ DOMAIN NewRun = fields
    BY DEF NewRun
  <2>2. /\ new = [f \in fields |-> new[f]]
        /\ new.at = "write" /\ new.profile = profile /\ new.revision = revision
        /\ new.about = about /\ new.full = full /\ new.todo = todo
        /\ new.entries = NewRun.entries /\ new.wrote = NewRun.wrote
    BY <2>1
  <2>3. NewRun.entries = <<>> /\ NewRun.wrote = NoEvidence
    BY DEF NewRun
  <2> HIDE DEF new
  <2>4. [f \in fields |-> new[f]]
          = [at |-> new.at, profile |-> new.profile, revision |-> new.revision,
             about |-> new.about, full |-> new.full, todo |-> new.todo,
             entries |-> new.entries, wrote |-> new.wrote]
    OBVIOUS
  <2> QED
    BY <2>2, <2>3, <2>4 DEF new
<1>2. run' = [run EXCEPT ![r] =
               [at |-> "write", profile |-> profile, revision |-> revision,
                about |-> about, full |-> full, todo |-> todo, entries |-> <<>>,
                wrote |-> NoEvidence]]
  BY <1>1 DEF Begin
<1>3. /\ run[r].at = "unborn"
      /\ UNCHANGED <<topologyVars, filesVars, fmi, boundVars>>
  BY DEF Begin
<1>4. DOMAIN run = Runs
  BY DEF Typed
<1> QED
  BY <1>2, <1>3, <1>4 DEF OthersStay

\* A run writes an evidence file: what it then says, and what is in the file.
LEMMA Writes ==
  ASSUME Typed, NEW r \in Runs, WriteEvidence(r)
  PROVE  /\ run[r].at = "write" /\ run'[r].at = "hash" /\ OthersStay(r) /\ Keeps(r)
         /\ run'[r].todo = run[r].todo /\ run'[r].entries = run[r].entries
         /\ run[r].todo # <<>>
         /\ \E passed \in Outcomes(r, Head(run[r].todo)) :
              /\ run'[r].wrote = Content(r, Head(run[r].todo), passed)
              /\ evidence' =
                   [evidence EXCEPT ![File(r)] = Content(r, Head(run[r].todo), passed)]
              /\ faults' = IF passed \/ TRUE \notin Outcomes(r, Head(run[r].todo))
                             THEN faults ELSE faults + 1
         /\ UNCHANGED <<topologyVars, catalog, manifest, report, fmi, raced>>
<1>1. PICK passed \in Outcomes(r, Head(run[r].todo)) :
        /\ evidence' = [evidence EXCEPT ![File(r)] = Content(r, Head(run[r].todo), passed)]
        /\ run' = [run EXCEPT ![r].at = "hash",
                              ![r].wrote = Content(r, Head(run[r].todo), passed)]
        /\ faults' = IF passed \/ TRUE \notin Outcomes(r, Head(run[r].todo))
                       THEN faults ELSE faults + 1
  BY DEF WriteEvidence
<1> DEFINE written == Content(r, Head(run[r].todo), passed)
<1>2. run' = [run EXCEPT ![r].at = "hash", ![r].wrote = written]
  BY <1>1
<1> HIDE DEF written
<1>3. /\ run'[r].at = "hash" /\ OthersStay(r) /\ Keeps(r)
      /\ run'[r].todo = run[r].todo /\ run'[r].entries = run[r].entries
      /\ run'[r].wrote = written
  BY <1>2 DEF Typed, RunRecords, OthersStay, Keeps
<1> QED
  BY <1>1, <1>3 DEF WriteEvidence, written

HashedNames(r) ==
  IF Head(run[r].todo) = LastCase THEN {LastCase, CrossDomain} ELSE {Head(run[r].todo)}

\* A run hashes the file: the status is its own, the content is the one of the file.
LEMMA Hashes ==
  ASSUME Typed, NEW r \in Runs, HashEvidence(r)
  PROVE  /\ run[r].at = "hash" /\ run'[r].at = "write" /\ OthersStay(r) /\ Keeps(r)
         /\ run'[r].todo = Tail(run[r].todo)
         /\ run'[r].entries = Put(HashedNames(r), Entry(run[r].wrote.passed, evidence[File(r)]),
                                  run[r].entries)
         /\ run'[r].wrote = NoEvidence
         /\ raced' = (raced \/ evidence[File(r)] # run[r].wrote)
         /\ UNCHANGED <<topologyVars, filesVars, fmi, faults>>
<1> DEFINE entries == Put(HashedNames(r), Entry(run[r].wrote.passed, evidence[File(r)]),
                          run[r].entries)
           rest == Tail(run[r].todo)
<1>1. run' = [run EXCEPT ![r].at = "write", ![r].todo = rest, ![r].entries = entries,
                         ![r].wrote = NoEvidence]
  BY DEF HashEvidence, HashedNames
<1> HIDE DEF entries, rest
<1>2. /\ run'[r].at = "write" /\ OthersStay(r) /\ Keeps(r)
      /\ run'[r].todo = rest /\ run'[r].entries = entries
      /\ run'[r].wrote = NoEvidence
  BY <1>1 DEF Typed, RunRecords, OthersStay, Keeps
<1> QED
  BY <1>2 DEF HashEvidence, entries, rest

\* A run replaces its manifest and is done.
LEMMA Publishes ==
  ASSUME Typed, NEW r \in Runs, WriteManifest(r)
  PROVE  /\ run[r].at = "write" /\ run[r].todo = <<>> /\ run'[r].at = "done"
         /\ OthersStay(r) /\ Keeps(r)
         /\ run'[r].todo = run[r].todo /\ run'[r].entries = <<>>
         /\ run'[r].wrote = run[r].wrote
         /\ manifest' = [manifest EXCEPT ![run[r].profile] =
                           [revision |-> run[r].revision, entries |-> run[r].entries]]
         /\ UNCHANGED <<topologyVars, catalog, evidence, report, fmi, boundVars>>
<1>1. run' = [run EXCEPT ![r].at = "done", ![r].entries = <<>>]
  BY DEF WriteManifest
<1>2. /\ run'[r].at = "done" /\ OthersStay(r) /\ Keeps(r)
      /\ run'[r].todo = run[r].todo /\ run'[r].entries = <<>> /\ run'[r].wrote = run[r].wrote
  BY <1>1 DEF Typed, RunRecords, OthersStay, Keeps
<1> QED
  BY <1>2 DEF WriteManifest

\* A run that is cut short forgets all.
LEMMA Stops ==
  ASSUME Typed, NEW r \in Runs, CutShort(r)
  PROVE  /\ run[r].at \in {"write", "hash"} /\ OthersStay(r)
         /\ run'[r] = [at |-> "stopped", profile |-> "none", revision |-> NoRevision,
                       about |-> NoRun, full |-> FALSE, todo |-> <<>>, entries |-> <<>>,
                       wrote |-> NoEvidence]
         /\ faults' = faults + 1
         /\ UNCHANGED <<topologyVars, filesVars, fmi, raced>>
BY DEF CutShort, NewRun, Typed, OthersStay

------------------------------------------------------------------------------
(* The types are kept.                                                       *)

\* A run replaced by a record of the right kind leaves runs of the right kind.
LEMMA RunReplaced ==
  ASSUME Typed, NEW r \in Runs, NEW record \in RunRecords, run' = [run EXCEPT ![r] = record]
  PROVE  run' \in [Runs -> RunRecords]
BY DEF Typed

\* A run of whom some fields are replaced.
LEMMA RunUpdated ==
  ASSUME Typed, NEW r \in Runs, NEW at \in {"write", "hash"}, NEW todo \in Seq(Names),
         NEW entries \in EntryMaps, NEW wrote \in Contents
  PROVE  [run[r] EXCEPT !.at = at, !.todo = todo, !.entries = entries, !.wrote = wrote]
           \in RunRecords
<1>1. run[r] \in RunRecords
  BY DEF Typed
<1> QED
  BY <1>1 DEF RunRecords

\* What stands for no evidence and for no manifest has its type.
LEMMA NothingTyped == NoEvidence \in Contents /\ NoManifest \in Manifests
<1>1. NoEvidence \in Contents
  BY DEF NoEvidence, Contents
<1>2. NoManifest \in Manifests
  BY EmptyMap DEF NoManifest, Manifests
<1> QED
  BY <1>1, <1>2

\* The types hold at first.
LEMMA TypedInit == ASSUME Init PROVE Typed
<1>1. NewRun \in RunRecords
  BY EmptyMap, NothingTyped, Plans DEF NewRun, RunRecords
<1>2. run \in [Runs -> RunRecords]
  BY <1>1 DEF Init
<1>3. fmi \in FmiRecords
  BY NothingTyped DEF Init, FmiRecords
<1>4. evidence \in [Files -> Contents] /\ manifest \in [Profiles -> Manifests]
  BY NothingTyped DEF Init
<1> QED
  BY <1>2, <1>3, <1>4 DEF Init, Typed

\* The steps of the runs.
LEMMA TypedBegin ==
  ASSUME Typed, NEW r \in Runs, NEW revision \in Revisions, NEW profile \in Profiles,
         NEW todo \in Seq(Names), NEW full \in BOOLEAN, NEW about \in Runs \cup Nat,
         Begin(r, profile, revision, todo, full, about)
  PROVE  Typed'
<1> DEFINE record == [NewRun EXCEPT !.at = "write", !.profile = profile, !.revision = revision,
                                    !.about = about, !.full = full, !.todo = todo]
<1>1. run' = [run EXCEPT ![r] = record]
  BY DEF Begin
<1>2. run'[r] = record
  BY <1>1 DEF Typed
<1> HIDE DEF record
<1>3. record \in RunRecords
  <2>1. record = [at |-> "write", profile |-> profile, revision |-> revision,
                  about |-> about, full |-> full, todo |-> todo, entries |-> <<>>,
                  wrote |-> NoEvidence]
    <3>1. run'[r] = [at |-> "write", profile |-> profile, revision |-> revision,
                     about |-> about, full |-> full, todo |-> todo, entries |-> <<>>,
                     wrote |-> NoEvidence]
      BY Begins
    <3> QED
      BY <1>2, <3>1
  <2> QED
    BY <2>1, EmptyMap, NothingTyped DEF RunRecords
<1>4. run' \in [Runs -> RunRecords]
  BY <1>1, <1>3, RunReplaced
<1> QED
  BY <1>4 DEF Typed, Begin, filesVars, boundVars

\* They hold after a run began.
LEMMA TypedBenchmarks ==
  ASSUME Typed, NEW r \in Runs, NEW revision \in Revisions,
         BeginBenchmarks(r, revision) \/ BeginSoftware(r, revision)
  PROVE  Typed'
<1>1. "simulation" \in Profiles /\ "software" \in Profiles
  BY DEF Profiles
<1>2. CASE Begin(r, "simulation", revision, SimulationOrder, TRUE, r)
  BY <1>1, <1>2, Plans, TypedBegin
<1>3. ASSUME NEW selected \in Selections, Begin(r, "simulation", revision, selected, FALSE, r)
      PROVE  Typed'
  <2>1. selected \in Seq(Names)
    BY Plans
  <2> QED
    BY <1>1, <1>3, <2>1, TypedBegin
<1>4. CASE BeginSoftware(r, revision)
  <2>1. report \in Nat /\ Begin(r, "software", revision, SoftwareOrder, TRUE, report)
    BY <1>4 DEF BeginSoftware, Typed
  <2> QED
    BY <1>1, <2>1, Plans, TypedBegin
<1> QED
  BY <1>2, <1>3, <1>4 DEF BeginBenchmarks

\* They hold after an evidence file was written.
LEMMA TypedWrite ==
  ASSUME Typed, NEW r \in Runs, WriteEvidence(r)
  PROVE  Typed'
<1>1. PICK passed \in Outcomes(r, Head(run[r].todo)) :
        /\ evidence' = [evidence EXCEPT ![File(r)] = Content(r, Head(run[r].todo), passed)]
        /\ run' = [run EXCEPT ![r].at = "hash",
                              ![r].wrote = Content(r, Head(run[r].todo), passed)]
        /\ faults' = IF passed \/ TRUE \notin Outcomes(r, Head(run[r].todo))
                       THEN faults ELSE faults + 1
  BY DEF WriteEvidence
<1>2. passed \in BOOLEAN
  BY <1>1 DEF Outcomes, Passed
<1>3. Content(r, Head(run[r].todo), passed) \in Contents
  BY <1>2, ContentTyped
<1> DEFINE written == Content(r, Head(run[r].todo), passed)
<1>4. written \in Contents /\ run' = [run EXCEPT ![r].at = "hash", ![r].wrote = written]
      /\ evidence' = [evidence EXCEPT ![File(r)] = written]
  BY <1>1, <1>3
<1> HIDE DEF written
<1>5. run' \in [Runs -> RunRecords]
  <2>1. run[r] \in RunRecords
    BY DEF Typed
  <2> DEFINE record == [run[r] EXCEPT !.at = "hash", !.wrote = written]
  <2>2. run' = [run EXCEPT ![r] = record]
    BY <1>4
  <2>3. record \in RunRecords
    BY <1>4, <2>1 DEF RunRecords
  <2> HIDE DEF record
  <2> QED
    BY <2>2, <2>3, RunReplaced
<1>6. evidence' \in [Files -> Contents]
  BY <1>4 DEF Typed
<1>7. faults' \in Nat
  <2>1. faults' = faults \/ faults' = faults + 1
    BY <1>1
  <2> QED
    BY <2>1 DEF Typed
<1> QED
  BY <1>5, <1>6, <1>7 DEF Typed, WriteEvidence

\* What a run hashes are entries.
LEMMA HashTyped ==
  ASSUME Typed, RunsPlan, NEW r \in Runs, run[r].at = "hash"
  PROVE  /\ File(r) \in Files /\ File(r) # FiveDomain
         /\ Entry(run[r].wrote.passed, evidence[File(r)]) \in Entries
         /\ HashedNames(r) \in SUBSET Names /\ FiveDomain \notin HashedNames(r)
         /\ run[r].entries \in EntryMaps
         /\ Head(run[r].todo) \in Planned(run[r]) /\ Tail(run[r].todo) \in Seq(Names)
         /\ \A i \in DOMAIN Tail(run[r].todo) : Tail(run[r].todo)[i] \in Planned(run[r])
<1>1. /\ Head(run[r].todo) \in Planned(run[r]) /\ Head(run[r].todo) \in Names
      /\ Tail(run[r].todo) \in Seq(Names)
      /\ \A i \in DOMAIN Tail(run[r].todo) : Tail(run[r].todo)[i] \in Planned(run[r])
      /\ File(r) \in Files /\ File(r) # FiveDomain
  BY FileTyped DEF RunsPlan
<1>2. run[r].wrote \in Contents /\ evidence[File(r)] \in Contents /\ run[r].entries \in EntryMaps
  BY <1>1 DEF Typed, RunRecords
<1>3. run[r].wrote.passed \in BOOLEAN
  BY <1>2 DEF Contents
<1>4. Entry(run[r].wrote.passed, evidence[File(r)]) \in Entries
  BY <1>2, <1>3 DEF Entry, Entries
<1>5. HashedNames(r) \in SUBSET Names
  BY <1>1, Plans DEF HashedNames
<1>6. FiveDomain \notin HashedNames(r)
  BY <1>1, NamesApart DEF HashedNames, Planned, FiveDomain, CrossDomain
<1> QED
  BY <1>1, <1>2, <1>4, <1>5, <1>6

\* They hold after it was hashed.
LEMMA TypedHash ==
  ASSUME Typed, RunsPlan, NEW r \in Runs, HashEvidence(r)
  PROVE  Typed'
<1> DEFINE entries == Put(HashedNames(r), Entry(run[r].wrote.passed, evidence[File(r)]),
                          run[r].entries)
           rest == Tail(run[r].todo)
<1>1. run' = [run EXCEPT ![r].at = "write", ![r].todo = rest, ![r].entries = entries,
                         ![r].wrote = NoEvidence]
  BY DEF HashEvidence, HashedNames
<1>2. entries \in EntryMaps /\ rest \in Seq(Names) /\ NoEvidence \in Contents
  <2>1. run[r].at = "hash"
    BY DEF HashEvidence
  <2>2. /\ Entry(run[r].wrote.passed, evidence[File(r)]) \in Entries
        /\ HashedNames(r) \in SUBSET Names /\ run[r].entries \in EntryMaps
        /\ rest \in Seq(Names)
    BY <2>1, HashTyped
  <2> HIDE DEF rest
  <2>4. Put(HashedNames(r), Entry(run[r].wrote.passed, evidence[File(r)]), run[r].entries)
          \in EntryMaps
    BY <2>2, PutTyped
  <2> QED
    BY <2>2, <2>4, NothingTyped
<1> HIDE DEF entries, rest
<1>3. run' \in [Runs -> RunRecords]
  <2> DEFINE record == [run[r] EXCEPT !.at = "write", !.todo = rest, !.entries = entries,
                                      !.wrote = NoEvidence]
  <2>1. record \in RunRecords
    BY <1>2, RunUpdated
  <2>2. run' = [run EXCEPT ![r] = record]
    BY <1>1
  <2> HIDE DEF record
  <2> QED
    BY <2>1, <2>2, RunReplaced
<1> QED
  BY <1>3 DEF Typed, HashEvidence, filesVars

\* They hold after a manifest was replaced.
LEMMA TypedPublish ==
  ASSUME Typed, NEW r \in Runs, WriteManifest(r)
  PROVE  Typed'
<1>1. run' = [run EXCEPT ![r].at = "done", ![r].entries = <<>>]
  BY DEF WriteManifest
<1>2. run' \in [Runs -> RunRecords]
  <2>1. run[r] \in RunRecords
    BY DEF Typed
  <2> DEFINE record == [run[r] EXCEPT !.at = "done", !.entries = <<>>]
  <2>2. record \in RunRecords
    BY <2>1, EmptyMap DEF RunRecords
  <2>3. run' = [run EXCEPT ![r] = record]
    BY <1>1
  <2> HIDE DEF record
  <2> QED
    BY <2>2, <2>3, RunReplaced
<1>3. [revision |-> run[r].revision, entries |-> run[r].entries] \in Manifests
  BY DEF Typed, RunRecords, Manifests
<1>4. manifest' \in [Profiles -> Manifests]
  BY <1>3 DEF WriteManifest, Typed
<1> QED
  BY <1>2, <1>4 DEF Typed, WriteManifest, boundVars

\* They hold after a run was cut short.
LEMMA TypedStop ==
  ASSUME Typed, NEW r \in Runs, CutShort(r)
  PROVE  Typed'
<1> DEFINE record == [NewRun EXCEPT !.at = "stopped"]
<1>1. run' = [run EXCEPT ![r] = record]
  BY DEF CutShort
<1>2. record \in RunRecords
  BY EmptyMap, NothingTyped, Plans DEF NewRun, RunRecords
<1> HIDE DEF record
<1>3. run' \in [Runs -> RunRecords]
  BY <1>1, <1>2, RunReplaced
<1> QED
  BY <1>3 DEF Typed, CutShort, filesVars

\* The steps of the FMI script.
FmiStep ==
  \/ FmiStarts \/ FmiSearches \/ FmiExports \/ FmiRefused \/ FmiSimulates \/ FmiFails
  \/ FmiLoads \/ FmiMissesManifest \/ FmiMerges

\* The FMI script with other fields.
LEMMA TypedFmiUpdated ==
  ASSUME Typed, NEW at \in {"idle", "export", "simulate", "load", "merge"}, NEW count \in Nat,
         NEW m \in Manifests, NEW hash \in Contents
  PROVE  [fmi EXCEPT !.at = at, !.count = count, !.manifest = m, !.hash = hash] \in FmiRecords
BY DEF Typed, FmiRecords

\* The types hold after each of its steps.
LEMMA TypedFmi ==
  ASSUME Typed, FmiStep
  PROVE  Typed'
<1>1. /\ fmi \in FmiRecords /\ fmi.count \in Nat /\ fmi.manifest \in Manifests
      /\ fmi.hash \in Contents
  BY DEF Typed, FmiRecords
<1>2. ASSUME FmiEnds PROVE fmi' \in FmiRecords
  BY <1>1, <1>2, NothingTyped DEF FmiEnds, FmiRecords
<1>3. ASSUME FmiUnchanged, UNCHANGED raced, fmi' \in FmiRecords PROVE Typed'
  BY <1>3 DEF Typed, FmiUnchanged, filesVars
<1>4. CASE FmiStarts
  <2>1. fmi.count + 1 \in Nat /\ fmi' = [fmi EXCEPT !.at = "export", !.count = fmi.count + 1]
    BY <1>1, <1>4 DEF FmiStarts
  <2> DEFINE next == fmi.count + 1
  <2>2. next \in Nat /\ fmi' = [fmi EXCEPT !.at = "export", !.count = next]
    BY <2>1
  <2> HIDE DEF next
  <2>3. fmi' \in FmiRecords
    BY <1>1, <2>2 DEF FmiRecords
  <2> QED
    BY <1>3, <1>4, <2>3 DEF FmiStarts
<1>5. CASE FmiSearches
  BY <1>1, <1>3, <1>5 DEF FmiSearches
<1>6. CASE FmiExports
  <2>1. fmi' \in FmiRecords
    BY <1>1, <1>6 DEF FmiExports, FmiRecords
  <2> QED
    BY <1>3, <1>6, <2>1 DEF FmiExports
<1>7. CASE FmiRefused
  BY <1>2, <1>3, <1>7 DEF FmiRefused
<1>8. CASE FmiSimulates
  <2>1. [by |-> fmi.count, passed |-> TRUE, revision |-> NoRevision] \in Contents
    BY <1>1 DEF Contents
  <2>2. evidence' \in [Files -> Contents]
    BY <1>8, <2>1 DEF FmiSimulates, Typed
  <2>3. fmi' \in FmiRecords
    BY <1>1, <1>8 DEF FmiSimulates, FmiRecords
  <2> QED
    BY <1>8, <2>2, <2>3 DEF FmiSimulates, Typed, boundVars
<1>9. CASE FmiFails
  <2>1. fmi' \in FmiRecords
    BY <1>2, <1>9 DEF FmiFails
  <2> QED
    BY <1>9, <2>1 DEF FmiFails, Typed, filesVars
<1>10. CASE FmiLoads
  <2>1. manifest["simulation"] \in Manifests /\ evidence[FiveDomain] \in Contents
    BY FilesApart DEF Typed, Profiles
  <2>2. fmi' \in FmiRecords
    BY <1>1, <1>10, <2>1 DEF FmiLoads, FmiRecords
  <2> QED
    BY <1>3, <1>10, <2>2 DEF FmiLoads
<1>11. CASE FmiMissesManifest
  BY <1>2, <1>3, <1>11 DEF FmiMissesManifest
<1>12. CASE FmiMerges
  <2>1. fmi' \in FmiRecords
    BY <1>2, <1>12 DEF FmiMerges
  <2>2. fmi.manifest.revision \in Revisions \cup {NoRevision} /\ fmi.manifest.entries \in EntryMaps
    BY <1>1 DEF Manifests
  <2>3. Entry(TRUE, fmi.hash) \in Entries /\ {FiveDomain} \in SUBSET Names
    BY <1>1, Plans DEF Entry, Entries
  <2>4. Put({FiveDomain}, Entry(TRUE, fmi.hash), fmi.manifest.entries) \in EntryMaps
    BY <2>2, <2>3, PutTyped
  <2>5. [revision |-> fmi.manifest.revision,
         entries |-> Put({FiveDomain}, Entry(TRUE, fmi.hash), fmi.manifest.entries)]
          \in Manifests
    BY <2>2, <2>4 DEF Manifests
  <2>6. manifest' \in [Profiles -> Manifests]
    BY <1>12, <2>5 DEF FmiMerges, Typed
  <2> QED
    BY <1>12, <2>1, <2>6 DEF FmiMerges, Typed, boundVars
<1> QED
  BY <1>4, <1>5, <1>6, <1>7, <1>8, <1>9, <1>10, <1>11, <1>12 DEF FmiStep

\* Every step keeps the types.
LEMMA TypedStep ==
  ASSUME Typed, RunsPlan, [Next]_vars
  PROVE  Typed'
<1>1. CASE \E r \in Runs, revision \in Revisions :
             BeginBenchmarks(r, revision) \/ BeginSoftware(r, revision)
  BY <1>1, TypedBenchmarks
<1>2. CASE \E r \in Runs :
             WriteEvidence(r) \/ HashEvidence(r) \/ WriteManifest(r) \/ CutShort(r)
  BY <1>2, TypedWrite, TypedHash, TypedPublish, TypedStop
<1>3. CASE FmiStep
  BY <1>3, TypedFmi
<1>4. CASE BreakCatalog
  <2>1. catalog' = FALSE /\ faults' = faults + 1
    BY <1>4 DEF BreakCatalog
  <2>2. faults' \in Nat
    BY <2>1 DEF Typed
  <2>3. catalog' \in BOOLEAN
    BY <2>1
  <2> QED
    BY <1>4, <2>2, <2>3 DEF BreakCatalog, Typed
<1>5. CASE ComposeReport
  <2>1. report' \in Nat
    BY <1>5 DEF ComposeReport, Typed
  <2> QED
    BY <1>5, <2>1 DEF ComposeReport, Typed, boundVars
<1>6. CASE UNCHANGED vars
  BY <1>6 DEF vars, filesVars, boundVars, Typed
<1> QED
  BY <1>1, <1>2, <1>3, <1>4, <1>5, <1>6 DEF Next, FmiStep

------------------------------------------------------------------------------
(* Runs keep to their plans.                                                 *)

\* What is planned depends on what a run is only.
LEMMA PlannedKept ==
  ASSUME NEW r \in Runs, Keeps(r)
  PROVE  Planned(run'[r]) = Planned(run[r])
BY DEF Keeps, Planned

\* A run another step leaves alone.
LEMMA PlanOfOthers ==
  ASSUME RunsPlan, NEW r \in Runs, run'[r] = run[r], run'[r].at \in {"write", "hash"}
  PROVE  /\ run'[r].profile \in Profiles
         /\ \A i \in DOMAIN run'[r].todo : run'[r].todo[i] \in Planned(run'[r])
         /\ FiveDomain \notin DOMAIN run'[r].entries
         /\ run'[r].at = "hash" => run'[r].todo # <<>>
BY DEF RunsPlan, Planned

\* One run's step keeps all plans if it keeps its own.
LEMMA PlanByRun ==
  ASSUME RunsPlan, NEW r \in Runs, OthersStay(r),
         run'[r].at \in {"write", "hash"} =>
           /\ run'[r].profile \in Profiles
           /\ \A i \in DOMAIN run'[r].todo : run'[r].todo[i] \in Planned(run'[r])
           /\ FiveDomain \notin DOMAIN run'[r].entries
           /\ run'[r].at = "hash" => run'[r].todo # <<>>
  PROVE  RunsPlan'
<1>1. ASSUME NEW q \in Runs, q # r, run'[q].at \in {"write", "hash"}
      PROVE  /\ run'[q].profile \in Profiles
             /\ \A i \in DOMAIN run'[q].todo : run'[q].todo[i] \in Planned(run'[q])
             /\ FiveDomain \notin DOMAIN run'[q].entries
             /\ run'[q].at = "hash" => run'[q].todo # <<>>
  BY <1>1, PlanOfOthers DEF OthersStay
<1> QED
  BY <1>1 DEF RunsPlan

\* Every step keeps the plans.
LEMMA PlanStep ==
  ASSUME Typed, RunsPlan, [Next]_vars
  PROVE  RunsPlan'
<1>0. ASSUME UNCHANGED run PROVE RunsPlan'
  BY <1>0 DEF RunsPlan, Planned
<1>1. ASSUME NEW r \in Runs, NEW revision \in Revisions,
             NEW profile \in Profiles, NEW todo, NEW full, NEW about,
             Begin(r, profile, revision, todo, full, about),
             \A i \in DOMAIN todo :
               todo[i] \in IF profile = "software" THEN Range(SoftwareOrder)
                           ELSE IF full THEN Range(SimulationOrder) ELSE Range(CaseOrder)
      PROVE  RunsPlan'
  <2>1. /\ OthersStay(r) /\ run'[r].profile = profile /\ run'[r].full = full
        /\ run'[r].todo = todo /\ run'[r].entries = <<>> /\ run'[r].at = "write"
    <3>1. /\ OthersStay(r)
          /\ run'[r] = [at |-> "write", profile |-> profile, revision |-> revision,
                        about |-> about, full |-> full, todo |-> todo, entries |-> <<>>,
                        wrote |-> NoEvidence]
      BY <1>1, Begins
    <3> QED
      BY <3>1
  <2>2. \A i \in DOMAIN run'[r].todo : run'[r].todo[i] \in Planned(run'[r])
    BY <1>1, <2>1 DEF Planned
  <2> QED
    BY <2>1, <2>2, EmptyMap, PlanByRun
<1>2. ASSUME NEW r \in Runs, NEW revision \in Revisions, BeginBenchmarks(r, revision)
      PROVE  RunsPlan'
  <2>1. CASE Begin(r, "simulation", revision, SimulationOrder, TRUE, r)
    <3>1. \A i \in DOMAIN SimulationOrder : SimulationOrder[i] \in Range(SimulationOrder)
      BY DEF Range
    <3> QED
      BY <1>1, <2>1, <3>1 DEF Profiles
  <2>2. ASSUME NEW selected \in Selections,
               Begin(r, "simulation", revision, selected, FALSE, r)
        PROVE  RunsPlan'
    <3>1. \A i \in DOMAIN selected : selected[i] \in Range(CaseOrder)
      BY Plans
    <3> QED
      BY <1>1, <2>2, <3>1 DEF Profiles
  <2> QED
    BY <1>2, <2>1, <2>2 DEF BeginBenchmarks
<1>3. ASSUME NEW r \in Runs, NEW revision \in Revisions, BeginSoftware(r, revision)
      PROVE  RunsPlan'
  <2>1. \A i \in DOMAIN SoftwareOrder : SoftwareOrder[i] \in Range(SoftwareOrder)
    BY DEF Range
  <2> QED
    BY <1>1, <1>3, <2>1 DEF BeginSoftware, Profiles
<1>4. ASSUME NEW r \in Runs, WriteEvidence(r) PROVE RunsPlan'
  <2>1. /\ run[r].at = "write" /\ OthersStay(r) /\ Keeps(r) /\ run[r].todo # <<>>
        /\ run'[r].todo = run[r].todo /\ run'[r].entries = run[r].entries
    BY <1>4, Writes
  <2>2. Planned(run'[r]) = Planned(run[r]) /\ run'[r].profile = run[r].profile
    BY <2>1, PlannedKept DEF Keeps
  <2> QED
    BY <2>1, <2>2, PlanByRun DEF RunsPlan
<1>5. ASSUME NEW r \in Runs, HashEvidence(r) PROVE RunsPlan'
  <2>1. /\ run[r].at = "hash" /\ run'[r].at = "write" /\ OthersStay(r) /\ Keeps(r)
        /\ run'[r].todo = Tail(run[r].todo)
        /\ run'[r].entries = Put(HashedNames(r), Entry(run[r].wrote.passed, evidence[File(r)]),
                                 run[r].entries)
    BY <1>5, Hashes
  <2>2. Planned(run'[r]) = Planned(run[r]) /\ run'[r].profile = run[r].profile
    BY <2>1, PlannedKept DEF Keeps
  <2>3. /\ Entry(run[r].wrote.passed, evidence[File(r)]) \in Entries
        /\ HashedNames(r) \in SUBSET Names /\ FiveDomain \notin HashedNames(r)
        /\ run[r].entries \in EntryMaps
        /\ \A i \in DOMAIN Tail(run[r].todo) : Tail(run[r].todo)[i] \in Planned(run[r])
    BY <2>1, HashTyped
  <2>4. DOMAIN run'[r].entries = HashedNames(r) \cup DOMAIN run[r].entries
    BY <2>1 DEF Put
  <2>5. FiveDomain \notin DOMAIN run'[r].entries /\ run'[r].profile \in Profiles
    BY <2>1, <2>2, <2>3, <2>4 DEF RunsPlan
  <2> QED
    BY <2>1, <2>2, <2>3, <2>5, PlanByRun
<1>6. ASSUME NEW r \in Runs, WriteManifest(r) PROVE RunsPlan'
  <2>1. OthersStay(r) /\ run'[r].at = "done"
    BY <1>6, Publishes
  <2> QED
    BY <2>1, PlanByRun
<1>7. ASSUME NEW r \in Runs, CutShort(r) PROVE RunsPlan'
  <2>1. OthersStay(r) /\ run'[r].at = "stopped"
    BY <1>7, Stops
  <2> QED
    BY <2>1, PlanByRun
<1>8. CASE FmiStep
  BY <1>0, <1>8 DEF FmiStep, FmiStarts, FmiSearches, FmiExports, FmiRefused, FmiSimulates,
     FmiFails, FmiLoads, FmiMissesManifest, FmiMerges, FmiUnchanged
<1>9. CASE BreakCatalog \/ ComposeReport \/ UNCHANGED vars
  BY <1>0, <1>9 DEF BreakCatalog, ComposeReport, vars
<1> QED
  BY <1>2, <1>3, <1>4, <1>5, <1>6, <1>7, <1>8, <1>9 DEF Next, FmiStep

------------------------------------------------------------------------------
(* Entries stay about one run.                                               *)

\* What is written is what ContentOf says.
LEMMA ContentIs ==
  ASSUME NEW r \in Runs, NEW name, NEW passed
  PROVE  /\ Content(r, name, passed) = ContentOf(run[r], name, passed)
         /\ ContentOf(run[r], name, passed).passed = passed
BY DEF Content, ContentOf

\* What is said of a run is said of it in its later states too.
LEMMA AboutStays ==
  ASSUME NEW x, NEW y, NEW entries, About(x, entries),
         y.profile = x.profile, y.revision = x.revision, y.about = x.about, y.full = x.full
  PROVE  About(y, entries)
<1>1. Planned(y) = Planned(x)
  BY DEF Planned
<1>2. \A name, passed, content :
        Says(x, name, passed, content) <=> Says(y, name, passed, content)
  BY DEF Says, ContentOf
<1> QED
  BY <1>1, <1>2 DEF About

\* Reports are not taken back.
LEMMA ReportedStays ==
  ASSUME NEW x, NEW n \in Nat, NEW m \in Nat, n <= m, Reported(x, n)
  PROVE  Reported(x, m)
BY DEF Reported

\* A run that is done stays as it is, and reports are not taken back.
LEMMA DoneStays ==
  ASSUME Typed, [Next]_vars
  PROVE  /\ \A r \in Runs : run[r].at = "done" => run'[r] = run[r]
         /\ report' \in Nat /\ report <= report'
         /\ raced => raced'
<1>0. report \in Nat /\ report + 1 \in Nat
  BY DEF Typed
<1>1. ASSUME NEW r \in Runs, NEW profile, NEW revision \in Revisions, NEW todo, NEW full,
             NEW about, Begin(r, profile, revision, todo, full, about)
      PROVE  /\ \A q \in Runs : run[q].at = "done" => run'[q] = run[q]
             /\ UNCHANGED <<report, raced>>
  <2>1. /\ run[r].at = "unborn" /\ OthersStay(r)
        /\ UNCHANGED <<topologyVars, filesVars, fmi, boundVars>>
    BY <1>1, Begins
  <2> QED
    BY <2>1 DEF OthersStay, filesVars, boundVars
<1>2. CASE \E r \in Runs, revision \in Revisions :
             BeginBenchmarks(r, revision) \/ BeginSoftware(r, revision)
  <2>1. PICK r \in Runs, revision \in Revisions :
               BeginBenchmarks(r, revision) \/ BeginSoftware(r, revision)
    BY <1>2
  <2>2. \E profile, todo, full, about : Begin(r, profile, revision, todo, full, about)
    BY <2>1 DEF BeginBenchmarks, BeginSoftware
  <2>3. /\ \A q \in Runs : run[q].at = "done" => run'[q] = run[q]
        /\ UNCHANGED <<report, raced>>
    BY <1>1, <2>2
  <2> QED
    BY <1>0, <2>3
<1>3. ASSUME NEW r \in Runs, WriteEvidence(r) \/ WriteManifest(r) \/ CutShort(r)
      PROVE  run[r].at # "done" /\ OthersStay(r) /\ UNCHANGED <<report, raced>>
  BY <1>3, Writes, Publishes, Stops DEF filesVars, boundVars
<1>4. ASSUME NEW r \in Runs, HashEvidence(r)
      PROVE  run[r].at # "done" /\ OthersStay(r) /\ report' = report /\ (raced => raced')
  BY <1>4, Hashes DEF filesVars
<1>5. CASE \E r \in Runs :
             WriteEvidence(r) \/ HashEvidence(r) \/ WriteManifest(r) \/ CutShort(r)
  BY <1>0, <1>3, <1>4, <1>5 DEF OthersStay
<1>6. CASE FmiStep
  <2>1. UNCHANGED <<run, report, raced>>
    BY <1>6 DEF FmiStep, FmiStarts, FmiSearches, FmiExports, FmiRefused, FmiSimulates,
       FmiFails, FmiLoads, FmiMissesManifest, FmiMerges, FmiUnchanged, filesVars, boundVars
  <2> QED
    BY <1>0, <2>1
<1>7. CASE BreakCatalog \/ ComposeReport \/ UNCHANGED vars
  BY <1>0, <1>7 DEF BreakCatalog, ComposeReport, vars, filesVars, boundVars
<1> QED
  BY <1>2, <1>5, <1>6, <1>7 DEF Next, FmiStep

\* So a manifest that is of a run stays of it.
LEMMA ManifestStays ==
  ASSUME Typed, [Next]_vars, NEW p, NEW m, ManifestOf(run, report, p, m)
  PROVE  ManifestOf(run', report', p, m)
<1>1. PICK r \in Runs :
        /\ run[r].at = "done" /\ run[r].profile = p /\ Reported(run[r], report)
        /\ m.revision = run[r].revision
        /\ About(run[r], m.entries)
  BY DEF ManifestOf
<1>2. run'[r] = run[r] /\ report \in Nat /\ report' \in Nat /\ report <= report'
  BY <1>1, DoneStays DEF Typed
<1>3. Reported(run[r], report')
  BY <1>1, <1>2, ReportedStays
<1> QED
  BY <1>1, <1>2, <1>3 DEF ManifestOf

\* One run's step keeps the manifests, which it leaves alone, and the other runs.
LEMMA OneRunByRun ==
  ASSUME Typed, [Next]_vars, OneRunEach, ~raced',
         NEW r \in Runs, OthersStay(r), UNCHANGED <<manifest, fmi>>,
         run'[r].at \in {"write", "hash"} => RunKept(run'[r], report')
  PROVE  OneRunEach'
<1>1. ~raced /\ report \in Nat /\ report' \in Nat /\ report <= report'
  BY DoneStays DEF Typed
<1>2. ASSUME NEW q \in Runs, q # r, run'[q].at \in {"write", "hash"}
      PROVE  RunKept(run'[q], report')
  <2>1. run'[q] = run[q] /\ RunKept(run[q], report)
    BY <1>1, <1>2 DEF OthersStay, OneRunEach
  <2>2. Reported(run[q], report')
    BY <1>1, <2>1, ReportedStays DEF RunKept
  <2> QED
    BY <2>1, <2>2 DEF RunKept
<1>3. ManifestsKept
  BY <1>1 DEF OneRunEach
<1>4. \A p \in Profiles : manifest'[p] # NoManifest => ManifestOf(run', report', p, manifest'[p])
  BY <1>3, ManifestStays DEF ManifestsKept
<1>5. fmi'.at = "merge" => ManifestOf(run', report', "simulation", fmi'.manifest)
  BY <1>3, ManifestStays DEF ManifestsKept
<1> QED
  BY <1>2, <1>4, <1>5 DEF OneRunEach, ManifestsKept

\* A run that begins has no entries yet.
LEMMA OneRunBegin ==
  ASSUME Typed, [Next]_vars, OneRunEach, ~raced', NEW r \in Runs, NEW revision \in Revisions,
         BeginBenchmarks(r, revision) \/ BeginSoftware(r, revision)
  PROVE  OneRunEach'
<1>1. ASSUME NEW profile, NEW todo, NEW full, NEW about,
             Begin(r, profile, revision, todo, full, about),
             profile = "software" => about \in 1..report
      PROVE  OneRunEach'
  <2>1. /\ OthersStay(r)
        /\ run'[r] = [at |-> "write", profile |-> profile, revision |-> revision,
                      about |-> about, full |-> full, todo |-> todo, entries |-> <<>>,
                      wrote |-> NoEvidence]
        /\ UNCHANGED <<topologyVars, filesVars, fmi, boundVars>>
    BY <1>1, Begins
  <2>2. /\ run'[r].at = "write" /\ run'[r].profile = profile /\ run'[r].about = about
        /\ run'[r].entries = <<>>
    BY <2>1
  <2>3. report' = report /\ UNCHANGED <<manifest, fmi>>
    BY <2>1 DEF filesVars
  <2>4. Reported(run'[r], report')
    BY <1>1, <2>2, <2>3 DEF Reported
  <2>5. About(run'[r], run'[r].entries)
    BY <2>2, EmptyMap DEF About
  <2>6. RunKept(run'[r], report')
    BY <2>2, <2>4, <2>5 DEF RunKept
  <2> QED
    BY <2>1, <2>3, <2>6, OneRunByRun
<1>2. CASE BeginBenchmarks(r, revision)
  BY <1>1, <1>2 DEF BeginBenchmarks
<1>3. CASE BeginSoftware(r, revision)
  <2>1. report \in 1..report
    BY <1>3 DEF BeginSoftware, Typed
  <2> QED
    BY <1>1, <1>3, <2>1 DEF BeginSoftware
<1> QED
  BY <1>2, <1>3

\* What a run writes is about it; a working tree fails its environment.
LEMMA OneRunWrite ==
  ASSUME Typed, RunsPlan, [Next]_vars, OneRunEach, ~raced', NEW r \in Runs, WriteEvidence(r)
  PROVE  OneRunEach'
<1> DEFINE name == Head(run[r].todo)
<1>1. /\ run[r].at = "write" /\ OthersStay(r) /\ Keeps(r)
      /\ run'[r].todo = run[r].todo /\ run'[r].entries = run[r].entries
      /\ UNCHANGED <<topologyVars, catalog, manifest, report, fmi, raced>>
  BY Writes
<1>2. PICK passed \in Outcomes(r, name) : run'[r].wrote = Content(r, name, passed)
  BY Writes
<1>3. RunKept(run[r], report)
  BY <1>1 DEF OneRunEach
<1>4. run'[r].wrote = ContentOf(run[r], name, passed) /\ run'[r].wrote.passed = passed
  BY <1>2, ContentIs
<1>5. name = Environment /\ passed /\ run[r].profile = "simulation" =>
        run[r].revision # WorkingTree
  BY <1>2, NamesApart DEF Outcomes
<1>6. Says(run[r], name, run'[r].wrote.passed, run'[r].wrote)
  BY <1>4, <1>5 DEF Says
<1>7. Says(run'[r], Head(run'[r].todo), run'[r].wrote.passed, run'[r].wrote)
  BY <1>1, <1>6 DEF Says, ContentOf, Keeps
<1>8. About(run'[r], run'[r].entries)
  BY <1>1, <1>3, AboutStays DEF RunKept, Keeps
<1>9. Reported(run'[r], report')
  BY <1>1, <1>3 DEF RunKept, Reported, Keeps
<1> QED
  BY <1>1, <1>7, <1>8, <1>9, OneRunByRun DEF RunKept

\* Without a race, what it hashes is what it wrote.
LEMMA OneRunHash ==
  ASSUME Typed, RunsPlan, [Next]_vars, OneRunEach, ~raced', NEW r \in Runs, HashEvidence(r)
  PROVE  OneRunEach'
<1> DEFINE name == Head(run[r].todo)
           wrote == run[r].wrote
           new == run'[r].entries
<1>1. /\ run[r].at = "hash" /\ run'[r].at = "write" /\ OthersStay(r) /\ Keeps(r)
      /\ new = Put(HashedNames(r), Entry(wrote.passed, evidence[File(r)]), run[r].entries)
      /\ raced' = (raced \/ evidence[File(r)] # wrote)
      /\ UNCHANGED <<topologyVars, filesVars, fmi, faults>>
  BY Hashes
<1>2. evidence[File(r)] = wrote /\ ~raced /\ UNCHANGED <<manifest, report>>
  BY <1>1 DEF filesVars
<1>3. RunKept(run[r], report)
  BY <1>1, <1>2 DEF OneRunEach
<1>4. DOMAIN new = HashedNames(r) \cup DOMAIN run[r].entries
  BY <1>1 DEF Put
<1>5. \A n \in DOMAIN new :
        new[n] = IF n \in HashedNames(r) THEN Entry(wrote.passed, wrote) ELSE run[r].entries[n]
  BY <1>1, <1>2 DEF Put
<1>6. Says(run[r], name, wrote.passed, wrote)
  BY <1>1, <1>3 DEF RunKept
<1>7. \A n \in HashedNames(r) : Says(run[r], n, wrote.passed, wrote)
  BY <1>6, NamesApart DEF HashedNames, Says, ContentOf, CrossDomain, Environment
<1>8. ASSUME NEW n \in DOMAIN new \ {FiveDomain}
      PROVE  Says(run[r], n, new[n].passed, new[n].content)
  <2>1. CASE n \in HashedNames(r)
    <3>1. new[n].passed = wrote.passed /\ new[n].content = wrote
      BY <1>5, <2>1 DEF Entry
    <3> QED
      BY <1>7, <2>1, <3>1
  <2>2. CASE n \notin HashedNames(r)
    <3>1. n \in DOMAIN run[r].entries \ {FiveDomain} /\ new[n] = run[r].entries[n]
      BY <1>4, <1>5, <2>2
    <3> QED
      BY <1>3, <3>1 DEF RunKept, About
  <2> QED
    BY <2>1, <2>2
<1>9. name \in Planned(run[r])
  BY <1>1, HashTyped
<1>10. About(run[r], new)
  <2>1. DOMAIN new \subseteq Planned(run[r]) \cup {CrossDomain, FiveDomain}
    BY <1>3, <1>4, <1>9 DEF RunKept, About, HashedNames
  <2> QED
    BY <1>8, <2>1 DEF About
<1>11. About(run'[r], run'[r].entries)
  BY <1>1, <1>10, AboutStays DEF Keeps
<1>12. Reported(run'[r], report')
  BY <1>1, <1>2, <1>3 DEF RunKept, Reported, Keeps
<1> QED
  BY <1>1, <1>2, <1>11, <1>12, OneRunByRun DEF RunKept

\* A manifest is replaced with entries about the run that is done with it.
LEMMA OneRunPublish ==
  ASSUME Typed, RunsPlan, [Next]_vars, OneRunEach, ~raced', NEW r \in Runs, WriteManifest(r)
  PROVE  OneRunEach'
<1>1. /\ run[r].at = "write" /\ run'[r].at = "done" /\ OthersStay(r) /\ Keeps(r)
      /\ manifest' = [manifest EXCEPT ![run[r].profile] =
                        [revision |-> run[r].revision, entries |-> run[r].entries]]
      /\ UNCHANGED <<topologyVars, catalog, evidence, report, fmi, boundVars>>
  BY Publishes
<1>2. ~raced /\ ManifestsKept /\ RunKept(run[r], report)
  BY <1>1 DEF boundVars, OneRunEach
<1>3. run[r].profile \in Profiles
  BY <1>1 DEF RunsPlan
<1>4. ManifestOf(run', report', run[r].profile, manifest'[run[r].profile])
  <2>1. /\ manifest'[run[r].profile].revision = run[r].revision
        /\ manifest'[run[r].profile].entries = run[r].entries
    BY <1>1, <1>3 DEF Typed
  <2>2. About(run'[r], run[r].entries) /\ Reported(run'[r], report')
    BY <1>1, <1>2, AboutStays DEF RunKept, Reported, Keeps
  <2> QED
    BY <1>1, <2>1, <2>2 DEF ManifestOf, Keeps
<1>5. ASSUME NEW p \in Profiles, manifest'[p] # NoManifest
      PROVE  ManifestOf(run', report', p, manifest'[p])
  <2>1. CASE p = run[r].profile
    BY <1>4, <2>1
  <2>2. CASE p # run[r].profile
    <3>1. manifest'[p] = manifest[p]
      BY <1>1, <2>2 DEF Typed
    <3> QED
      BY <1>2, <1>5, <3>1, ManifestStays DEF ManifestsKept
  <2> QED
    BY <2>1, <2>2
<1>6. fmi'.at = "merge" => ManifestOf(run', report', "simulation", fmi'.manifest)
  BY <1>1, <1>2, ManifestStays DEF ManifestsKept
<1>7. ASSUME NEW q \in Runs, run'[q].at \in {"write", "hash"}
      PROVE  RunKept(run'[q], report')
  <2>1. q # r /\ run'[q] = run[q]
    BY <1>1, <1>7 DEF OthersStay
  <2> QED
    BY <1>1, <1>2, <1>7, <2>1 DEF OneRunEach
<1> QED
  BY <1>5, <1>6, <1>7 DEF OneRunEach, ManifestsKept

\* The FMI script writes back what it read, with its own entry.
LEMMA OneRunFmi ==
  ASSUME Typed, [Next]_vars, OneRunEach, ~raced', FmiStep
  PROVE  OneRunEach'
<1>1. UNCHANGED <<run, report, raced>>
  BY DEF FmiStep, FmiStarts, FmiSearches, FmiExports, FmiRefused, FmiSimulates,
     FmiFails, FmiLoads, FmiMissesManifest, FmiMerges, FmiUnchanged, filesVars, boundVars
<1>2. ~raced /\ ManifestsKept
  BY <1>1 DEF OneRunEach
<1>3. \A q \in Runs : run'[q].at \in {"write", "hash"} => RunKept(run'[q], report')
  BY <1>1, <1>2 DEF OneRunEach
<1>4. ASSUME \A p \in Profiles : manifest'[p] # NoManifest =>
               ManifestOf(run, report, p, manifest'[p]),
             fmi'.at = "merge" => ManifestOf(run, report, "simulation", fmi'.manifest)
      PROVE  OneRunEach'
  BY <1>1, <1>3, <1>4 DEF OneRunEach, ManifestsKept
<1>5. ASSUME FmiEnds PROVE fmi'.at # "merge"
  BY <1>5 DEF FmiEnds, Typed, FmiRecords
<1>6. CASE FmiStarts \/ FmiExports \/ FmiSimulates
  <2>1. fmi'.at # "merge" /\ manifest' = manifest
    BY <1>6 DEF FmiStarts, FmiExports, FmiSimulates, FmiUnchanged, filesVars, Typed, FmiRecords
  <2> QED
    BY <1>2, <1>4, <2>1 DEF ManifestsKept
<1>7. CASE FmiSearches
  BY <1>2, <1>4, <1>7 DEF FmiSearches, FmiUnchanged, filesVars, ManifestsKept
<1>8. CASE FmiRefused \/ FmiFails \/ FmiMissesManifest
  <2>1. fmi'.at # "merge" /\ manifest' = manifest
    BY <1>5, <1>8 DEF FmiRefused, FmiFails, FmiMissesManifest, FmiUnchanged, filesVars
  <2> QED
    BY <1>2, <1>4, <2>1 DEF ManifestsKept
<1>9. CASE FmiLoads
  <2>1. /\ manifest["simulation"] # NoManifest /\ manifest' = manifest
        /\ fmi'.manifest = manifest["simulation"]
    BY <1>9 DEF FmiLoads, FmiUnchanged, filesVars, Typed, FmiRecords
  <2>2. "simulation" \in Profiles
    BY DEF Profiles
  <2> QED
    BY <1>2, <1>4, <2>1, <2>2 DEF ManifestsKept
<1>10. CASE FmiMerges
  <2> DEFINE new == Put({FiveDomain}, Entry(TRUE, fmi.hash), fmi.manifest.entries)
  <2>1. /\ fmi.at = "merge" /\ fmi'.at # "merge"
        /\ manifest' = [manifest EXCEPT !["simulation"] =
                          [revision |-> fmi.manifest.revision, entries |-> new]]
    BY <1>5, <1>10 DEF FmiMerges
  <2>2. DOMAIN new = {FiveDomain} \cup DOMAIN fmi.manifest.entries
    BY DEF Put
  <2>3. \A n \in DOMAIN new \ {FiveDomain} : new[n] = fmi.manifest.entries[n]
    BY DEF Put
  <2>4. PICK r \in Runs :
          /\ run[r].at = "done" /\ run[r].profile = "simulation" /\ Reported(run[r], report)
          /\ fmi.manifest.revision = run[r].revision
          /\ About(run[r], fmi.manifest.entries)
    BY <1>2, <2>1 DEF ManifestsKept, ManifestOf
  <2> HIDE DEF new
  <2>5. About(run[r], new)
    <3>1. DOMAIN new \subseteq Planned(run[r]) \cup {CrossDomain, FiveDomain}
      BY <2>2, <2>4 DEF About
    <3>2. \A n \in DOMAIN new \ {FiveDomain} : n \in DOMAIN fmi.manifest.entries \ {FiveDomain}
      BY <2>2
    <3>3. \A n \in DOMAIN new \ {FiveDomain} : Says(run[r], n, new[n].passed, new[n].content)
      BY <2>3, <2>4, <3>2 DEF About
    <3> QED
      BY <3>1, <3>3 DEF About
  <2>6. /\ manifest'["simulation"].revision = fmi.manifest.revision
        /\ manifest'["simulation"].entries = new
        /\ \A p \in Profiles : p # "simulation" => manifest'[p] = manifest[p]
    BY <2>1 DEF Typed, Profiles
  <2>7. ManifestOf(run, report, "simulation", manifest'["simulation"])
    BY <2>4, <2>5, <2>6 DEF ManifestOf
  <2>8. \A p \in Profiles : manifest'[p] # NoManifest =>
          ManifestOf(run, report, p, manifest'[p])
    BY <1>2, <2>6, <2>7 DEF ManifestsKept
  <2> QED
    BY <1>4, <2>1, <2>8
<1> QED
  BY <1>6, <1>7, <1>8, <1>9, <1>10 DEF FmiStep

\* Every step keeps entries about one run.
LEMMA OneRunStep ==
  ASSUME Typed, RunsPlan, OneRunEach, [Next]_vars
  PROVE  OneRunEach'
<1> SUFFICES ASSUME ~raced' PROVE OneRunEach'
  BY DEF OneRunEach
<1>1. CASE \E r \in Runs, revision \in Revisions :
             BeginBenchmarks(r, revision) \/ BeginSoftware(r, revision)
  BY <1>1, OneRunBegin
<1>2. ASSUME NEW r \in Runs, CutShort(r) PROVE OneRunEach'
  <2>1. OthersStay(r) /\ run'[r].at = "stopped" /\ UNCHANGED <<manifest, fmi>>
    BY <1>2, Stops DEF filesVars
  <2> QED
    BY <2>1, OneRunByRun
<1>3. CASE \E r \in Runs :
             WriteEvidence(r) \/ HashEvidence(r) \/ WriteManifest(r) \/ CutShort(r)
  BY <1>2, <1>3, OneRunWrite, OneRunHash, OneRunPublish
<1>4. CASE FmiStep
  BY <1>4, OneRunFmi
<1>5. CASE BreakCatalog \/ ComposeReport \/ UNCHANGED vars
  <2>1. UNCHANGED <<run, manifest, fmi, raced>>
    BY <1>5 DEF BreakCatalog, ComposeReport, vars, filesVars, boundVars
  <2>2. ~raced /\ report \in Nat /\ report' \in Nat /\ report <= report'
    BY <2>1, DoneStays DEF Typed
  <2>3. ASSUME NEW q \in Runs, run'[q].at \in {"write", "hash"}
        PROVE  RunKept(run'[q], report')
    <3>1. run'[q] = run[q] /\ RunKept(run[q], report)
      BY <2>1, <2>2, <2>3 DEF OneRunEach
    <3>2. Reported(run[q], report')
      BY <2>2, <3>1, ReportedStays DEF RunKept
    <3> QED
      BY <3>1, <3>2 DEF RunKept
  <2>4. ManifestsKept
    BY <2>2 DEF OneRunEach
  <2>5. /\ \A p \in Profiles : manifest'[p] # NoManifest =>
             ManifestOf(run', report', p, manifest'[p])
        /\ fmi'.at = "merge" => ManifestOf(run', report', "simulation", fmi'.manifest)
    BY <2>1, <2>4, ManifestStays DEF ManifestsKept
  <2> QED
    BY <2>3, <2>5 DEF OneRunEach, ManifestsKept
<1> QED
  BY <1>1, <1>3, <1>4, <1>5 DEF Next, FmiStep

------------------------------------------------------------------------------
(* The search for loops, and what the FMI script says.                       *)

\* A step of a run leaves the search and the FMI script alone, of the manifests it writes
\* only what it has, and no evidence of the FMI script.
LEMMA RunsLeaveFmi ==
  ASSUME Typed, RunsPlan, NEW r \in Runs,
         \/ \E revision \in Revisions :
              BeginBenchmarks(r, revision) \/ BeginSoftware(r, revision)
         \/ WriteEvidence(r) \/ HashEvidence(r) \/ WriteManifest(r) \/ CutShort(r)
  PROVE  /\ UNCHANGED topologyVars /\ fmi' = fmi
         /\ evidence'[FiveDomain] = evidence[FiveDomain]
         /\ \/ manifest'["simulation"] = manifest["simulation"]
            \/ FiveDomain \notin DOMAIN manifest'["simulation"].entries
<1>1. ASSUME NEW profile, NEW revision \in Revisions, NEW todo, NEW full, NEW about,
             Begin(r, profile, revision, todo, full, about)
      PROVE  UNCHANGED <<topologyVars, fmi, evidence, manifest>>
  BY <1>1 DEF Begin, filesVars
<1>2. CASE \E revision \in Revisions :
             BeginBenchmarks(r, revision) \/ BeginSoftware(r, revision)
  <2>1. \E profile, todo, full, about : \E revision \in Revisions :
           Begin(r, profile, revision, todo, full, about)
    BY <1>2 DEF BeginBenchmarks, BeginSoftware
  <2>2. UNCHANGED <<topologyVars, fmi, evidence, manifest>>
    BY <1>1, <2>1
  <2> QED
    BY <2>2
<1>3. CASE WriteEvidence(r)
  <2>1. /\ run[r].at = "write" /\ run[r].todo # <<>>
        /\ UNCHANGED <<topologyVars, catalog, manifest, report, fmi, raced>>
        /\ \E content : evidence' = [evidence EXCEPT ![File(r)] = content]
    BY <1>3 DEF WriteEvidence
  <2>2. File(r) # FiveDomain
    BY <2>1, FileTyped DEF RunsPlan
  <2>3. evidence'[FiveDomain] = evidence[FiveDomain]
    BY <2>1, <2>2, FilesApart DEF Typed
  <2> QED
    BY <2>1, <2>3
<1>4. CASE HashEvidence(r) \/ CutShort(r)
  BY <1>4 DEF HashEvidence, CutShort, filesVars
<1>5. CASE WriteManifest(r)
  <2>1. /\ run[r].at = "write"
        /\ manifest' = [manifest EXCEPT ![run[r].profile] =
                          [revision |-> run[r].revision, entries |-> run[r].entries]]
        /\ UNCHANGED <<topologyVars, catalog, evidence, report, fmi, boundVars>>
    BY <1>5 DEF WriteManifest
  <2>2. FiveDomain \notin DOMAIN run[r].entries
    BY <2>1 DEF RunsPlan
  <2>3. \/ manifest'["simulation"] = manifest["simulation"]
        \/ manifest'["simulation"].entries = run[r].entries
    BY <2>1 DEF Typed, Profiles
  <2> QED
    BY <2>1, <2>2, <2>3
<1> QED
  BY <1>2, <1>3, <1>4, <1>5

\* The search keeps its invariant, and the FMI script starts anew.
LEMMA SearchKept ==
  ASSUME Typed, RunsPlan, SearchInv, [Next]_vars
  PROVE  SearchInv' /\ system' = system
<1>1. ASSUME [Search]_topologyVars PROVE SearchInv' /\ system' = system
  <2>1. SearchInv'
    BY <1>1, SearchStepOK
  <2>2. system' = system
    BY <1>1 DEF Search, VisitRoot, VisitTarget, Return, ReturnEarly, Accept, topologyVars
  <2> QED
    BY <2>1, <2>2
<1>2. ASSUME ForgetSearch PROVE SearchInv' /\ system' = system
  BY <1>2 DEF ForgetSearch, SearchInv, SearchTypeOK, PathFresh, PathConnected,
     VisitedClosed, VisitedLoopFree, LoopsDecided
<1>3. CASE \E r \in Runs, revision \in Revisions :
             BeginBenchmarks(r, revision) \/ BeginSoftware(r, revision)
  BY <1>1, <1>3, RunsLeaveFmi
<1>4. CASE \E r \in Runs :
             WriteEvidence(r) \/ HashEvidence(r) \/ WriteManifest(r) \/ CutShort(r)
  BY <1>1, <1>4, RunsLeaveFmi
<1>5. CASE FmiSearches \/ FmiExports \/ FmiRefused
  BY <1>1, <1>2, <1>5 DEF FmiSearches, FmiExports, FmiRefused
<1>6. CASE FmiStarts \/ FmiSimulates \/ FmiFails \/ FmiLoads \/ FmiMissesManifest \/ FmiMerges
  BY <1>1, <1>6 DEF FmiStarts, FmiSimulates, FmiFails, FmiLoads, FmiMissesManifest, FmiMerges
<1>7. CASE BreakCatalog \/ ComposeReport \/ UNCHANGED vars
  BY <1>1, <1>7 DEF BreakCatalog, ComposeReport, vars
<1> QED
  BY <1>3, <1>4, <1>5, <1>6, <1>7 DEF Next

\* Where the FMI script is after its steps, and which files it leaves alone.
LEMMA FmiSteps ==
  ASSUME Typed
  PROVE  /\ FmiEnds => fmi'.at = "idle"
         /\ FmiStarts => fmi'.at = "export" /\ UNCHANGED <<evidence, manifest>>
         /\ FmiSearches => fmi' = fmi /\ UNCHANGED <<evidence, manifest>>
         /\ FmiExports => fmi'.at = "simulate" /\ UNCHANGED <<evidence, manifest>>
         /\ FmiRefused \/ FmiFails \/ FmiMissesManifest =>
              fmi'.at = "idle" /\ UNCHANGED <<evidence, manifest>>
         /\ FmiSimulates => fmi.at = "simulate" /\ fmi'.at = "load" /\ manifest' = manifest
         /\ FmiLoads =>
              /\ fmi.at = "load" /\ fmi'.at = "merge" /\ UNCHANGED <<evidence, manifest>>
              /\ fmi'.manifest = manifest["simulation"] /\ fmi'.hash = evidence[FiveDomain]
              /\ manifest["simulation"] # NoManifest
         /\ FmiMerges => fmi.at = "merge" /\ fmi'.at = "idle" /\ evidence' = evidence
<1>1. FmiEnds => fmi'.at = "idle"
  BY DEF FmiEnds, Typed, FmiRecords
<1>2. FmiStarts => fmi'.at = "export" /\ UNCHANGED <<evidence, manifest>>
  BY DEF FmiStarts, FmiUnchanged, filesVars, Typed, FmiRecords
<1>3. FmiSearches => fmi' = fmi /\ UNCHANGED <<evidence, manifest>>
  BY DEF FmiSearches, FmiUnchanged, filesVars
<1>4. FmiExports => fmi'.at = "simulate" /\ UNCHANGED <<evidence, manifest>>
  BY DEF FmiExports, FmiUnchanged, filesVars, Typed, FmiRecords
<1>5. FmiRefused \/ FmiFails \/ FmiMissesManifest =>
        fmi'.at = "idle" /\ UNCHANGED <<evidence, manifest>>
  BY <1>1 DEF FmiRefused, FmiFails, FmiMissesManifest, FmiUnchanged, filesVars
<1>6. FmiSimulates => fmi.at = "simulate" /\ fmi'.at = "load" /\ manifest' = manifest
  BY DEF FmiSimulates, Typed, FmiRecords
<1>7. FmiLoads =>
        /\ fmi.at = "load" /\ fmi'.at = "merge" /\ UNCHANGED <<evidence, manifest>>
        /\ fmi'.manifest = manifest["simulation"] /\ fmi'.hash = evidence[FiveDomain]
        /\ manifest["simulation"] # NoManifest
  BY DEF FmiLoads, FmiUnchanged, filesVars, Typed, FmiRecords
<1>8. FmiMerges => fmi.at = "merge" /\ fmi'.at = "idle" /\ evidence' = evidence
  BY <1>1 DEF FmiMerges
<1> QED
  BY <1>1, <1>2, <1>3, <1>4, <1>5, <1>6, <1>7, <1>8

\* What the FMI script merges.
LEMMA Merged ==
  ASSUME Typed, FmiMerges
  PROVE  LET m == manifest'["simulation"]
         IN  /\ m.revision = fmi.manifest.revision
             /\ DOMAIN m.entries = {FiveDomain} \cup DOMAIN fmi.manifest.entries
             /\ m.entries[FiveDomain] = Entry(TRUE, fmi.hash)
             /\ \A n \in DOMAIN m.entries \ {FiveDomain} :
                  m.entries[n] = fmi.manifest.entries[n]
<1> DEFINE new == Put({FiveDomain}, Entry(TRUE, fmi.hash), fmi.manifest.entries)
<1>1. manifest' = [manifest EXCEPT !["simulation"] =
                     [revision |-> fmi.manifest.revision, entries |-> new]]
  BY DEF FmiMerges
<1>2. /\ DOMAIN new = {FiveDomain} \cup DOMAIN fmi.manifest.entries
      /\ new[FiveDomain] = Entry(TRUE, fmi.hash)
      /\ \A n \in DOMAIN new \ {FiveDomain} : new[n] = fmi.manifest.entries[n]
  BY DEF Put
<1> HIDE DEF new
<1>3. /\ manifest'["simulation"].revision = fmi.manifest.revision
      /\ manifest'["simulation"].entries = new
  BY <1>1 DEF Typed, Profiles
<1> QED
  BY <1>2, <1>3

\* Every step keeps what the FMI script says true.
LEMMA FmiKeptStep ==
  ASSUME Typed, RunsPlan, SearchInv, FmiKept, [Next]_vars
  PROVE  FmiKept'
<1>1. system' = system
  BY SearchKept
<1>2. ASSUME fmi' = fmi, evidence'[FiveDomain] = evidence[FiveDomain],
             \/ manifest'["simulation"] = manifest["simulation"]
             \/ FiveDomain \notin DOMAIN manifest'["simulation"].entries
      PROVE  FmiKept'
  BY <1>1, <1>2 DEF FmiKept
<1>3. ASSUME NEW r \in Runs,
             \/ \E revision \in Revisions :
                  BeginBenchmarks(r, revision) \/ BeginSoftware(r, revision)
             \/ WriteEvidence(r) \/ HashEvidence(r) \/ WriteManifest(r) \/ CutShort(r)
      PROVE  FmiKept'
  BY <1>2, <1>3, RunsLeaveFmi
<1>4. CASE FmiStarts \/ FmiSearches \/ FmiRefused \/ FmiFails \/ FmiMissesManifest
  <2>1. UNCHANGED <<evidence, manifest>> /\ (fmi' = fmi \/ fmi'.at \in {"idle", "export"})
    BY <1>4, FmiSteps
  <2> QED
    BY <1>1, <2>1 DEF FmiKept
<1>5. CASE FmiExports
  <2>1. LoopFree(system)
    BY <1>5 DEF FmiExports, SearchInv, LoopsDecided
  <2>2. UNCHANGED <<evidence, manifest>> /\ fmi'.at = "simulate"
    BY <1>5, FmiSteps
  <2> QED
    BY <1>1, <2>1, <2>2 DEF FmiKept
<1>6. CASE FmiSimulates
  <2>1. fmi.at = "simulate" /\ fmi'.at = "load" /\ manifest' = manifest
    BY <1>6, FmiSteps
  <2>2. evidence'[FiveDomain].passed
    BY <1>6, FilesApart DEF FmiSimulates, Typed
  <2> QED
    BY <1>1, <2>1, <2>2 DEF FmiKept
<1>7. CASE FmiLoads
  <2>1. /\ fmi.at = "load" /\ fmi'.at = "merge" /\ UNCHANGED <<evidence, manifest>>
        /\ fmi'.hash = evidence[FiveDomain]
    BY <1>7, FmiSteps
  <2> QED
    BY <1>1, <2>1 DEF FmiKept
<1>8. CASE FmiMerges
  <2>1. fmi.at = "merge" /\ fmi'.at = "idle"
    BY <1>8, FmiSteps
  <2>2. manifest'["simulation"].entries[FiveDomain].content = fmi.hash
    BY <1>8, Merged DEF Entry
  <2>3. LoopFree(system) /\ fmi.hash.passed
    BY <2>1 DEF FmiKept
  <2> QED
    BY <1>1, <2>1, <2>2, <2>3 DEF FmiKept
<1>9. CASE BreakCatalog \/ ComposeReport \/ UNCHANGED vars
  BY <1>2, <1>9 DEF BreakCatalog, ComposeReport, vars, filesVars
<1> QED
  BY <1>3, <1>4, <1>5, <1>6, <1>7, <1>8, <1>9 DEF Next

------------------------------------------------------------------------------
(* A gate that is open was earned.                                           *)

EarnedInv == Typed /\ RunsPlan /\ SearchInv /\ FmiKept /\ OneRunEach

\* At first nothing is written.
LEMMA EarnedInit == Init => EarnedInv
<1> SUFFICES ASSUME Init PROVE EarnedInv
  OBVIOUS
<1>1. Typed
  BY TypedInit
<1>2. SearchInv
  BY SearchInitOK DEF Init
<1>3. \A r \in Runs : run[r].at = "unborn"
  BY DEF Init, NewRun
<1>4. fmi.at = "idle" /\ manifest["simulation"] = NoManifest
  BY DEF Init, Profiles
<1>5. \A p \in Profiles : manifest[p] = NoManifest
  BY DEF Init
<1>6. RunsPlan /\ OneRunEach
  BY <1>3, <1>4, <1>5 DEF RunsPlan, OneRunEach, ManifestsKept
<1>7. FmiKept
  BY <1>4, EmptyMap DEF FmiKept, NoManifest
<1> QED
  BY <1>1, <1>2, <1>6, <1>7 DEF EarnedInv

\* Every step of a run, of the FMI script and of the users preserves it.
LEMMA EarnedStep == EarnedInv /\ [Next]_vars => EarnedInv'
BY TypedStep, PlanStep, SearchKept, FmiKeptStep, OneRunStep DEF EarnedInv

\* The gate of the benchmarks.
LEMMA SimulationGate ==
  ASSUME EarnedInv, ~raced, Ready("simulation")
  PROVE  SimulationEarned
<1> DEFINE m == manifest["simulation"]
<1>1. /\ m # NoManifest /\ "simulation" \in Profiles
      /\ \A name \in Expected("simulation") : EntryHolds("simulation", name)
  BY DEF Ready, ManifestHolds, Profiles
<1>2. PICK r \in Runs :
        /\ run[r].at = "done" /\ run[r].profile = "simulation" /\ Reported(run[r], report)
        /\ m.revision = run[r].revision
        /\ About(run[r], m.entries)
  BY <1>1 DEF EarnedInv, OneRunEach, ManifestsKept, ManifestOf
<1>3. \A name \in Range(SimulationOrder) \cup {CrossDomain, FiveDomain} :
        /\ name \in DOMAIN m.entries /\ m.entries[name].passed
        /\ evidence[FileOf("simulation", name)] = m.entries[name].content
  BY <1>1 DEF Expected, EntryHolds
<1>4. m.entries \in EntryMaps
  BY <1>1 DEF EarnedInv, Typed, Manifests
<1>5. \A name \in DOMAIN m.entries : m.entries[name].passed \in BOOLEAN
  BY <1>4, EntryOf DEF Entries
<1>6. ASSUME NEW name \in Range(SimulationOrder)
      PROVE  Says(run[r], name, TRUE, evidence[FileOf("simulation", name)])
  <2>1. name \in DOMAIN m.entries /\ m.entries[name].passed = TRUE
    BY <1>3, <1>5
  <2>2. name # FiveDomain
    BY NamesApart
  <2>3. Says(run[r], name, m.entries[name].passed, m.entries[name].content)
    BY <1>2, <2>1, <2>2 DEF About
  <2> QED
    BY <1>3, <2>1, <2>3
<1>7. \A name \in Range(SimulationOrder) :
        evidence[FileOf("simulation", name)] = Content(r, name, TRUE)
  <2>1. ASSUME NEW name \in Range(SimulationOrder)
        PROVE  evidence[FileOf("simulation", name)] = Content(r, name, TRUE)
    <3>1. evidence[FileOf("simulation", name)] = ContentOf(run[r], name, TRUE)
      BY <1>6 DEF Says
    <3> QED
      BY <3>1, ContentIs
  <2> QED
    BY <2>1
<1>8. Environment \in Range(SimulationOrder)
  BY NamesApart
<1>9. run[r].revision # WorkingTree
  BY <1>2, <1>6, <1>8 DEF Says
<1>10. run[r].full
  <2>1. Environment \in Planned(run[r])
    BY <1>2, <1>3, <1>8 DEF About, Environment, CrossDomain, FiveDomain
  <2>2. Environment \notin Range(CaseOrder)
    BY NamesAssumption
  <2> QED
    BY <1>2, <2>1, <2>2 DEF Planned
<1>11. evidence[FiveDomain].passed /\ LoopFree(system)
  <2>1. /\ FiveDomain \in DOMAIN m.entries
        /\ evidence[FiveDomain] = m.entries[FiveDomain].content
    BY <1>3, FilesApart
  <2> QED
    BY <2>1 DEF EarnedInv, FmiKept
<1> QED
  BY <1>2, <1>7, <1>9, <1>10, <1>11 DEF SimulationEarned

\* The gate of the software.
LEMMA SoftwareGate ==
  ASSUME EarnedInv, ~raced, Ready("software")
  PROVE  SoftwareEarned
<1> DEFINE m == manifest["software"]
<1>1. /\ m # NoManifest /\ "software" \in Profiles
      /\ \A name \in Expected("software") : EntryHolds("software", name)
  BY DEF Ready, ManifestHolds, Profiles
<1>2. PICK r \in Runs :
        /\ run[r].at = "done" /\ run[r].profile = "software" /\ Reported(run[r], report)
        /\ m.revision = run[r].revision
        /\ About(run[r], m.entries)
  BY <1>1 DEF EarnedInv, OneRunEach, ManifestsKept, ManifestOf
<1>3. \A name \in Range(SoftwareOrder) :
        /\ name \in DOMAIN m.entries
        /\ evidence[FileOf("software", name)] = m.entries[name].content
  BY <1>1 DEF Expected, EntryHolds
<1>4. run[r].about \in 1..report
  BY <1>2 DEF Reported
<1>5. ASSUME NEW name \in Range(SoftwareOrder)
      PROVE  evidence[FileOf("software", name)].by = run[r].about
  <2>1. Says(run[r], name, m.entries[name].passed, m.entries[name].content)
    BY <1>2, <1>3, NamesApart DEF About
  <2>2. m.entries[name].content.by = run[r].about
    BY <1>2, <2>1 DEF Says, ContentOf
  <2> QED
    BY <1>3, <2>2
<1> QED
  BY <1>4, <1>5 DEF SoftwareEarned

\* Whatever runs overlap, are cut short or fail, and whichever manifest the FMI script
\* writes back: an open gate was earned by one complete run.
THEOREM GateIsEarned == Spec => []ReadyIsEarned
<1>1. EarnedInv => ReadyIsEarned
  BY SimulationGate, SoftwareGate DEF ReadyIsEarned
<1>2. Spec => []EarnedInv
  BY EarnedInit, EarnedStep, PTL DEF Spec
<1> QED
  BY <1>1, <1>2, PTL

\* The loops of an export are decided rightly there too.
THEOREM ExportDecided == Spec => []LoopsDecided
<1>1. EarnedInv => LoopsDecided
  BY DEF EarnedInv, SearchInv
<1>2. Spec => []EarnedInv
  BY EarnedInit, EarnedStep, PTL DEF Spec
<1> QED
  BY <1>1, <1>2, PTL

------------------------------------------------------------------------------
(* A run that is left alone ends with an open gate.                          *)

\* Manifests and fresh runs.
LEMMA WrittenStep ==
  ASSUME Typed, RunsPlan, ManifestsWritten, [Next]_vars
  PROVE  ManifestsWritten'
<1>1. ASSUME \E r \in Runs : run[r].at = "done"
      PROVE  ManifestsWritten'
  BY <1>1, DoneStays DEF ManifestsWritten
<1>2. ASSUME UNCHANGED <<fmi, manifest>>
      PROVE  ManifestsWritten'
  BY <1>1, <1>2 DEF ManifestsWritten
<1>3. CASE \E r \in Runs, revision \in Revisions :
             BeginBenchmarks(r, revision) \/ BeginSoftware(r, revision)
  <2>1. UNCHANGED <<fmi, manifest>>
    BY <1>3 DEF BeginBenchmarks, BeginSoftware, Begin, filesVars
  <2> QED
    BY <1>2, <2>1
<1>4. ASSUME NEW r \in Runs, WriteEvidence(r) \/ HashEvidence(r) \/ CutShort(r)
      PROVE  ManifestsWritten'
  BY <1>2, <1>4 DEF WriteEvidence, HashEvidence, CutShort, filesVars
<1>5. ASSUME NEW r \in Runs, WriteManifest(r) PROVE ManifestsWritten'
  BY <1>5, Publishes DEF ManifestsWritten
<1>6. CASE FmiStarts \/ FmiSearches \/ FmiExports \/ FmiRefused \/ FmiSimulates \/ FmiFails
             \/ FmiMissesManifest
  <2>1. manifest' = manifest /\ (fmi' = fmi \/ fmi'.at # "merge")
    BY <1>6, FmiSteps
  <2> QED
    BY <1>1, <1>2, <2>1 DEF ManifestsWritten
<1>7. CASE FmiLoads \/ FmiMerges
  BY <1>1, <1>7, FmiSteps DEF ManifestsWritten
<1>8. CASE BreakCatalog \/ ComposeReport \/ UNCHANGED vars
  BY <1>2, <1>8 DEF BreakCatalog, ComposeReport, vars, filesVars
<1> QED
  BY <1>3, <1>4, <1>5, <1>6, <1>7, <1>8 DEF Next

\* The state of a run that AloneKept speaks of stays passing while its files do.
LEMMA PassingStays ==
  ASSUME NEW x, NEW y, NEW files, NEW later, NEW entries, Passing(x, files, entries),
         y.profile = x.profile, y.revision = x.revision, y.about = x.about,
         \A n \in Range(SimulationOrder) \cup {CrossDomain} :
           \/ later[FileOf("simulation", n)] = files[FileOf("simulation", n)]
           \/ later[FileOf("simulation", n)] = ContentOf(y, n, TRUE)
  PROVE  Passing(y, later, entries)
<1>1. \A n : ContentOf(y, n, TRUE) = ContentOf(x, n, TRUE)
  BY DEF ContentOf
<1>2. \A n \in DOMAIN entries \ {FiveDomain} :
        /\ n \in Range(SimulationOrder) \cup {CrossDomain}
        /\ entries[n] = Entry(TRUE, ContentOf(x, n, TRUE))
        /\ files[FileOf("simulation", n)] = ContentOf(x, n, TRUE)
  BY DEF Passing
<1>3. /\ DOMAIN entries \subseteq Range(SimulationOrder) \cup {CrossDomain, FiveDomain}
      /\ LastCase \in DOMAIN entries => CrossDomain \in DOMAIN entries
  BY DEF Passing
<1>4. \A n \in DOMAIN entries \ {FiveDomain} :
        /\ entries[n] = Entry(TRUE, ContentOf(y, n, TRUE))
        /\ later[FileOf("simulation", n)] = ContentOf(y, n, TRUE)
  BY <1>1, <1>2
<1> QED
  BY <1>3, <1>4 DEF Passing

\* The entry a run has come to.
LEMMA NextInPlan ==
  ASSUME NEW x, x.todo \in Seq(Names), x.todo # <<>>, InPlan(x)
  PROVE  /\ Ahead(x) + 1 \in 1..Len(SimulationOrder)
         /\ Head(x.todo) = SimulationOrder[Ahead(x) + 1]
         /\ Head(x.todo) \in Range(SimulationOrder)
<1>1. Len(SimulationOrder) \in Nat /\ DOMAIN SimulationOrder = 1..Len(SimulationOrder)
  BY NamesApart, LenProperties
<1>2. Len(x.todo) \in Nat \ {0} /\ Head(x.todo) = x.todo[1] /\ 1 \in DOMAIN x.todo
  BY HeadTailProperties, EmptySeq
<1>3. Ahead(x) + 1 \in 1..Len(SimulationOrder)
  BY <1>1, <1>2 DEF Ahead, InPlan
<1>4. Head(x.todo) = SimulationOrder[Ahead(x) + 1]
  BY <1>2 DEF InPlan
<1> QED
  BY <1>1, <1>3, <1>4 DEF Range

\* No two names share a file but the last case and the cross-domain entry, and what is
\* written for these is the same.
LEMMA SharedFile ==
  ASSUME NEW x, NEW m \in Range(SimulationOrder) \cup {CrossDomain},
         NEW n \in Range(SimulationOrder), FileOf("simulation", m) = FileOf("simulation", n)
  PROVE  ContentOf(x, m, TRUE) = ContentOf(x, n, TRUE)
<1>1. m = n \/ (m = CrossDomain /\ n = LastCase)
  BY FilesApart
<1>2. LastCase # Environment /\ CrossDomain # Environment
  BY NamesApart DEF CrossDomain, Environment
<1> QED
  BY <1>1, <1>2 DEF ContentOf

\* Where all the cases of a backend passed, it passes; and a check that did not pass is
\* a fault.
LEMMA AlonePasses ==
  ASSUME Typed, RunsPlan, NEW r \in Runs, Alone(r), run[r].at = "write", run[r].todo # <<>>,
         Passing(run[r], evidence, run[r].entries), InPlan(run[r]),
         NEW passed \in Outcomes(r, Head(run[r].todo)),
         faults' = IF passed \/ TRUE \notin Outcomes(r, Head(run[r].todo))
                     THEN faults ELSE faults + 1,
         faults' = 0
  PROVE  passed = TRUE
<1> DEFINE name == Head(run[r].todo)
           place == Ahead(run[r]) + 1
<1>1. /\ place \in 1..Len(SimulationOrder) /\ name = SimulationOrder[place]
      /\ name \in Range(SimulationOrder)
  BY NextInPlan DEF Typed, RunRecords
<1>2. run[r].profile = "simulation" /\ run[r].revision # WorkingTree /\ faults = 0
  BY DEF Alone
<1>3. CASE name \in DOMAIN CasesOf
  <2>1. /\ DOMAIN CasesOf = Range(BackendOrder) /\ CasesOf[name] # {}
        /\ CasesOf[name] \subseteq Range(CaseOrder)
    BY <1>3, NamesAssumption
  <2>2. ASSUME NEW c \in CasesOf[name] PROVE Passed(r, c)
    <3>1. PICK j \in 1..(place - 1) : SimulationOrder[j] = c
      BY <1>1, <1>3, <2>1, CasesFirst
    <3>2. place - 1 = Ahead(run[r])
      BY DEF InPlan
    <3>3. c \in DOMAIN run[r].entries
      BY <3>1, <3>2 DEF InPlan
    <3>4. c \in Range(SimulationOrder) /\ c # FiveDomain
      BY <2>1, NamesApart
    <3>5. run[r].entries[c] = Entry(TRUE, ContentOf(run[r], c, TRUE))
      BY <3>3, <3>4 DEF Passing
    <3> QED
      BY <3>3, <3>5 DEF Passed, Entry
  <2>3. Outcomes(r, name) = {CasesOf[name] # {} /\ \A c \in CasesOf[name] : Passed(r, c)}
    BY <1>2, <1>3 DEF Outcomes
  <2> QED
    BY <2>1, <2>2, <2>3
<1>4. CASE name \notin DOMAIN CasesOf
  <2>1. Outcomes(r, name) = {TRUE, ~MayFail}
    BY <1>2, <1>4 DEF Outcomes
  <2>2. passed \in BOOLEAN /\ TRUE \in Outcomes(r, name)
    BY <2>1
  <2>3. CASE passed = FALSE
    <3>1. faults' = faults + 1
      BY <2>2, <2>3
    <3> QED
      BY <1>2, <3>1
  <2> QED
    BY <2>2, <2>3
<1> QED
  BY <1>3, <1>4

\* The steps of the run that is left alone.
LEMMA AloneWrites ==
  ASSUME Typed, RunsPlan, NEW r \in Runs, Alone(r), WriteEvidence(r), faults' = 0, NEW m,
         AloneKept(run[r], evidence, m)
  PROVE  AloneKept(run'[r], evidence', m)
<1> DEFINE name == Head(run[r].todo)
           written == ContentOf(run[r], name, TRUE)
<1>1. /\ run[r].at = "write" /\ run'[r].at = "hash" /\ Keeps(r) /\ run[r].todo # <<>>
      /\ run'[r].todo = run[r].todo /\ run'[r].entries = run[r].entries
  BY Writes
<1>2. PICK passed \in Outcomes(r, name) :
        /\ run'[r].wrote = Content(r, name, passed)
        /\ evidence' = [evidence EXCEPT ![File(r)] = Content(r, name, passed)]
        /\ faults' = IF passed \/ TRUE \notin Outcomes(r, name) THEN faults ELSE faults + 1
  BY Writes
<1>3. Passing(run[r], evidence, run[r].entries) /\ InPlan(run[r])
  BY <1>1 DEF AloneKept
<1>4. passed = TRUE
  BY <1>1, <1>2, <1>3, AlonePasses
<1>5. run'[r].wrote = written /\ evidence' = [evidence EXCEPT ![File(r)] = written]
  BY <1>2, <1>4, ContentIs
<1>6. /\ File(r) \in Files /\ File(r) = FileOf("simulation", name)
      /\ name \in Range(SimulationOrder)
  BY <1>1, <1>3, FileTyped, NextInPlan DEF RunsPlan, File, Alone, Typed, RunRecords
<1>7. \A n : ContentOf(run'[r], n, TRUE) = ContentOf(run[r], n, TRUE)
  BY <1>1 DEF ContentOf, Keeps
<1>8. ASSUME NEW n \in Range(SimulationOrder) \cup {CrossDomain}
      PROVE  \/ evidence'[FileOf("simulation", n)] = evidence[FileOf("simulation", n)]
             \/ evidence'[FileOf("simulation", n)] = ContentOf(run'[r], n, TRUE)
  <2>1. CASE FileOf("simulation", n) = FileOf("simulation", name)
    <3>1. ContentOf(run[r], n, TRUE) = written
      BY <1>6, <2>1, SharedFile
    <3>2. evidence'[File(r)] = written
      BY <1>5, <1>6 DEF Typed
    <3> QED
      BY <1>6, <1>7, <2>1, <3>1, <3>2
  <2>2. CASE FileOf("simulation", n) # FileOf("simulation", name)
    BY <1>5, <1>6, <2>2 DEF Typed
  <2> QED
    BY <2>1, <2>2
<1>9. Passing(run'[r], evidence', run'[r].entries)
  <2>2. Passing(run[r], evidence, run'[r].entries)
    BY <1>1, <1>3
  <2>3. \A n \in Range(SimulationOrder) \cup {CrossDomain} :
          \/ evidence'[FileOf("simulation", n)] = evidence[FileOf("simulation", n)]
          \/ evidence'[FileOf("simulation", n)] = ContentOf(run'[r], n, TRUE)
    BY <1>8
  <2>4. /\ DOMAIN run'[r].entries \subseteq Range(SimulationOrder) \cup {CrossDomain, FiveDomain}
        /\ LastCase \in DOMAIN run'[r].entries => CrossDomain \in DOMAIN run'[r].entries
        /\ \A n \in DOMAIN run'[r].entries \ {FiveDomain} :
             /\ run'[r].entries[n] = Entry(TRUE, ContentOf(run[r], n, TRUE))
             /\ evidence[FileOf("simulation", n)] = ContentOf(run[r], n, TRUE)
    BY <2>2 DEF Passing
  <2>5. ASSUME NEW n \in DOMAIN run'[r].entries \ {FiveDomain}
        PROVE  /\ run'[r].entries[n] = Entry(TRUE, ContentOf(run'[r], n, TRUE))
               /\ evidence'[FileOf("simulation", n)] = ContentOf(run'[r], n, TRUE)
    <3>1. n \in Range(SimulationOrder) \cup {CrossDomain}
      BY <2>4
    <3>2. ContentOf(run'[r], n, TRUE) = ContentOf(run[r], n, TRUE)
      BY <1>7
    <3> QED
      BY <2>3, <2>4, <3>1, <3>2
  <2> QED
    BY <2>4, <2>5 DEF Passing
<1>10. InPlan(run'[r])
  BY <1>1, <1>3 DEF InPlan, Ahead
<1>11. /\ run'[r].wrote = ContentOf(run'[r], Head(run'[r].todo), TRUE)
       /\ evidence'[FileOf("simulation", Head(run'[r].todo))] = run'[r].wrote
  BY <1>1, <1>5, <1>6, <1>7 DEF Typed
<1> QED
  BY <1>1, <1>9, <1>10, <1>11 DEF AloneKept

\* It puts in an entry that passed, and comes to the next.
LEMMA AloneHashes ==
  ASSUME Typed, RunsPlan, NEW r \in Runs, Alone(r), HashEvidence(r), NEW m,
         AloneKept(run[r], evidence, m)
  PROVE  AloneKept(run'[r], evidence', m)
<1> DEFINE name == Head(run[r].todo)
           wrote == run[r].wrote
           new == run'[r].entries
<1>1. /\ run[r].at = "hash" /\ run'[r].at = "write" /\ Keeps(r)
      /\ run'[r].todo = Tail(run[r].todo)
      /\ new = Put(HashedNames(r), Entry(wrote.passed, evidence[File(r)]), run[r].entries)
      /\ evidence' = evidence
  BY Hashes DEF filesVars
<1>2. /\ Passing(run[r], evidence, run[r].entries) /\ InPlan(run[r])
      /\ wrote = ContentOf(run[r], name, TRUE)
      /\ evidence[FileOf("simulation", name)] = wrote
  BY <1>1 DEF AloneKept
<1>3. run[r].todo # <<>> /\ run[r].todo \in Seq(Names) /\ run[r].profile = "simulation"
  BY <1>1 DEF RunsPlan, Typed, RunRecords, Alone
<1>4. /\ Ahead(run[r]) + 1 \in 1..Len(SimulationOrder) /\ name \in Range(SimulationOrder)
      /\ name = SimulationOrder[Ahead(run[r]) + 1]
  BY <1>2, <1>3, NextInPlan
<1>5. wrote.passed = TRUE /\ evidence[File(r)] = wrote
  BY <1>2, <1>3 DEF ContentOf, File
<1>6. DOMAIN new = HashedNames(r) \cup DOMAIN run[r].entries
  BY <1>1 DEF Put
<1>7. \A n \in DOMAIN new :
        new[n] = IF n \in HashedNames(r) THEN Entry(TRUE, wrote) ELSE run[r].entries[n]
  BY <1>1, <1>5 DEF Put
<1>8. LastCase # CrossDomain /\ LastCase # Environment /\ CrossDomain # Environment
  BY NamesApart DEF CrossDomain, Environment
<1>9. ASSUME NEW n \in HashedNames(r)
      PROVE  /\ ContentOf(run[r], n, TRUE) = wrote
             /\ FileOf("simulation", n) = FileOf("simulation", name)
  BY <1>2, <1>8 DEF HashedNames, ContentOf, FileOf
<1>10. HashedNames(r) \subseteq Range(SimulationOrder) \cup {CrossDomain}
  BY <1>4 DEF HashedNames
<1>11. Passing(run[r], evidence, new)
  <2>1. DOMAIN new \subseteq Range(SimulationOrder) \cup {CrossDomain, FiveDomain}
    BY <1>2, <1>6, <1>10 DEF Passing
  <2>2. ASSUME NEW n \in DOMAIN new \ {FiveDomain}
        PROVE  /\ new[n] = Entry(TRUE, ContentOf(run[r], n, TRUE))
               /\ evidence[FileOf("simulation", n)] = ContentOf(run[r], n, TRUE)
    <3>1. CASE n \in HashedNames(r)
      BY <1>2, <1>7, <1>9, <3>1
    <3>2. CASE n \notin HashedNames(r)
      <4>1. n \in DOMAIN run[r].entries \ {FiveDomain} /\ new[n] = run[r].entries[n]
        BY <1>6, <1>7, <3>2
      <4> QED
        BY <1>2, <4>1 DEF Passing
    <3> QED
      BY <3>1, <3>2
  <2>3. LastCase \in DOMAIN new => CrossDomain \in DOMAIN new
    BY <1>2, <1>6, <1>8 DEF Passing, HashedNames
  <2> QED
    BY <2>1, <2>2, <2>3 DEF Passing
<1>12. Passing(run'[r], evidence', run'[r].entries)
  BY <1>1, <1>11, PassingStays DEF Keeps
<1>13. InPlan(run'[r])
  <2>1. /\ Len(run[r].todo) \in Nat \ {0} /\ Len(run'[r].todo) = Len(run[r].todo) - 1
        /\ DOMAIN run'[r].todo = 1..Len(run'[r].todo)
        /\ DOMAIN run[r].todo = 1..Len(run[r].todo)
        /\ \A i \in 1..Len(run'[r].todo) : run'[r].todo[i] = run[r].todo[i + 1]
    BY <1>1, <1>3, HeadTailProperties, EmptySeq
  <2>2. Len(SimulationOrder) \in Nat
    BY NamesApart, LenProperties
  <2>3. Ahead(run'[r]) = Ahead(run[r]) + 1 /\ Ahead(run[r]) \in Nat
    BY <1>2, <2>1, <2>2 DEF Ahead, InPlan
  <2>4. ASSUME NEW i \in DOMAIN run'[r].todo
        PROVE  run'[r].todo[i] = SimulationOrder[Ahead(run'[r]) + i]
    <3>1. i + 1 \in DOMAIN run[r].todo /\ run'[r].todo[i] = run[r].todo[i + 1]
      BY <2>1
    <3>2. run[r].todo[i + 1] = SimulationOrder[Ahead(run[r]) + (i + 1)]
      BY <1>2, <3>1 DEF InPlan
    <3>3. Ahead(run[r]) + (i + 1) = Ahead(run'[r]) + i
      BY <2>1, <2>3
    <3> QED
      BY <3>1, <3>2, <3>3
  <2>5. ASSUME NEW i \in 1..Ahead(run'[r]) PROVE SimulationOrder[i] \in DOMAIN run'[r].entries
    <3>1. CASE i = Ahead(run[r]) + 1
      BY <1>4, <1>6, <3>1 DEF HashedNames
    <3>2. CASE i # Ahead(run[r]) + 1
      <4>1. i \in 1..Ahead(run[r])
        BY <2>3, <3>2
      <4> QED
        BY <1>2, <1>6, <4>1 DEF InPlan
    <3> QED
      BY <3>1, <3>2
  <2>6. Ahead(run'[r]) \in Nat
    BY <2>3
  <2> QED
    BY <2>4, <2>5, <2>6 DEF InPlan
<1> QED
  BY <1>1, <1>12, <1>13 DEF AloneKept

\* Its manifest has all entries but that of the FMI script.
LEMMA AlonePublishes ==
  ASSUME Typed, RunsPlan, NEW r \in Runs, Alone(r), WriteManifest(r),
         AloneKept(run[r], evidence, manifest["simulation"])
  PROVE  /\ AloneKept(run'[r], evidence', manifest'["simulation"])
         /\ FiveDomain \notin DOMAIN manifest'["simulation"].entries
<1> DEFINE m == manifest'["simulation"]
<1>1. /\ run[r].at = "write" /\ run'[r].at = "done" /\ Keeps(r) /\ run[r].todo = <<>>
      /\ manifest' = [manifest EXCEPT ![run[r].profile] =
                        [revision |-> run[r].revision, entries |-> run[r].entries]]
      /\ evidence' = evidence
  BY Publishes
<1>2. run[r].profile = "simulation" /\ "simulation" \in Profiles
  BY DEF Alone, Profiles
<1>3. m.revision = run[r].revision /\ m.entries = run[r].entries
  BY <1>1, <1>2 DEF Typed
<1>4. FiveDomain \notin DOMAIN m.entries
  BY <1>1, <1>3 DEF RunsPlan
<1>5. Passing(run[r], evidence, run[r].entries) /\ InPlan(run[r])
  BY <1>1 DEF AloneKept
<1>6. Passing(run'[r], evidence', m.entries)
  BY <1>1, <1>3, <1>5, PassingStays DEF Keeps
<1>7. Len(SimulationOrder) \in Nat /\ DOMAIN SimulationOrder = 1..Len(SimulationOrder)
  BY NamesApart, LenProperties
<1>8. Ahead(run[r]) = Len(SimulationOrder)
  BY <1>1, <1>7, EmptySeq DEF Ahead
<1>9. Range(SimulationOrder) \subseteq DOMAIN m.entries
  BY <1>3, <1>5, <1>7, <1>8 DEF InPlan, Range
<1>10. m.revision = run'[r].revision
  BY <1>1, <1>3 DEF Keeps
<1> QED
  BY <1>1, <1>4, <1>6, <1>9, <1>10 DEF AloneKept

\* The steps of the FMI script take nothing from it.
LEMMA AloneFmi ==
  ASSUME Typed, RunsPlan, NEW r \in Runs, Alone(r), faults' = 0, FmiStep,
         AloneKept(run[r], evidence, manifest["simulation"]),
         FmiAlone(fmi, evidence, manifest["simulation"])
  PROVE  /\ AloneKept(run'[r], evidence', manifest'["simulation"])
         /\ FmiAlone(fmi', evidence', manifest'["simulation"])
<1> DEFINE m == manifest["simulation"]
<1>1. run' = run /\ faults = 0
  BY DEF FmiStep, FmiStarts, FmiSearches, FmiExports, FmiRefused, FmiSimulates,
     FmiFails, FmiLoads, FmiMissesManifest, FmiMerges, FmiUnchanged, boundVars, Alone
<1>2. ASSUME UNCHANGED <<evidence, manifest>>, FmiAlone(fmi', evidence, m)
      PROVE  /\ AloneKept(run'[r], evidence', manifest'["simulation"])
             /\ FmiAlone(fmi', evidence', manifest'["simulation"])
  BY <1>1, <1>2
<1>3. CASE FmiStarts
  <2>1. fmi.at = "idle" /\ fmi'.at = "export" /\ UNCHANGED <<evidence, manifest>>
    BY <1>3, FmiSteps DEF FmiStarts
  <2>2. FmiAlone(fmi', evidence, m)
    BY <2>1 DEF FmiAlone
  <2> QED
    BY <1>2, <2>1, <2>2
<1>4. CASE FmiSearches
  BY <1>2, <1>4, FmiSteps
<1>5. CASE FmiExports \/ FmiRefused
  <2>1. fmi.at = "export" /\ fmi'.at \in {"idle", "simulate"} /\ UNCHANGED <<evidence, manifest>>
    BY <1>5, FmiSteps DEF FmiExports, FmiRefused
  <2>2. FmiAlone(fmi', evidence, m)
    BY <2>1 DEF FmiAlone
  <2> QED
    BY <1>2, <2>1, <2>2
<1>6. CASE FmiFails
  <2>1. faults' = 1
    BY <1>1, <1>6 DEF FmiFails
  <2> QED
    BY <2>1
<1>7. CASE FmiLoads
  <2>1. /\ fmi'.at = "merge" /\ UNCHANGED <<evidence, manifest>>
        /\ fmi'.manifest = m /\ fmi'.hash = evidence[FiveDomain]
    BY <1>7, FmiSteps
  <2>2. FmiAlone(fmi', evidence, m)
    BY <2>1 DEF FmiAlone
  <2> QED
    BY <1>2, <2>1, <2>2
<1>8. CASE FmiMissesManifest
  <2>1. m = NoManifest /\ fmi'.at = "idle" /\ UNCHANGED <<evidence, manifest>>
    BY <1>8, FmiSteps DEF FmiMissesManifest
  <2>2. FmiAlone(fmi', evidence, m)
    <3>1. DOMAIN m.entries = {}
      BY <2>1, NoEntries
    <3> QED
      BY <2>1, <3>1 DEF FmiAlone
  <2> QED
    BY <1>2, <2>1, <2>2
<1>9. CASE FmiSimulates
  <2>1. fmi'.at = "load" /\ manifest' = manifest
    BY <1>9, FmiSteps
  <2>2. FmiAlone(fmi', evidence', m)
    BY <2>1 DEF FmiAlone
  <2>3. \A f \in Files : f # FiveDomain => evidence'[f] = evidence[f]
    BY <1>9 DEF FmiSimulates, Typed
  <2>4. \A n \in Range(SimulationOrder) \cup {CrossDomain} :
          FileOf("simulation", n) \in Files /\ FileOf("simulation", n) # FiveDomain
    <3>1. FileOf("simulation", CrossDomain) = LastCase
      BY DEF FileOf
    <3> QED
      BY <3>1, FilesApart, NamesApart DEF Files, Expected
  <2>5. \A n \in Range(SimulationOrder) \cup {CrossDomain} :
          evidence'[FileOf("simulation", n)] = evidence[FileOf("simulation", n)]
    BY <2>3, <2>4
  <2>6. ASSUME NEW entries, Passing(run[r], evidence, entries)
        PROVE  Passing(run[r], evidence', entries)
    BY <2>5, <2>6, PassingStays
  <2>7. run[r].at = "hash" => Head(run[r].todo) \in Range(SimulationOrder)
    BY NextInPlan DEF AloneKept, RunsPlan, Typed, RunRecords
  <2>8. AloneKept(run[r], evidence', m)
    BY <2>5, <2>6, <2>7 DEF AloneKept
  <2> QED
    BY <1>1, <2>1, <2>2, <2>8
<1>10. CASE FmiMerges
  <2>1. fmi.at = "merge" /\ fmi'.at = "idle" /\ evidence' = evidence
    BY <1>10, FmiSteps
  <2>2. fmi.manifest = m /\ fmi.hash = evidence[FiveDomain]
    BY <2>1 DEF FmiAlone
  <2> DEFINE new == manifest'["simulation"]
  <2>3. /\ new.revision = m.revision
        /\ DOMAIN new.entries = {FiveDomain} \cup DOMAIN m.entries
        /\ new.entries[FiveDomain] = Entry(TRUE, evidence[FiveDomain])
        /\ \A n \in DOMAIN new.entries \ {FiveDomain} : new.entries[n] = m.entries[n]
    BY <1>10, <2>2, Merged
  <2> HIDE DEF new
  <2>4. FmiAlone(fmi', evidence', new)
    BY <2>1, <2>3 DEF FmiAlone
  <2>5. LastCase # FiveDomain /\ CrossDomain # FiveDomain
    BY NamesApart DEF CrossDomain, FiveDomain
  <2>6. ASSUME Passing(run[r], evidence, m.entries)
        PROVE  Passing(run[r], evidence, new.entries)
    <3>1. \A n \in DOMAIN new.entries \ {FiveDomain} : n \in DOMAIN m.entries \ {FiveDomain}
      BY <2>3
    <3>2. /\ DOMAIN new.entries \subseteq Range(SimulationOrder) \cup {CrossDomain, FiveDomain}
          /\ LastCase \in DOMAIN new.entries => CrossDomain \in DOMAIN new.entries
      BY <2>3, <2>5, <2>6 DEF Passing
    <3>3. \A n \in DOMAIN new.entries \ {FiveDomain} :
            /\ new.entries[n] = Entry(TRUE, ContentOf(run[r], n, TRUE))
            /\ evidence[FileOf("simulation", n)] = ContentOf(run[r], n, TRUE)
      BY <2>3, <2>6, <3>1 DEF Passing
    <3> QED
      BY <3>2, <3>3 DEF Passing
  <2>7. AloneKept(run[r], evidence, new)
    BY <2>3, <2>6 DEF AloneKept
  <2> QED
    BY <1>1, <2>1, <2>4, <2>7 DEF new
<1> QED
  BY <1>3, <1>4, <1>5, <1>6, <1>7, <1>8, <1>9, <1>10 DEF FmiStep

\* A run that begins when nothing else is at work finds no manifest.
LEMMA AloneBegins ==
  ASSUME Typed, RunsPlan, ManifestsWritten, NEW r \in Runs, Alone(r)',
         NEW q \in Runs, NEW revision \in Revisions,
         BeginBenchmarks(q, revision) \/ BeginSoftware(q, revision)
  PROVE  /\ AloneKept(run'[r], evidence', manifest'["simulation"])
         /\ FmiAlone(fmi', evidence', manifest'["simulation"])
<1>1. PICK profile, todo, full, about :
        /\ Begin(q, profile, revision, todo, full, about)
        /\ profile = "software" \/ full = FALSE \/ (full = TRUE /\ todo = SimulationOrder)
  BY DEF BeginBenchmarks, BeginSoftware
<1>2. /\ run[q].at = "unborn" /\ OthersStay(q)
      /\ run'[q] = [at |-> "write", profile |-> profile, revision |-> revision,
                    about |-> about, full |-> full, todo |-> todo, entries |-> <<>>,
                    wrote |-> NoEvidence]
      /\ UNCHANGED <<topologyVars, filesVars, fmi, boundVars>>
  BY <1>1, Begins
<1>3. /\ run'[q].at = "write" /\ run'[q].todo = todo /\ run'[q].entries = <<>>
      /\ run'[q].full = full /\ run'[q].profile = profile
  BY <1>2
<1>4. /\ \A p \in Runs \ {r} : run'[p].at = "unborn"
      /\ run'[r].profile = "simulation" /\ run'[r].full
  BY DEF Alone
<1>5. q = r
  BY <1>3, <1>4
<1>6. todo = SimulationOrder
  BY <1>1, <1>3, <1>4, <1>5
<1>7. \A p \in Runs : run[p].at = "unborn"
  BY <1>2, <1>4, <1>5 DEF OthersStay
<1>8. manifest["simulation"] = NoManifest /\ fmi.at # "merge"
  BY <1>7 DEF ManifestsWritten
<1>9. UNCHANGED <<manifest, evidence, fmi>>
  BY <1>2 DEF filesVars
<1>10. Passing(run'[r], evidence', run'[r].entries)
  BY <1>3, <1>5, EmptyMap DEF Passing
<1>11. Len(SimulationOrder) \in Nat
  BY NamesApart, LenProperties
<1>12. InPlan(run'[r])
  <2>1. Ahead(run'[r]) = 0
    BY <1>3, <1>5, <1>6, <1>11 DEF Ahead
  <2>2. DOMAIN SimulationOrder = 1..Len(SimulationOrder)
    BY NamesApart, LenProperties
  <2> QED
    BY <1>3, <1>5, <1>6, <1>11, <2>1, <2>2 DEF InPlan
<1>13. AloneKept(run'[r], evidence', manifest'["simulation"])
  BY <1>3, <1>5, <1>10, <1>12 DEF AloneKept
<1>14. FmiAlone(fmi', evidence', manifest'["simulation"])
  <2>1. DOMAIN manifest'["simulation"].entries = {} /\ fmi'.at # "merge"
    BY <1>8, <1>9, NoEntries
  <2> QED
    BY <2>1 DEF FmiAlone
<1> QED
  BY <1>13, <1>14

\* A run that is alone was alone before, or has just begun.
LEMMA AloneBefore ==
  ASSUME Typed, NEW r \in Runs, Alone(r)',
         \/ \E q \in Runs :
              WriteEvidence(q) \/ HashEvidence(q) \/ WriteManifest(q) \/ CutShort(q)
         \/ run' = run /\ (faults' = faults \/ faults' = faults + 1)
  PROVE  /\ Alone(r) /\ faults' = 0
         /\ \/ WriteEvidence(r) \/ HashEvidence(r) \/ WriteManifest(r)
            \/ run' = run
<1>1. /\ run'[r].at \in {"write", "hash", "done"}
      /\ run'[r].profile = "simulation" /\ run'[r].full /\ run'[r].revision # WorkingTree
      /\ \A q \in Runs \ {r} : run'[q].at = "unborn"
      /\ faults' = 0 /\ faults \in Nat
  BY DEF Alone, Typed
<1>2. CASE run' = run /\ (faults' = faults \/ faults' = faults + 1)
  BY <1>1, <1>2 DEF Alone
<1>3. ASSUME NEW q \in Runs, WriteEvidence(q) \/ HashEvidence(q) \/ WriteManifest(q)
      PROVE  /\ Alone(r) /\ faults' = 0
             /\ WriteEvidence(r) \/ HashEvidence(r) \/ WriteManifest(r)
  <2>1. /\ run[q].at \in {"write", "hash"} /\ run'[q].at \in {"write", "hash", "done"}
        /\ OthersStay(q) /\ Keeps(q)
    BY <1>3, Writes, Hashes, Publishes
  <2>2. faults' = faults \/ faults' = faults + 1
    BY <1>3 DEF WriteEvidence, HashEvidence, WriteManifest, boundVars
  <2>3. q = r
    BY <1>1, <2>1
  <2> QED
    BY <1>1, <1>3, <2>1, <2>2, <2>3 DEF Alone, OthersStay, Keeps
<1>4. ASSUME NEW q \in Runs, CutShort(q) PROVE FALSE
  <2>1. faults' = faults + 1
    BY <1>4, Stops
  <2> QED
    BY <1>1, <2>1
<1> QED
  BY <1>2, <1>3, <1>4

\* Every step keeps a run that is left alone passing.
LEMMA LeftAloneStep ==
  ASSUME Typed, RunsPlan, ManifestsWritten, LeftAlone, [Next]_vars
  PROVE  LeftAlone'
<1> SUFFICES ASSUME NEW r \in Runs, Alone(r)'
             PROVE  /\ AloneKept(run'[r], evidence', manifest'["simulation"])
                    /\ FmiAlone(fmi', evidence', manifest'["simulation"])
  BY DEF LeftAlone
<1> DEFINE m == manifest["simulation"]
<1>1. CASE \E q \in Runs, revision \in Revisions :
             BeginBenchmarks(q, revision) \/ BeginSoftware(q, revision)
  BY <1>1, AloneBegins
<1>2. ASSUME Alone(r) PROVE AloneKept(run[r], evidence, m) /\ FmiAlone(fmi, evidence, m)
  BY <1>2 DEF LeftAlone
<1>3. ASSUME Alone(r), faults' = 0, WriteEvidence(r)
      PROVE  /\ AloneKept(run'[r], evidence', manifest'["simulation"])
             /\ FmiAlone(fmi', evidence', manifest'["simulation"])
  <2>1. manifest' = manifest /\ fmi' = fmi /\ evidence'[FiveDomain] = evidence[FiveDomain]
    BY <1>3, RunsLeaveFmi DEF WriteEvidence
  <2>2. AloneKept(run'[r], evidence', m)
    BY <1>2, <1>3, AloneWrites
  <2>3. FmiAlone(fmi', evidence', manifest'["simulation"])
    BY <1>2, <1>3, <2>1 DEF FmiAlone
  <2> QED
    BY <2>1, <2>2, <2>3
<1>4. ASSUME Alone(r), HashEvidence(r)
      PROVE  /\ AloneKept(run'[r], evidence', manifest'["simulation"])
             /\ FmiAlone(fmi', evidence', manifest'["simulation"])
  <2>1. UNCHANGED <<manifest, fmi, evidence>>
    BY <1>4 DEF HashEvidence, filesVars
  <2>2. AloneKept(run'[r], evidence', m)
    BY <1>2, <1>4, AloneHashes
  <2> QED
    BY <1>2, <1>4, <2>1, <2>2
<1>5. ASSUME Alone(r), WriteManifest(r)
      PROVE  /\ AloneKept(run'[r], evidence', manifest'["simulation"])
             /\ FmiAlone(fmi', evidence', manifest'["simulation"])
  <2>1. /\ AloneKept(run'[r], evidence', manifest'["simulation"])
        /\ FiveDomain \notin DOMAIN manifest'["simulation"].entries
    BY <1>2, <1>5, AlonePublishes
  <2>2. run[r].at = "write" /\ fmi' = fmi
    BY <1>5, Publishes
  <2>3. \A q \in Runs : run[q].at # "done"
    BY <1>5, <2>2 DEF Alone
  <2>4. fmi.at # "merge"
    BY <2>3 DEF ManifestsWritten
  <2> QED
    BY <2>1, <2>2, <2>4 DEF FmiAlone
<1>6. CASE \E q \in Runs :
             WriteEvidence(q) \/ HashEvidence(q) \/ WriteManifest(q) \/ CutShort(q)
  <2>1. /\ Alone(r) /\ faults' = 0
        /\ WriteEvidence(r) \/ HashEvidence(r) \/ WriteManifest(r) \/ run' = run
    BY <1>6, AloneBefore
  <2>2. run' # run
    <3>1. ASSUME NEW q \in Runs,
                 WriteEvidence(q) \/ HashEvidence(q) \/ WriteManifest(q) \/ CutShort(q)
          PROVE  run'[q].at # run[q].at
      <4>1. WriteEvidence(q) => run'[q].at # run[q].at
        BY Writes
      <4>2. HashEvidence(q) => run'[q].at # run[q].at
        BY Hashes
      <4>3. WriteManifest(q) => run'[q].at # run[q].at
        BY Publishes
      <4>4. CutShort(q) => run'[q].at # run[q].at
        BY Stops
      <4> QED
        BY <3>1, <4>1, <4>2, <4>3, <4>4
    <3> QED
      BY <1>6, <3>1
  <2> QED
    BY <1>3, <1>4, <1>5, <2>1, <2>2
<1>7. CASE FmiStep
  <2>1. run' = run /\ (faults' = faults \/ faults' = faults + 1)
    BY <1>7 DEF FmiStep, FmiStarts, FmiSearches, FmiExports, FmiRefused, FmiSimulates,
       FmiFails, FmiLoads, FmiMissesManifest, FmiMerges, FmiUnchanged, boundVars
  <2>2. Alone(r) /\ faults' = 0
    BY <2>1, AloneBefore
  <2> QED
    BY <1>2, <1>7, <2>2, AloneFmi
<1>8. CASE BreakCatalog \/ ComposeReport \/ UNCHANGED vars
  <2>1. run' = run /\ (faults' = faults \/ faults' = faults + 1)
    BY <1>8 DEF BreakCatalog, ComposeReport, vars, boundVars
  <2>2. UNCHANGED <<manifest, fmi, evidence>>
    BY <1>8 DEF BreakCatalog, ComposeReport, vars, filesVars
  <2>3. Alone(r)
    BY <2>1, AloneBefore
  <2> QED
    BY <1>2, <2>1, <2>2, <2>3
<1> QED
  BY <1>1, <1>6, <1>7, <1>8 DEF Next, FmiStep

------------------------------------------------------------------------------
(* The scripts suffice.                                                      *)

CleanInv == EarnedInv /\ ManifestsWritten /\ LeftAlone

\* At first there is no such run.
LEMMA CleanInit == Init => CleanInv
<1> SUFFICES ASSUME Init PROVE CleanInv
  OBVIOUS
<1>1. \A r \in Runs : run[r].at = "unborn"
  BY DEF Init, NewRun
<1>2. fmi.at = "idle" /\ manifest["simulation"] = NoManifest
  BY DEF Init, Profiles
<1> QED
  BY <1>1, <1>2, EarnedInit DEF CleanInv, ManifestsWritten, LeftAlone, Alone

\* Every step preserves the invariant of clean runs.
LEMMA CleanStep == CleanInv /\ [Next]_vars => CleanInv'
BY EarnedStep, WrittenStep, LeftAloneStep DEF CleanInv, EarnedInv

\* A clean run with an FMI run after it leaves nothing for the gate to find.
LEMMA CleanGate ==
  ASSUME CleanInv, NEW r \in Runs, OnlyOneRun(r), run[r].profile = "simulation",
         run[r].full, run[r].revision # WorkingTree, faults = 0, catalog,
         FiveDomain \in DOMAIN manifest["simulation"].entries
  PROVE  Ready("simulation")
<1> DEFINE m == manifest["simulation"]
<1>1. Alone(r) /\ run[r].at = "done" /\ fmi.at = "idle"
  BY DEF Alone, OnlyOneRun
<1>2. AloneKept(run[r], evidence, m) /\ FmiAlone(fmi, evidence, m)
  BY <1>1 DEF CleanInv, LeftAlone
<1>3. /\ Passing(run[r], evidence, m.entries) /\ m.revision = run[r].revision
      /\ Range(SimulationOrder) \subseteq DOMAIN m.entries
  BY <1>1, <1>2 DEF AloneKept
<1>4. m.entries[FiveDomain] = Entry(TRUE, evidence[FiveDomain])
  BY <1>1, <1>2 DEF FmiAlone
<1>5. LastCase \in Range(SimulationOrder) /\ CrossDomain # FiveDomain
  BY NamesApart DEF CrossDomain, FiveDomain
<1>6. CrossDomain \in DOMAIN m.entries
  BY <1>3, <1>5 DEF Passing
<1>7. ASSUME NEW name \in Expected("simulation") PROVE EntryHolds("simulation", name)
  <2>1. name \in DOMAIN m.entries
    BY <1>3, <1>6 DEF Expected
  <2>2. CASE name = FiveDomain
    BY <1>4, <2>1, <2>2, FilesApart DEF EntryHolds, Entry
  <2>3. CASE name # FiveDomain
    <3>1. /\ m.entries[name] = Entry(TRUE, ContentOf(run[r], name, TRUE))
          /\ evidence[FileOf("simulation", name)] = ContentOf(run[r], name, TRUE)
      BY <1>3, <2>1, <2>3 DEF Passing
    <3> QED
      BY <2>1, <3>1 DEF EntryHolds, Entry
  <2> QED
    BY <2>2, <2>3
<1>8. EnvironmentHolds("simulation")
  <2>1. Environment \in DOMAIN m.entries \ {FiveDomain}
    BY <1>3, NamesApart DEF Environment, FiveDomain
  <2>2. evidence[FileOf("simulation", Environment)] = ContentOf(run[r], Environment, TRUE)
    BY <1>3, <2>1 DEF Passing
  <2> QED
    BY <1>3, <2>2 DEF EnvironmentHolds, ContentOf
<1>9. m # NoManifest
  BY EmptyMap DEF NoManifest
<1> QED
  BY <1>7, <1>8, <1>9 DEF Ready, ManifestHolds

\* After a complete run in which every check passed and an FMI run, the gate opens.
THEOREM CleanRunOpensGate == Spec => []CleanRunIsReady
<1>1. CleanInv => CleanRunIsReady
  BY CleanGate DEF CleanRunIsReady
<1>2. Spec => []CleanInv
  BY CleanInit, CleanStep, PTL DEF Spec
<1> QED
  BY <1>1, <1>2, PTL
==============================================================================
