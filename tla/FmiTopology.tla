----------------------------- MODULE FmiTopology -----------------------------
(***************************************************************************)
(* The search for algebraic loops that an experiment and an SSP export     *)
(* start with: validate_fmi_topology in src/src/ael/fmi.py.                *)
(*                                                                         *)
(* Only the wires that leave a component with direct feedthrough matter.   *)
(* The search is depth first: path is the chain of nested calls of visit,  *)
(* outermost first (the code's set "visiting" holds its members).  A node  *)
(* is added to "visited" when its call returns.  The order of the          *)
(* successors is that of a Python set: any.                                *)
(***************************************************************************)
EXTENDS Naturals, Sequences, FiniteSets

CONSTANTS
  Components,    \* component ids
  Systems        \* systems: sets of wires and of components with feedthrough

ASSUME ComponentsAssumption == IsFiniteSet(Components)

ASSUME SystemsAssumption ==
  Systems \subseteq [wires : SUBSET (Components \X Components),
                     direct_feedthrough : SUBSET Components]

VARIABLES
  system,        \* the system manifest
  path,          \* calls of visit that have not returned
  visited,
  verdict        \* "searching", "accepted" or "refused" (ValueError)

topologyVars == <<system, path, visited, verdict>>

\* graph[node] of the code.
Graph(s, n) == {t \in Components : n \in s.direct_feedthrough /\ <<n, t>> \in s.wires}

Top == path[Len(path)]

Visiting == {path[i] : i \in DOMAIN path}

SearchInit ==
  /\ system \in Systems
  /\ path = <<>>
  /\ visited = {}
  /\ verdict = "searching"

\* The loop over all components calls visit for one not visited yet.
VisitRoot(n) ==
  /\ verdict = "searching"
  /\ path = <<>> /\ n \notin visited
  /\ path' = <<n>>
  /\ UNCHANGED <<system, visited, verdict>>

\* visit(target) from visit(Top); a target in visited returns at once.
VisitTarget(t) ==
  /\ verdict = "searching"
  /\ path # <<>> /\ t \in Graph(system, Top) \ visited
  /\ IF t \in Visiting
       THEN verdict' = "refused" /\ UNCHANGED path
       ELSE path' = Append(path, t) /\ UNCHANGED verdict
  /\ UNCHANGED <<system, visited>>

ReturnEarly ==
  /\ verdict = "searching"
  /\ path # <<>>
  /\ visited' = visited \cup {Top}
  /\ path' = SubSeq(path, 1, Len(path) - 1)
  /\ UNCHANGED <<system, verdict>>

\* All targets of Top have been visited.
Return == path # <<>> /\ Graph(system, Top) \subseteq visited /\ ReturnEarly

Accept ==
  /\ verdict = "searching"
  /\ path = <<>> /\ Components \subseteq visited
  /\ verdict' = "accepted"
  /\ UNCHANGED <<system, path, visited>>

Search ==
  \/ \E n \in Components : VisitRoot(n) \/ VisitTarget(n)
  \/ Return
  \/ Accept

SearchSpec == SearchInit /\ [][Search]_topologyVars

------------------------------------------------------------------------------
(* Properties.                                                               *)

SearchTypeOK ==
  /\ system \in Systems
  /\ path \in Seq(Components)
  /\ visited \subseteq Components
  /\ verdict \in {"searching", "accepted", "refused"}

\* Every set of components has one that feeds through to none of the set: in a
\* finite system, there is no loop of direct feedthrough.
LoopFree(s) ==
  \A S \in SUBSET Components :
    S # {} => \E n \in S : Graph(s, n) \cap S = {}

\* A system is accepted only without an algebraic loop, and refused only with one:
\* a loop through any mixture of components, entered at any node, found again
\* behind shared successors, and not confused with two paths to one component.
LoopsDecided ==
  /\ verdict = "accepted" => LoopFree(system)
  /\ verdict = "refused" => ~LoopFree(system)
==============================================================================
