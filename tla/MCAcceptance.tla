----------------------------- MODULE MCAcceptance -----------------------------
(* Two runs at once; the cross-domain case and the one backend it uses; two   *)
(* systems, with a loop and without.  The runs are interchangeable; no        *)
(* liveness is checked.  The manifests that are accepted are compared with    *)
(* what they should be on bounded manifests.                                  *)
EXTENDS Acceptance, Relation

CONSTANTS a, b, c

MCCaseOrder == <<"case 24">>
MCBackendOrder == <<"backend:renode">>
MCCasesOf == "backend:renode" :> {"case 24"}
MCSoftwareOrder == <<"environment:qualified", "deployment:compose">>

RunSymmetry == Permutations(Runs)

All == {a, b, c}
System(wires, feedthrough) == [wires |-> wires, direct_feedthrough |-> feedthrough]

\* A loop of three with a second path to c; without c's feedthrough, only the two
\* paths are left.
MCSystems ==
  {System({<<a, b>>, <<a, c>>, <<b, c>>, <<c, a>>}, feedthrough) : feedthrough \in {All, {a, b}}}

\* LoopFree is the textbook definition, on every system of three components.
ASSUME LoopFreeIsAcyclic ==
  \A wires \in SUBSET (All \X All) :
    LoopFree(System(wires, All)) <=>
      IsIrreflexive(TransitiveClosure([x, y \in All |-> <<x, y>> \in wires], All), All)

W == INSTANCE SystemWiring

Ids == {<<"a">>, <<"b">>, <<"a", "b">>}
PortNames == {<<"x">>, <<"b", "x">>}

MCPorts ==
  [name : PortNames, direction : {"input", "output"}, unit : {"none", "V"}, data_type : {"real"}]

MCComponents == [id : Ids, ports : {<<>>} \cup {<<p>> : p \in MCPorts}]
                  \cup [id : {<<"a">>}, ports : {<<p, q>> : p, q \in MCPorts}]

MCWires ==
  [source : {<<"a", "x">>, <<"a", "b", "x">>}, target : {<<"b", "x">>, <<"a", "b", "x">>},
   unit : {"none", "V", "A"}]

Manifests ==
  {[components |-> <<i, k>>, wires |-> {wire}] :
      i \in {i \in MCComponents : i.id = <<"a">>}, k \in MCComponents, wire \in MCWires}

UniquePorts(m) ==
  \A k \in DOMAIN m.components :
    W!IsInjective([p \in DOMAIN m.components[k].ports |->
                     m.components[k].ports[p].name])

\* The checks let through only wires that fit; where no id or name holds a dot and no
\* port name is repeated, they let through all of them.
ASSUME WiresDecided ==
  \A m \in Manifests :
    /\ W!ManifestAccepted(m) => W!WiresFit(m)
    /\ W!Undotted(m) /\ UniquePorts(m) =>
         (W!ManifestAccepted(m) <=> W!UniqueIds(m) /\ W!WiresFit(m))

\* Without dots a backend tells the inputs of its component apart; with dots it may not.
TwoInputs(x, y) ==
  LET port(name, direction) ==
        [name |-> name, direction |-> direction, unit |-> "none", data_type |-> "real"]
      wire(name) == [source |-> <<"a", "x">>, target |-> <<"b">> \o name, unit |-> "none"]
  IN  [components |-> <<[id |-> <<"a">>, ports |-> <<port(<<"x">>, "output")>>],
                        [id |-> <<"b">>, ports |-> <<port(x, "input"), port(y, "input")>>]>>,
       wires |-> {wire(x), wire(y)}]

ASSUME InputsToldApart ==
  \A x, y \in {<<"x">>, <<"y">>, <<"b", "x">>} :
    /\ W!ManifestAccepted(TwoInputs(x, y))
    /\ W!Confused(TwoInputs(x, y)) <=> x # y /\ W!Last(x) = W!Last(y)
==============================================================================
