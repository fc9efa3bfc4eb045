----------------------------- MODULE SystemWiring -----------------------------
(***************************************************************************)
(* How a system manifest names its wires: SystemManifest in contracts.py,  *)
(* and the uses of these names in scheduler.py, fmi.py and the backends.   *)
(*                                                                         *)
(* A dotted text is the sequence of its parts.  A component id and a port  *)
(* name may themselves have several parts; a reference is the id and the   *)
(* name joined by a dot.                                                   *)
(***************************************************************************)
EXTENDS Naturals, Sequences, SequencesExt

NoUnit == "none"

Joined(id, port) == id \o port.name

Indexes(manifest) == DOMAIN manifest.components

Ports(manifest) ==
  UNION {{Joined(manifest.components[c].id, manifest.components[c].ports[p]) :
             p \in DOMAIN manifest.components[c].ports} : c \in Indexes(manifest)}

UniqueIds(manifest) ==
  \A c, d \in Indexes(manifest) :
    manifest.components[c].id = manifest.components[d].id => c = d

\* split(".", 1): the id is what stands before the first dot.
SplitId(reference) == <<Head(reference)>>

SplitName(reference) == Tail(reference)

\* The component that the table of ids gives, and its first port of the name.
Resolves(manifest, reference, c, p) ==
  /\ c \in Indexes(manifest)
  /\ manifest.components[c].id = SplitId(reference)
  /\ p \in DOMAIN manifest.components[c].ports
  /\ manifest.components[c].ports[p].name = SplitName(reference)
  /\ \A q \in DOMAIN manifest.components[c].ports :
       q < p => manifest.components[c].ports[q].name # SplitName(reference)

Compatible(source, target, unit) ==
  /\ source.direction # "input"
  /\ target.direction # "output"
  /\ \A u, v \in {source.unit, target.unit, unit} \ {NoUnit} : u = v
  /\ source.data_type = target.data_type

\* A reference that is a port's and does not resolve raises KeyError or StopIteration.
WireAccepted(manifest, wire) ==
  /\ wire.source \in Ports(manifest)
  /\ wire.target \in Ports(manifest)
  /\ \E c, d \in Indexes(manifest) :
       \E p \in DOMAIN manifest.components[c].ports, q \in DOMAIN manifest.components[d].ports :
         /\ Resolves(manifest, wire.source, c, p)
         /\ Resolves(manifest, wire.target, d, q)
         /\ Compatible(manifest.components[c].ports[p], manifest.components[d].ports[q],
                       wire.unit)

ManifestAccepted(manifest) ==
  /\ manifest.components # <<>>
  /\ UniqueIds(manifest)
  /\ \A wire \in manifest.wires : WireAccepted(manifest, wire)

\* A backend knows an input by what stands behind the last dot.
BackendKey(reference) == Last(reference)

\* Two inputs of one component that its backend cannot tell apart.
Confused(manifest) ==
  \E wire, other \in manifest.wires :
    /\ wire.target # other.target
    /\ SplitId(wire.target) = SplitId(other.target)
    /\ BackendKey(wire.target) = BackendKey(other.target)

------------------------------------------------------------------------------
(* What the manifest is meant to say.                                        *)

\* The ports whose text a reference is.
Denoted(manifest, reference) ==
  UNION {{manifest.components[c].ports[p] :
             p \in {p \in DOMAIN manifest.components[c].ports :
                      Joined(manifest.components[c].id, manifest.components[c].ports[p])
                        = reference}} : c \in Indexes(manifest)}

Undotted(manifest) ==
  \A c \in Indexes(manifest) :
    /\ Len(manifest.components[c].id) = 1
    /\ \A p \in DOMAIN manifest.components[c].ports :
         Len(manifest.components[c].ports[p].name) = 1

\* Every wire joins two ports that it names and that fit.
WiresFit(manifest) ==
  \A wire \in manifest.wires :
    \E source \in Denoted(manifest, wire.source), target \in Denoted(manifest, wire.target) :
      Compatible(source, target, wire.unit)
==============================================================================
