---------------------------- MODULE DocumentProofs ----------------------------
(***************************************************************************)
(* What a document that was accepted promises: the register map of a       *)
(* device model, and the wires of a system manifest.                       *)
(***************************************************************************)
EXTENDS RegisterLayout, SystemWiring, SequenceTheorems, TLAPS

------------------------------------------------------------------------------
(* Register maps.                                                            *)

\* The end of a register is behind its start: the interval test says no more and
\* no less than that two registers share a byte.
LEMMA EndBehindStart ==
  ASSUME NEW register, register.offset \in Nat, register.width \in Widths
  PROVE  End(register) \in Nat /\ End(register) > register.offset
BY DEF End, Widths

\* The comparison of offsets and ends finds exactly the registers that share a byte.
THEOREM OverlapIsSharedByte ==
  ASSUME NEW r, NEW s,
         r.offset \in Nat, r.width \in Widths, s.offset \in Nat, s.width \in Widths
  PROVE  Overlaps(r, s) <=> Bytes(r) \cap Bytes(s) # {}
<1>1. /\ End(r) \in Nat /\ End(r) > r.offset
      /\ End(s) \in Nat /\ End(s) > s.offset
  BY EndBehindStart
<1>2. ASSUME Overlaps(r, s)
      PROVE  Bytes(r) \cap Bytes(s) # {}
  <2>1. CASE r.offset <= s.offset
    BY <1>1, <1>2, <2>1, s.offset \in Bytes(r) \cap Bytes(s) DEF Overlaps, Bytes
  <2>2. CASE s.offset < r.offset
    BY <1>1, <1>2, <2>2, r.offset \in Bytes(r) \cap Bytes(s) DEF Overlaps, Bytes
  <2> QED
    BY <2>1, <2>2
<1>3. ASSUME NEW byte \in Bytes(r) \cap Bytes(s)
      PROVE  Overlaps(r, s)
  BY <1>1 DEF Overlaps, Bytes
<1> QED
  BY <1>2, <1>3

\* In a map that HardwareBehaviorIR accepts, no two registers share a byte and none
\* reaches behind the end of the device.
THEOREM AcceptedBytes ==
  ASSUME NEW ir, ir.size \in Nat, DOMAIN ir.registers \subseteq Nat, LayoutAccepted(ir)
  PROVE  BytesPartitioned(ir)
<1>1. \A k \in DOMAIN ir.registers :
        /\ ir.registers[k].offset \in Nat
        /\ ir.registers[k].width \in Widths
        /\ End(ir.registers[k]) <= ir.size
  BY DEF LayoutAccepted, RegisterAccepted
<1>2. ASSUME NEW k \in DOMAIN ir.registers, NEW n \in DOMAIN ir.registers, n < k
      PROVE  Bytes(ir.registers[k]) \cap Bytes(ir.registers[n]) = {}
  <2>1. ~Overlaps(ir.registers[k], ir.registers[n])
    BY <1>2 DEF LayoutAccepted
  <2> QED
    BY <1>1, <2>1, OverlapIsSharedByte
<1>3. \A k, n \in DOMAIN ir.registers :
        k # n => Bytes(ir.registers[k]) \cap Bytes(ir.registers[n]) = {}
  <2> SUFFICES ASSUME NEW k \in DOMAIN ir.registers, NEW n \in DOMAIN ir.registers, k # n
               PROVE  Bytes(ir.registers[k]) \cap Bytes(ir.registers[n]) = {}
    OBVIOUS
  <2>1. n < k \/ k < n
    OBVIOUS
  <2> QED
    BY <1>2, <2>1
<1>4. ASSUME NEW k \in DOMAIN ir.registers
      PROVE  Bytes(ir.registers[k]) \subseteq 0 .. (ir.size - 1)
  <2>1. End(ir.registers[k]) \in Nat
    BY <1>1, EndBehindStart
  <2> QED
    BY <1>1, <2>1 DEF Bytes
<1> QED
  BY <1>3, <1>4 DEF BytesPartitioned

\* In a register that is accepted, no two fields share a bit and none reaches
\* behind the register's width.
THEOREM AcceptedBits ==
  ASSUME NEW register, DOMAIN register.fields \subseteq Nat, RegisterAccepted(register)
  PROVE  BitsPartitioned(register)
<1> DEFINE fields == register.fields
<1>1. \A k \in DOMAIN fields :
        /\ fields[k].lsb \in Nat /\ fields[k].width \in Nat
        /\ fields[k].lsb + fields[k].width <= register.width
  BY DEF RegisterAccepted, FieldAccepted
<1>2. ASSUME NEW k \in DOMAIN fields, NEW n \in DOMAIN fields, n < k
      PROVE  Bits(fields[k]) \cap Bits(fields[n]) = {}
  <2>1. Bits(fields[k]) \cap BitsBefore(fields, k) = {}
    BY DEF RegisterAccepted
  <2>2. Bits(fields[n]) \subseteq BitsBefore(fields, k)
    BY <1>2 DEF BitsBefore
  <2> QED
    BY <2>1, <2>2
<1>3. \A k, n \in DOMAIN fields : k # n => Bits(fields[k]) \cap Bits(fields[n]) = {}
  <2> SUFFICES ASSUME NEW k \in DOMAIN fields, NEW n \in DOMAIN fields, k # n
               PROVE  Bits(fields[k]) \cap Bits(fields[n]) = {}
    OBVIOUS
  <2>1. n < k \/ k < n
    OBVIOUS
  <2> QED
    BY <1>2, <2>1
<1>4. register.width \in Nat
  BY DEF RegisterAccepted, Widths
<1>5. \A k \in DOMAIN fields : Bits(fields[k]) \subseteq 0 .. (register.width - 1)
  BY <1>1, <1>4 DEF Bits
<1> QED
  BY <1>3, <1>5 DEF BitsPartitioned

\* SystemRDL: the reset value put together by "|" and "<<" gives every field back
\* its own, in a register that is accepted.
THEOREM RdlResetsAgree ==
  ASSUME NEW document, DOMAIN document.fields \subseteq Nat,
         RegisterAccepted(RdlRegister(document))
  PROVE  ResetsAgree(RdlRegister(document))
<1> DEFINE register == RdlRegister(document)
           fields == register.fields
<1>1. /\ DOMAIN fields = DOMAIN document.fields
      /\ \A k \in DOMAIN fields :
           /\ fields[k].lsb = document.fields[k].low
           /\ fields[k].reset = document.fields[k].reset
  BY DEF RdlRegister, RdlField
<1>2. register.reset = UNION {Shifted(fields[k].reset, fields[k].lsb) : k \in DOMAIN fields}
  <2>1. register.reset = UNION {Shifted(document.fields[k].reset, document.fields[k].low) :
                                  k \in DOMAIN document.fields}
    BY DEF RdlRegister, RdlReset
  <2>2. \A k \in DOMAIN fields :
          Shifted(fields[k].reset, fields[k].lsb)
            = Shifted(document.fields[k].reset, document.fields[k].low)
    BY <1>1
  <2> HIDE DEF register
  <2> QED
    BY <1>1, <2>1, <2>2
<1>3. BitsPartitioned(register)
  BY <1>1, AcceptedBits
<1>4. ASSUME NEW k \in DOMAIN fields
      PROVE  Shifted(fields[k].reset, fields[k].lsb) \subseteq Bits(fields[k])
  <2>1. /\ fields[k].lsb \in Nat /\ fields[k].width \in Nat
        /\ fields[k].reset \subseteq Nat
        /\ \A bit \in fields[k].reset : bit < fields[k].width
    BY DEF RegisterAccepted, FieldAccepted, Fits
  <2> QED
    BY <2>1 DEF Shifted, Bits
<1>5. ASSUME NEW k \in DOMAIN fields
      PROVE  register.reset \cap Bits(fields[k]) = Shifted(fields[k].reset, fields[k].lsb)
  <2>1. \A n \in DOMAIN fields :
          n # k => Shifted(fields[n].reset, fields[n].lsb) \cap Bits(fields[k]) = {}
    BY <1>3, <1>4 DEF BitsPartitioned
  <2> HIDE DEF register
  <2> QED
    BY <1>2, <1>4, <2>1
<1> QED
  BY <1>5 DEF ResetsAgree

------------------------------------------------------------------------------
(* Wires.                                                                    *)

\* A text is what stands before its first dot, the dot and the rest.
LEMMA SplitJoined ==
  ASSUME NEW Part, NEW reference \in Seq(Part), reference # <<>>
  PROVE  SplitId(reference) \o SplitName(reference) = reference
<1> DEFINE joined == <<Head(reference)>> \o Tail(reference)
<1>1. /\ Head(reference) \in Part
      /\ Tail(reference) \in Seq(Part)
      /\ Len(Tail(reference)) = Len(reference) - 1
      /\ \A i \in 1 .. Len(Tail(reference)) : Tail(reference)[i] = reference[i + 1]
  BY HeadTailProperties
<1>2. joined \in Seq(Part) /\ Len(joined) = Len(reference)
  BY <1>1
<1>3. \A i \in 1 .. Len(reference) : joined[i] = reference[i]
  BY <1>1
<1> HIDE DEF joined
<1>4. joined = reference
  BY <1>2, <1>3, SeqEqual
<1> QED
  BY <1>4 DEF joined, SplitId, SplitName

\* The port a reference resolves to is one that the reference names.
LEMMA ResolvedIsDenoted ==
  ASSUME NEW Part, NEW manifest, NEW reference \in Seq(Part), reference # <<>>,
         NEW c, NEW p, Resolves(manifest, reference, c, p)
  PROVE  manifest.components[c].ports[p] \in Denoted(manifest, reference)
<1>1. Joined(manifest.components[c].id, manifest.components[c].ports[p]) = reference
  BY SplitJoined DEF Resolves, Joined
<1>2. c \in Indexes(manifest) /\ p \in DOMAIN manifest.components[c].ports
  BY DEF Resolves
<1>3. manifest.components[c].ports[p] \in
        {manifest.components[c].ports[q] :
           q \in {q \in DOMAIN manifest.components[c].ports :
                    Joined(manifest.components[c].id, manifest.components[c].ports[q])
                      = reference}}
  BY <1>1, <1>2
<1> QED
  BY <1>2, <1>3 DEF Denoted

\* Whatever dots the ids and names hold, every wire of an accepted manifest joins two
\* ports that it names, in a direction and with a unit and type that fit: resolving at
\* the first dot may refuse a wire, it never takes an unrelated port.
THEOREM AcceptedWiresFit ==
  ASSUME NEW Part, NEW manifest, ManifestAccepted(manifest),
         \A wire \in manifest.wires :
           /\ wire.source \in Seq(Part) /\ wire.source # <<>>
           /\ wire.target \in Seq(Part) /\ wire.target # <<>>
  PROVE  WiresFit(manifest)
<1> SUFFICES ASSUME NEW wire \in manifest.wires
             PROVE  \E source \in Denoted(manifest, wire.source),
                       target \in Denoted(manifest, wire.target) :
                      Compatible(source, target, wire.unit)
  BY DEF WiresFit
<1>1. PICK c \in Indexes(manifest), d \in Indexes(manifest) :
        \E p \in DOMAIN manifest.components[c].ports,
           q \in DOMAIN manifest.components[d].ports :
          /\ Resolves(manifest, wire.source, c, p)
          /\ Resolves(manifest, wire.target, d, q)
          /\ Compatible(manifest.components[c].ports[p], manifest.components[d].ports[q],
                        wire.unit)
  BY DEF ManifestAccepted, WireAccepted
<1>2. PICK p \in DOMAIN manifest.components[c].ports,
           q \in DOMAIN manifest.components[d].ports :
        /\ Resolves(manifest, wire.source, c, p)
        /\ Resolves(manifest, wire.target, d, q)
        /\ Compatible(manifest.components[c].ports[p], manifest.components[d].ports[q],
                      wire.unit)
  BY <1>1
<1>3. /\ manifest.components[c].ports[p] \in Denoted(manifest, wire.source)
      /\ manifest.components[d].ports[q] \in Denoted(manifest, wire.target)
  BY <1>2, ResolvedIsDenoted
<1> QED
  BY <1>2, <1>3
==============================================================================
