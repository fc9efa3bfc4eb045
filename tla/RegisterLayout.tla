---------------------------- MODULE RegisterLayout ----------------------------
(***************************************************************************)
(* The register map of a device model: what HardwareBehaviorIR             *)
(* (contracts.py) accepts, and what the importers of CMSIS-SVD and         *)
(* SystemRDL (modeling.py) make of a document.                             *)
(*                                                                         *)
(* A value of a register or a field is the set of the positions of its 1   *)
(* bits: a value fits w bits if all are below w, "|" is the union and "<<" *)
(* moves every position.  Names are compared, never read.                  *)
(***************************************************************************)
EXTENDS Naturals, Sequences, FiniteSetsExt, Functions

Widths == {8, 16, 32, 64}

Accesses == {"ro", "wo", "rw", "w1c", "w1s"}

Fits(value, width) == \A bit \in value : bit < width

Shifted(value, low) == {bit + low : bit \in value}

\* Bits of a register that a field takes, and bytes of the device a register takes.
Bits(field) == field.lsb .. (field.lsb + field.width - 1)

End(register) == register.offset + register.width \div 8

Bytes(register) == register.offset .. (End(register) - 1)

------------------------------------------------------------------------------
(* The checks, each as the code makes it.                                    *)

FieldAccepted(field) ==
  /\ field.lsb \in 0 .. 63
  /\ field.width \in 1 .. 64
  /\ field.access \in Accesses
  /\ field.reset \subseteq Nat
  /\ field.lsb + field.width <= 64
  /\ Fits(field.reset, field.width)

UniqueNames(items) == IsInjective([k \in DOMAIN items |-> items[k].name])

\* The bits of the fields before the k-th, which the loop has collected.
BitsBefore(fields, k) == UNION {Bits(fields[n]) : n \in {n \in DOMAIN fields : n < k}}

RegisterAccepted(register) ==
  /\ register.width \in Widths
  /\ register.offset \in Nat
  /\ register.reset \subseteq Nat
  /\ Fits(register.reset, register.width)
  /\ UniqueNames(register.fields)
  /\ \A k \in DOMAIN register.fields :
       LET field == register.fields[k]
       IN  /\ FieldAccepted(field)
           /\ field.lsb + field.width <= register.width
           /\ Bits(field) \cap BitsBefore(register.fields, k) = {}

\* The comparison with the registers accepted before.
Overlaps(register, earlier) ==
  register.offset < End(earlier) /\ End(register) > earlier.offset

LayoutAccepted(ir) ==
  /\ ir.size > 0
  /\ UniqueNames(ir.registers)
  /\ \A k \in DOMAIN ir.registers :
       /\ RegisterAccepted(ir.registers[k])
       /\ End(ir.registers[k]) <= ir.size
       /\ \A n \in DOMAIN ir.registers :
            n < k => ~Overlaps(ir.registers[k], ir.registers[n])

------------------------------------------------------------------------------
(* The importers.  A document without a register is refused.                 *)

Ir(registers) ==
  [size |-> Max({4} \cup {End(registers[k]) : k \in DOMAIN registers}),
   registers |-> registers]

SvdAccess(access) ==
  CASE access = "read-only" -> "ro"
    [] access = "write-only" -> "wo"
    [] OTHER -> "rw"

\* SVD gives the place of a field as bitOffset and bitWidth, as lsb and msb or as
\* bitRange; only the first form is read, another reads as bit 0.  The reset
\* value of a register is not divided among its fields.
SvdField(field) ==
  LET read == field.form = "bitOffset"
  IN  [name |-> field.name, lsb |-> IF read THEN field.lsb ELSE 0,
       width |-> IF read THEN field.width ELSE 1,
       access |-> SvdAccess(field.access), reset |-> {}]

SvdRegister(register) ==
  [name |-> register.name, offset |-> register.offset,
   width |-> IF register.size \in Widths THEN register.size ELSE 32,
   reset |-> register.reset,
   fields |-> [k \in DOMAIN register.fields |-> SvdField(register.fields[k])]]

SvdImport(document) == Ir([k \in DOMAIN document |-> SvdRegister(document[k])])

SvdImported(document) == document # <<>> /\ LayoutAccepted(SvdImport(document))

RdlAccess(sw) ==
  CASE sw = "r" -> "ro"
    [] sw = "w" -> "wo"
    [] OTHER -> "rw"

RdlField(field) ==
  [name |-> field.name, lsb |-> field.low, width |-> field.width,
   access |-> RdlAccess(field.sw), reset |-> field.reset]

\* The register's reset value is put together from those of its fields.
RdlReset(fields) == UNION {Shifted(fields[k].reset, fields[k].low) : k \in DOMAIN fields}

RdlRegister(register) ==
  [name |-> register.name, offset |-> register.offset, width |-> register.regwidth,
   reset |-> RdlReset(register.fields),
   fields |-> [k \in DOMAIN register.fields |-> RdlField(register.fields[k])]]

RdlImport(document) == Ir([k \in DOMAIN document |-> RdlRegister(document[k])])

RdlImported(document) == document # <<>> /\ LayoutAccepted(RdlImport(document))

------------------------------------------------------------------------------
(* What the checks are for.                                                  *)

\* Every byte is at most one register's and inside the device.
BytesPartitioned(ir) ==
  /\ \A k, n \in DOMAIN ir.registers :
       k # n => Bytes(ir.registers[k]) \cap Bytes(ir.registers[n]) = {}
  /\ \A k \in DOMAIN ir.registers : Bytes(ir.registers[k]) \subseteq 0 .. (ir.size - 1)

\* Every bit is at most one field's and inside the register.
BitsPartitioned(register) ==
  /\ \A k, n \in DOMAIN register.fields :
       k # n => Bits(register.fields[k]) \cap Bits(register.fields[n]) = {}
  /\ \A k \in DOMAIN register.fields :
       Bits(register.fields[k]) \subseteq 0 .. (register.width - 1)

\* A field reads its own reset value out of the register's.
ResetsAgree(register) ==
  \A k \in DOMAIN register.fields :
    LET field == register.fields[k]
    IN  register.reset \cap Bits(field) = Shifted(field.reset, field.lsb)
==============================================================================
