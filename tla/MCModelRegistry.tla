--------------------------- MODULE MCModelRegistry ---------------------------
(* One human, one agent, two versions of one model.  The versions are        *)
(* interchangeable; no liveness is checked.  The register maps that the      *)
(* importers accept are compared with their definition on bounded documents. *)
EXTENDS ModelRegistry, Sequences, TLC

VersionSymmetry == Permutations(Versions)

L == INSTANCE RegisterLayout

Names == {"a", "b"}

ListsUpTo2(items) == {<<>>} \cup {<<i>> : i \in items} \cup {<<i, k>> : i, k \in items}

SvdFields ==
  [name : Names, form : {"bitOffset", "bitRange"}, lsb : {0, 1, 7, 31}, width : {1, 2},
   access : {"read-write"}]

RdlFields == [name : Names, low : {0, 1, 7, 8}, width : {1, 2}, sw : {"rw"}, reset : {{}, {0}, {1}}]

\* Two registers without fields, and one register with two fields.
SvdMaps ==
  ListsUpTo2([name : Names, offset : {0, 1, 3, 4}, size : {8, 12, 32},
              reset : {{}, {7}, {9}}, fields : {<<>>}])

SvdRegisters ==
  [name : {"a"}, offset : {4}, size : {8, 12}, reset : {{}, {1}}, fields : ListsUpTo2(SvdFields)]

RdlRegisters ==
  [name : {"a"}, offset : {4}, regwidth : {8, 12}, fields : ListsUpTo2(RdlFields)]

FieldsFit(register) ==
  \A k \in DOMAIN register.fields : L!Fits(register.fields[k].reset, register.fields[k].width)

\* An importer refuses a map for the reasons it should, never for the size it computed;
\* SystemRDL resets reach the fields, SVD resets do only where there is nothing to divide.
ASSUME SvdMapsDecided ==
  \A document \in SvdMaps :
    LET map == L!SvdImport(document)
    IN  L!SvdImported(document) <=>
          /\ document # <<>>
          /\ L!UniqueNames(document)
          /\ \A k \in DOMAIN map.registers : L!Fits(map.registers[k].reset, map.registers[k].width)
          /\ L!BytesPartitioned(map)

ASSUME SvdFieldsDecided ==
  \A register \in SvdRegisters :
    LET imported == L!SvdRegister(register)
    IN  /\ L!SvdImported(<<register>>) <=>
             L!UniqueNames(register.fields) /\ L!BitsPartitioned(imported)
        /\ L!SvdImported(<<register>>) /\ register.reset = {} => L!ResetsAgree(imported)

ASSUME RdlFieldsDecided ==
  \A register \in RdlRegisters :
    LET imported == L!RdlRegister(register)
    IN  /\ L!RdlImported(<<register>>) <=>
             /\ register.regwidth = 8
             /\ L!UniqueNames(register.fields) /\ FieldsFit(register)
             /\ L!BitsPartitioned(imported)
        /\ L!RdlImported(<<register>>) => L!ResetsAgree(imported)
==============================================================================
