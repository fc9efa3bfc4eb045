SPECIFICATION Spec
CONSTANTS
  Humans = {h}
  Agents = {g}
  Versions = {v1, v2}
  MaxGenerations = 2
  MaxEdits = 1
  MaxCuts = 1
SYMMETRY VersionSymmetry
INVARIANTS
  RegistryTypeOK
  StateIsEarned
  GateCountsSigned
  
CHECK_DEADLOCK FALSE
