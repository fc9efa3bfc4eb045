SPECIFICATION Spec
CONSTANTS
  a = a
  b = b
  c = c
  Components = {a, b, c}
  Systems <- MCSystems
  CaseOrder <- MCCaseOrder
  LastCase = "case 24"
  BackendOrder <- MCBackendOrder
  CasesOf <- MCCasesOf
  SoftwareOrder <- MCSoftwareOrder
  Runs = {r1, r2}
  NoRun = none
  Revisions = {"abc", "working-tree"}
  WorkingTree = "working-tree"
  MaxReports = 1
  MaxFmi = 1
  MaxFaults = 1
SYMMETRY RunSymmetry
INVARIANTS
  
  CleanRunIsReady
  LoopsDecided
CHECK_DEADLOCK FALSE
