SPECIFICATION Spec
CONSTANTS
  memory0 = memory0
  tool0 = tool0
  memory1 = memory1
  tool1 = tool1
  Nobody = nobody
  Plugins = {memory0, tool0, memory1, tool1}
  Ids <- MCIds
  IdOf <- MCIdOf
  Default <- MCDefault
  Memory = "working_memory"
  Jobs = {1, 2}
  Turns = {t1, t2}
  MaxSteps = 1
  MaxCalls = 2
SYMMETRY TurnSymmetry
INVARIANT
  ResultsFollowCalls
PROPERTY
  EvolutionHonest
CHECK_DEADLOCK FALSE
