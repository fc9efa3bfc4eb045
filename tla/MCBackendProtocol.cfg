SPECIFICATION Spec
CONSTANTS
  Values = {0, 1}
  MaxSteps = 3
  MaxInjections = 2
  MaxSessions = 3
  MaxDeaths = 1
  MaxInstalls = 1
INVARIANTS
  BackendTypeOK
  StepsSeeTheirHistory
PROPERTIES
  AnswersAreOwn
  SessionEnds
CHECK_DEADLOCK FALSE
