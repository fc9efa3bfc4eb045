SPECIFICATION Spec
CONSTANTS
  Runs = {1, 2, 3}
  NoRun = none
  Outcomes = {"passed"}
  Digests = {model}
  Content <- MCContent
  PoolSize = 1
  MaxEdits = 1
  MaxFaults = 1
  MaxCrashes = 1
INVARIANTS
  RunTypeOK
  RowBacked
  ReplayRepeatsExperiment
  BundleResolves
PROPERTIES
  LifecycleSpec
  RunsAreDecided
CHECK_DEADLOCK FALSE
