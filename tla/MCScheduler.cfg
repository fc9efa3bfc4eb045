CONSTANT Experiments <- MCExperiments
SPECIFICATION FairSpec
CHECK_DEADLOCK FALSE
INVARIANTS
  SchedulerTypeOK
  SampleAndHold
  InLockstep
  CheckpointsTaken
  CancelStopsWork
  
  EvidenceHonest
PROPERTY RunEnds
