SPECIFICATION FairSpec
CONSTANTS
  p1 = p1
  Processes = {p1}
  InitialPlans <- ChainOnly
  Failures <- WeakOnly
  DefaultParallel <- TwoAtOnce
  MaxParallelism = 4
  MaxMissionReplans = 1
  MaxStepReplans = 1
  QueueTimeout = 1
  ActiveTimeout = 3
  BatchTimeout = 3
  MaxStepAttempts = 2
  Environments <- TimeOrCrash
INVARIANTS
  NoRerun
  CompletedMissionIsDone
PROPERTIES
  ControlEnds
