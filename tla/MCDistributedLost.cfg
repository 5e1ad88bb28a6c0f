SPECIFICATION Spec
CONSTANTS
  p1 = p1
  p2 = p2
  Processes = {p1, p2}
  InitialPlans <- PairOnly
  Failures <- WeakOnly
  DefaultParallel <- TwoAtOnce
  MaxParallelism = 4
  MaxMissionReplans = 1
  MaxStepReplans = 1
  QueueTimeout = 1
  ActiveTimeout = 4
  BatchTimeout = 4
  MaxStepAttempts = 3
  Environments <- OneAttempt
PROPERTIES
  OutcomePersisted
