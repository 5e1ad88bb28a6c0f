SPECIFICATION FairSpec
CONSTANTS
  p1 = p1
  Processes = {p1}
  InitialPlans <- JoinOnly
  Failures <- WeakOrThrown
  DefaultParallel <- TwoAtOnce
  MaxParallelism = 4
  MaxMissionReplans = 2
  MaxStepReplans = 1
  QueueTimeout = 1
  ActiveTimeout = 4
  BatchTimeout = 4
  MaxStepAttempts = 3
  Environments <- Undisturbed
INVARIANTS
  RanInOrder
PROPERTIES
  OutcomePersisted
  ImplementsTaskGraph
