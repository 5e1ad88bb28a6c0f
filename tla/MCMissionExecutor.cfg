SPECIFICATION FairSpec
CONSTANTS
  InitialPlans <- Plans
  Failures <- SomeFailures
  DefaultParallel <- DefaultTasks
  MaxParallelism = 4
  MaxMissionReplans = 2
  MaxStepReplans = 2
INVARIANTS
  NoStall
  RepairedBeforeRetry
PROPERTIES
  Termination
  ImplementsTaskGraph
