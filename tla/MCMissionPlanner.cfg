SPECIFICATION PlannerSpec
CONSTANTS
  Requests <- ShortRequests
\* A plan is made once.
CHECK_DEADLOCK FALSE
INVARIANTS
  PlanIsExecutable
  DeliveryWaitsForEverything
  CheckpointBeforeWork
