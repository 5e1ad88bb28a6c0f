SPECIFICATION FairSpec
CONSTANTS
  r1 = r1
  r2 = r2
  r3 = r3
  r4 = r4
  code = code
  research = research
  Runs <- FourRuns
  Capabilities <- TwoCapabilities
  CapabilityOf <- Capability
  MaxParallelism <- Parallelism
  MaxTasks <- Tasks
  WaitLimit = 1
  AuditFails = TRUE
CHECK_DEADLOCK FALSE
INVARIANTS
  SharesKept
  TicketsHeldByRuns
  OutcomeOnRecord
PROPERTIES
  EveryCallEnds
