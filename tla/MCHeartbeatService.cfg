SPECIFICATION FairSpec
CONSTANTS
  api = api
  worker = worker
  Processes = {api, worker}
  Deployments <- BothKinds
  Runs = {e1, e2}
  MaxAttempts = 2
  NoRun = NoRun
  NoProcess = NoProcess
CHECK_DEADLOCK FALSE
INVARIANTS
  LeaseKeepsRunsApart
PROPERTIES
  LeaseFreed
  CronFollowsRecord
