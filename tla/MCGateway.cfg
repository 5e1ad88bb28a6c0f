SPECIFICATION Spec
CONSTANTS
  MaxRequests = 4
  Deployments <- Everything
  PlanLimit <- Plans
  MaxCharge = 2
  Window = 2
CHECK_DEADLOCK FALSE
INVARIANTS
  RateHeld
  WithinQuota
  ChargesOverlap
  AnsweredWorkIsCharged
  SameRightsByBothDoors
PROPERTIES
  LostOnlyToOverlap
