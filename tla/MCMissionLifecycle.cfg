SPECIFICATION Spec
CONSTANTS
  c1 = c1
  c2 = c2
  Clients = {c1, c2}
  Deployments <- FilesOrPatient
  MaxCalls = 6
  MaxAttempts = 2
SYMMETRY Symmetry
CHECK_DEADLOCK FALSE
INVARIANTS
  GateHeld
  NoOrphanedWait
PROPERTIES
  NothingTakenBack
