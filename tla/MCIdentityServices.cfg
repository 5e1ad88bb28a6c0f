SPECIFICATION Spec
CONSTANTS
  c1 = c1
  c2 = c2
  Callers = {c1, c2}
  Home = w1
  Second = w2
  MaxCalls = 3
  MaxFailures = 1
SYMMETRY CallerSymmetry
CHECK_DEADLOCK FALSE
INVARIANTS
  KeysOpenTheirWorkspace
  HeirsOverlap
  AnswersAreCurrent
