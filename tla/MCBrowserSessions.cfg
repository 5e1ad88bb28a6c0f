SPECIFICATION Spec
CONSTANTS
  c1 = c1
  c2 = c2
  s1 = s1
  s2 = s2
  s3 = s3
  NoSession = NoSession
  Calls = {c1, c2}
  Sessions = {s1, s2, s3}
  Warm = 1
  MaxBrowsers = 2
  MaxTroubles = 1
SYMMETRY Symmetry
INVARIANTS
  BrowsersKept
  NoSharedBrowser
  PoolBounded
  ClosedStaysClosed
CHECK_DEADLOCK FALSE
