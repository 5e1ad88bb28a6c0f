SPECIFICATION TaskSpec
CONSTANTS
  Tasks <- Everything
  Replies <- Said
  MaxFaults = 2
CHECK_DEADLOCK FALSE
INVARIANTS
  NothingRefused
  NoCallRepeated
  ReportIsComplete
  PagesAreNamed
