\* Two runs; two requests, views or pages that fail; one user turn.
SPECIFICATION Spec
CONSTANTS
  MaxRuns = 2
  MaxMishaps = 2
  MaxTurns = 1
  FullStorage = {TRUE, FALSE}
INVARIANTS LastReportKept
PROPERTIES RunsKeepContract AcknowledgedShown
CHECK_DEADLOCK FALSE
