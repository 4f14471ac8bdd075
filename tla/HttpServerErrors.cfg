\* The expectation that co_run never ends with an exception.
SPECIFICATION Spec
CONSTANTS
  NoConn = NoConn
  Conns = {c1, c2}
  Loops = {l1, l2}
  Stops = {stop1}
  Ssl = TRUE
INVARIANT RunReportsByErrorCode
CHECK_DEADLOCK FALSE
