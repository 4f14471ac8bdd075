\* Two TLS-capable connections, two accept loops, one stop().
SPECIFICATION FairSpec
CONSTANTS
  NoConn = NoConn
  Conns = {c1, c2}
  Loops = {l1, l2}
  Stops = {stop1}
  Ssl = TRUE
INVARIANTS TypeOK NothingEscapesShutdown AbortTakesEffect
PROPERTIES ServerStops AbortedSessionEnds
CHECK_DEADLOCK FALSE
