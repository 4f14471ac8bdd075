\* A thread pool of two, one pusher outside it, one cancelling and one graceful shutdown.
SPECIFICATION FairSpec
CONSTANTS
  NoHandler = NoHandler
  Handlers = {h1, h2, h3}
  External = {h1}
  Stoppers = {s1, s2}
  Graceful = {s2}
  Workers = 2
INVARIANTS TypeOK AtMostOnePerform NoStrandedWork
PROPERTIES ExecutesSerially HandlerSettles
CHECK_DEADLOCK FALSE
