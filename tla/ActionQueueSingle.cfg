\* One thread runs the executor and makes every push.
SPECIFICATION FairSpec
CONSTANTS
  NoHandler = NoHandler
  Handlers = {h1, h2, h3}
  External = {}
  Stoppers = {s1, s2}
  Graceful = {}
  Workers = 1
PROPERTIES ShutdownReturns QuietAfterShutdown
CHECK_DEADLOCK FALSE
