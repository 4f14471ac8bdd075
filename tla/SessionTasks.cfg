SPECIFICATION SessionFairSpec
CONSTANTS
  MaxRequests = 3
  MaxBody = 1
  MaxSent = 3
  Frames = {m1, m2}
  Closes = {c1}
  MaxIn = 2
  MaxThreads = 2
INVARIANTS SessionTypeOK InStep AnsweredInOrder InOrder EndMeansAll WebsocketInOrder
PROPERTIES NothingSentAfterClose TasksSettle
CHECK_DEADLOCK FALSE
