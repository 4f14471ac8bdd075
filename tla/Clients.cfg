\* Two requests with a retry each, and a body that can arrive in two pieces; two
\* runs of a websocket client with two messages each, two frames and a close():
\* what the first leaves behind meets the second.  The policies differ in when
\* the deadline passes only, and with "step" it may at every operation.
SPECIFICATION Spec
CONSTANTS
  Policies = {"step"}
  MaxCalls = 2
  MaxBody = 2
  Frames = {m1, m2}
  Closes = {c1}
  MaxIn = 2
  MaxRuns = 2
INVARIANTS TypeOK AnswersAreOwn ClientFramesInOrder
PROPERTIES CloseSticks
CHECK_DEADLOCK FALSE
