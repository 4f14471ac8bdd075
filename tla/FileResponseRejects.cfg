\* What parse() refuses as out of range.
SPECIFICATION Spec
CONSTANTS
  Sizes = {3, 5}
  Numbers = {0, 1, 2, 4, 5}
  IntMax = 7
  BufSize = 2
  MaxSpecs = 1
INVARIANT RejectedIsOutOfRange
CHECK_DEADLOCK FALSE
