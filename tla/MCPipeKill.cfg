CONSTANTS
  Readers = {r1}
  Writers = {w1, w2}
  None = None
  Bytes = {a}
  PIPESIZE = 2
  UINT = 4
  MaxN = 2
SPECIFICATION Spec
INVARIANT ReaderSleepsOnEmpty
CHECK_DEADLOCK FALSE
