CONSTANTS
  Readers = {r1, r2}
  Writers = {w1, w2}
  None = None
  Bytes = {a, b}
  PIPESIZE = 2
  UINT = 4
  MaxN = 3
SPECIFICATION Spec
SYMMETRY Symmetry
INVARIANTS TypeOK FreedOnce WriterSleepsOnFull ReaderWoken
PROPERTY ImplementsFifo
\* Once every descriptor is closed nothing more happens.
CHECK_DEADLOCK FALSE
