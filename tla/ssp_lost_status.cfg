SPECIFICATION Spec
CONSTANTS
  Pids = {1, 2}
  MAX_CHILDREN = 3
  MAX_UNKNOWN = 1
  ExitCodes = {1}
  Signals = {9, 18, 19}
  ARR_SIZE = 1
  HeapBytes = {0, 9}
  OtherIds = {}
  QuietPrint = FALSE
INVARIANT WaitLearnsAll
