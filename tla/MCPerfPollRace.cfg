SPECIFICATION Spec
CONSTANTS
  DataSize = 8
  Payloads = {0}
  Writers = {w1, w2}
  Nobody = Nobody
  MaxHead = 6
  max_evt = 2
  Timeouts = {1}
  MaxSignals = 0
INVARIANT EqualOnlyWhenEmpty
CHECK_DEADLOCK FALSE
