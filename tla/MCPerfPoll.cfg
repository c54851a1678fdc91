SPECIFICATION FairSpec
CONSTANTS
  DataSize = 8
  Payloads = {0, 1}
  Writers = {w1}
  Nobody = Nobody
  MaxHead = 14
  max_evt = 2
  Timeouts <- MCTimeouts
  MaxSignals = 1
INVARIANTS  EqualOnlyWhenEmpty MaskRestored
PROPERTIES OutputIsRead FoundIsReturned SignalIsDelivered
CHECK_DEADLOCK FALSE
