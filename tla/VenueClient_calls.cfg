SPECIFICATION Spec
CONSTANTS
  t1 = t1
  r2 = r2
  r1 = r1
  Entering = {t1}
  Readers = {r1, r2}
  Qty = 2
  Fallbacks = {"market", "skip"}
  MaxRetries = 2
  Threshold = 2
  Polls = 2
  MaxOutages = 1
INVARIANTS OneOrderPerCall NoDoubleEntry EntryAgrees StormBounded
PROPERTIES OutageIsCut CircuitRecovers
CHECK_DEADLOCK FALSE
