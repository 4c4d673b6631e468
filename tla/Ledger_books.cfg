CONSTANTS
  Callers = {t1, t2}
  t1 = t1
  t2 = t2
  INR = INR
  USDT = USDT
  Rate = 2
  MaxAmount = 2
  MaxQuantity = 2
  Symbols = {s1}
  s1 = s1
  MaxOps = 5
  MaxUids = 2
  MaxFaults = 1
SPECIFICATION Spec
SYMMETRY Symmetry
INVARIANT ReplayExplainsBalance
INVARIANT NoOverdraft
INVARIANT DoubleReleaseBounded
INVARIANT AvailableBacked
INVARIANT QuantityIsFills
