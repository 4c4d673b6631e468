SPECIFICATION Spec
CONSTANTS
  Qty = 1
  SpotHeld = 1
  Live = TRUE
  Interval = 2
  FaultKinds = {"refused", "unconfirmed", "write"}
  MaxFaults = 2
  MaxCrashes = 1
  MaxTime = 4
INVARIANTS BookIsTrue FundingOncePerInterval
PROPERTIES NakedPerpResolved
