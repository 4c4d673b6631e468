SPECIFICATION Spec
CONSTANTS
  t1 = t1
  t2 = t2
  Threads = {t1, t2}
  Entering = {t1}
  Free = Free
  Lot = 2
  Exits = {"close", "partial"}
  PositionAttached = TRUE
  RequireSL = TRUE
  VenueTP = FALSE
  AdoptVenue = FALSE
  StrictCancel = TRUE
  Prior = {0}
  FaultKinds = {"tpsl", "unconfirmed"}
  MaxFaults = 2
  MaxEntries = 2
  MaxFires = 1
  MaxReconciles = 1
  MaxCrashes = 1
INVARIANTS NoFlip ClosedOncePerOpen Agreement
CHECK_DEADLOCK FALSE
