SPECIFICATION Spec
CONSTANTS
  t1 = t1
  t2 = t2
  Threads = {t1, t2}
  Entering = {t1}
  Free = Free
  Lot = 4
  Exits = {"close", "partial"}
  PositionAttached = TRUE
  RequireSL = TRUE
  VenueTP = FALSE
  AdoptVenue = TRUE
  StrictCancel = FALSE
  Prior = {0}
  FaultKinds = {"cancel", "read", "refused", "tpsl"}
  MaxFaults = 1
  MaxEntries = 1
  MaxFires = 0
  MaxReconciles = 2
  MaxCrashes = 0
INVARIANTS Protected
PROPERTIES BooksKeepContract
CHECK_DEADLOCK FALSE
