CONSTANTS
  Lot = 2
  Redis = TRUE
  Taxed = FALSE
  Account = 50
  FaultKinds <- AllFaults
  MaxOps = 3
  MaxCrashes = 2
  MaxMishaps = 1
SPECIFICATION Spec
CONSTRAINT MCBounded
INVARIANTS JournalIsState StopsRemembered PositionIsReducers ReadModelAgrees
\* The bounded wallet ends: all operations done, or down without crashes left.
CHECK_DEADLOCK FALSE
