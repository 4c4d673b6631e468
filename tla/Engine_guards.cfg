SPECIFICATION Spec
CONSTANTS
  e1 = e1
  e2 = e2
  Engines = {e1, e2}
  Balance = 3
  Initial = 4
  Sizes = {2, 3}
  MaxUsed = 1
  MaxFaults = 1
  MaxEntries = 2
  MaxCommands = 2
SYMMETRY MCSymmetry
INVARIANTS OneLateEntry
PROPERTIES FitsTheBalance
CHECK_DEADLOCK FALSE
