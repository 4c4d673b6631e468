SPECIFICATION Spec
CONSTANTS
  e1 = e1
  e2 = e2
  Engines = {e1}
  Balance = 4
  Initial = 4
  Sizes = {2}
  MaxUsed = 1
  MaxFaults = 2
  MaxEntries = 3
  MaxCommands = 2
PROPERTIES OrphanIsFound BadMarginIsCut
CHECK_DEADLOCK FALSE
