SPECIFICATION Spec
CONSTANTS
  MaxMsgs = 2
  n1 = n1
  n2 = n2
  w1 = w1
  w2 = w2
  sym1 = sym1
  Symbols = {sym1}
  SymbolOf <- OneSymbol
  Workers = {w1}
  Names = {n1, n2}
  NameOf <- OneName
  Unowned = Unowned
  MaxDeliveries = 2
  PendingCount = 1
  NewCount = 2
  MaxCrashes = 1
  MaxMisreads = 1
PROPERTIES EverySignalSettled
