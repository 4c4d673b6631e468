CONSTANTS
  Engines = {e1, e2}
  e1 = e1
  e2 = e2
  WalletPublishes = TRUE
  MaxDaily = 1
  MaxConsecutive = 2
  InitialBalance = 20
  LossDivisor = 10
  Results <- TradeResults
  MaxTrades = 3
  MaxDays = 2
  MaxMishaps = 1
SPECIFICATION Spec
SYMMETRY Symmetry
INVARIANT DailyTradesBounded
INVARIANT KillStopsEntries
INVARIANT DailyLossHalts
