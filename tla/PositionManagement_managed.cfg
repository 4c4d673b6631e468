SPECIFICATION ManagerSpec
CONSTANTS
  Prices <- MCPrices
  Risk = 2000
  Reach1 = 2000
  Reach2 = 3000
  Setups <- MCSetups
  Advised <- MCAdvised
  TrailGap = 1500
  Buffer = 100
  BackupBps = 15
  DryRun = FALSE
  Defer = FALSE
  RequireSl = FALSE
  MaxTrades = 2
  MaxQueue = 1
  MaxRefusals = 1
PROPERTIES TradesKeepContract MovesSafely MoveIsSeen BreachIsActedOn
CHECK_DEADLOCK FALSE
