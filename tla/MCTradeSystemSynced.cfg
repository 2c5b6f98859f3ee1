SPECIFICATION SysSpec
CONSTANTS
  a = a
  b = b
  i = i
  Units = {a, b}
  Items = {}
  EDs = {0, 1}
  Wallets <- Int
  Servers = {a, b}
  ServerGroup <- BothInOne
  DBInfo <- Infos
  MaxItems = 1
  MaxED = 2
  Reasons = {1, 16}
  MaxInFlight = 1
  Openers = {a}
  Deletes = {FALSE, TRUE}
  Bids = {0, 1}
  MaxTrades = 1
  MaxPresses = 1
  MaxFaults = 0
  Owner <- OwnedByA
  Wealth <- OneEach
VIEW Seen
INVARIANTS SyncedWhenExecuted
CHECK_DEADLOCK FALSE
