SPECIFICATION SysSpec
CONSTANTS
  a = a
  b = b
  i = i
  Units = {a, b}
  Items = {i}
  EDs = {0}
  Wallets <- Int
  Servers = {a, b}
  ServerGroup <- BothInOne
  DBInfo <- Infos
  MaxItems = 1
  MaxED = 2
  Reasons = {1, 16}
  MaxInFlight = 1
  Openers = {a}
  Deletes = {FALSE, TRUE}
  Bids = {}
  MaxTrades = 2
  MaxPresses = 1
  MaxFaults = 0
  Owner <- OwnedByA
  Wealth <- NoWealth
VIEW Seen
INVARIANTS ApprovedHere
CHECK_DEADLOCK FALSE
