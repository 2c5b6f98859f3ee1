SPECIFICATION SysFairSpec
CONSTANTS
  a = a
  b = b
  i = i
  Units = {a, b}
  Items = {i}
  EDs = {0}
  Wallets <- Int
  Servers = {a, b}
  ServerGroup <- BothInOne
  DBInfo <- Infos
  MaxItems = 1
  MaxED = 2
  Reasons = {1}
  MaxInFlight = 1
  Openers = {a}
  Deletes = {FALSE, TRUE}
  Bids = {}
  MaxTrades = 1
  MaxPresses = 1
  MaxFaults = 1
  Owner <- OwnedByA
  Wealth <- NoWealth
PROPERTY SwapEnds
CHECK_DEADLOCK FALSE
