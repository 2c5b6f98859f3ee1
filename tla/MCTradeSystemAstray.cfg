SPECIFICATION SysSpec
CONSTANTS
  a = a
  b = b
  i = i
  Units = {a, b}
  Items = {}
  EDs = {0}
  Wallets <- Int
  Servers = {a, b}
  ServerGroup <- BothInOne
  DBInfo <- Infos
  MaxItems = 1
  MaxED = 2
  Reasons = {1, 16}
  MaxInFlight = 1
  Openers = {a}
  Deletes = {FALSE}
  Bids = {}
  MaxTrades = 2
  MaxPresses = 0
  MaxFaults = 2
  Owner <- Nobodys
  Wealth <- NoWealth
VIEW Seen
INVARIANTS QuietMeansSettled
CHECK_DEADLOCK FALSE
