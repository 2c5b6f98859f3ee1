SPECIFICATION SysSpec
CONSTANTS
  a = a
  b = b
  i = i
  Units = {a, b}
  Items = {i}
  EDs = {0, 1}
  Wallets <- Int
  Servers = {a, b}
  ServerGroup <- BothInOne
  DBInfo <- Infos
  MaxItems = 1
  MaxED = 2
  Reasons = {1}
  MaxInFlight = 1
  Openers = {a}
  Deletes = {FALSE, TRUE}
  Bids = {1}
  MaxTrades = 1
  MaxPresses = 1
  MaxFaults = 1
  Owner <- OwnedByA
  Wealth <- OnlyB
VIEW Seen
INVARIANTS SysTypeOK SwapIsTheDeal OneSwapPerTrade OneHolder QuietMeansSettled
CHECK_DEADLOCK FALSE
