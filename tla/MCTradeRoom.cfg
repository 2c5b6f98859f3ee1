SPECIFICATION FairSpec
CONSTANTS
  a = a
  b = b
  c = c
  Units = {a, b, c}
  Items = {i}
  EDs = {0, 1}
  Wallets = {0, 2}
  Servers = {g1, g2}
  ServerGroup <- TwoGroups
  DBInfo = {info}
  MaxItems = 1
  MaxED = 2
  Reasons = {1, 16}
INVARIANTS NoFlagBeforeItsTime OffersStand ReadyToSwap IndInv ExecutionIsMutual
PROPERTIES GoodsFrozen ChangeVoidsOffers KeepsTheDeal LoneTraderIsReleased
