SPECIFICATION SysSpec
CONSTANTS
  s = s
  b = b
  potion = potion
  Units = {s, b}
  Sellers = {s}
  Servers = {s, b}
  Items = {potion}
  Stackable = {potion}
  Quantities = {1}
  Price <- OneED
  EDs = {}
  MaxGoods = {1}
  MaxUser = 2
  MaxLeft = 3
  Used = {potion}
  MaxInFlight = 1
  MaxMoves <- Reopening
  MaxBuys = 1
  MaxUses = 2
  MaxFaults = 1
  Wealth <- TwoEach
  Stock <- SellersHaveThree
VIEW Seen
INVARIANT BooksBalance
CHECK_DEADLOCK FALSE
