SPECIFICATION FairSpec
CONSTANTS
  a = a
  b = b
  c = c
  potion = potion
  sword = sword
  Units = {a, b, c}
  Servers = {g1, g2}
  Items = {potion, sword}
  Stackable = {potion}
  Quantities = {1, 2}
  Price <- Prices
  EDs = {1, 3}
  MaxGoods = {1, 2}
  MaxUser = 3
  MaxLeft = 3
INVARIANTS TypeOK NeverOversold OneSeller SellsWhileListed
PROPERTIES IdleShopIsReleased
VIEW Seen
