SPECIFICATION FairSpec
CONSTANTS
  g1 = g1
  g2 = g2
  Rooms = {1, 2}
  GameRooms = {2}
  Servers = {g1, g2}
  MaxQueue <- QueueBounds
INVARIANTS TypeOK FreeIsFree OneOpening NoRoomIsLost NoGhosts
PROPERTIES ClosedIsReturned
