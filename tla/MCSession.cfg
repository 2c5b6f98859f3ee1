SPECIFICATION FairSpec
CONSTANTS
  Byte <- Bytes
  NoByte = NoByte
  MaxPacket = 4
  HeaderSize = 2
  Sizes = {3, 5}
  QueueSizes = {0, 3}
  Window = 3
  MaxPackets = 3
INVARIANTS TypeOK NothingLost InOrder InFlightIntact RoomToRead
PROPERTIES Arrives BothClose
VIEW Seen
CHECK_DEADLOCK FALSE
