SPECIFICATION Spec
CONSTANTS
  Items = {"a", "b", "c", "d", "e", "f"}
  Slots = 3
  NewUID <- Stored
CHECK_DEADLOCK FALSE
INVARIANTS TwentySlots Crossed
