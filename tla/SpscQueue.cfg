SPECIFICATION RingSpec
CONSTANTS
  Slots = 4
  Value = {x, y}
CHECK_DEADLOCK FALSE
INVARIANT NoSlotRace
PROPERTY IsFifo
