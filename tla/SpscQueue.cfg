CONSTANTS
  Message = {m1, m2}
  NoMessage = none
  Capacity = 2
  Laps = 3
SPECIFICATION RingSpec
INVARIANTS
  NoSlotRace
PROPERTIES
  RefinesBoundedFifo
