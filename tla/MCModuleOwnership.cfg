SPECIFICATION Spec
CONSTANTS
  Module = {m1, m2, m3, m4}
  Chain = {c1}
  Sample = {s1}
  engine = engine
  none = none
  MaxModules = 2
  CommandCapacity = 1
  RetireCapacity = 2
  MaxCount = 255
INVARIANTS EveryReferenceHeld NothingDangles NothingIsLeft
PROPERTY AudioFreesNothing
CHECK_DEADLOCK FALSE
SYMMETRY Addresses
