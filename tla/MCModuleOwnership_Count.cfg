SPECIFICATION Spec
CONSTANTS
  Module = {m1, m2, m3, m4}
  Chain = {}
  Sample = {}
  engine = engine
  none = none
  MaxModules = 1
  CommandCapacity = 1
  RetireCapacity = 4
  MaxCount = 8
INVARIANT CountsFit
CHECK_DEADLOCK FALSE
