SPECIFICATION Spec
CONSTANTS
  a = a
  b = b
  Effect <- MCEffect
  noModule = noModule
  MaxModules = 3
  Starts <- MCStarts
  Presets <- MCPresets
  MaxEdits = 3
CHECK_DEADLOCK FALSE
INVARIANTS RackIsDrawn CallbackOwed HostKnowsSlots
PROPERTIES EditsTakeWhatWasPointedAt
