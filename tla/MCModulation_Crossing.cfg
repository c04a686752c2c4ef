SPECIFICATION Spec
CONSTANTS
  Asked <- MCAsked
  Swept <- MCSwept
  Presets <- MCPresets
  EchoCapacity = 2
  CommandCapacity = 1
INVARIANT LevelWhateverCrossed
