SPECIFICATION HistorySpec
CONSTANTS
  Effect = {e1, e2}
  noModule = noModule
  MaxModules = 2
  Global = {gain}
  Value = {0, 1}
  Default = 0
  Depth = 2
  Places = 2
  vacant = vacant
  Short = 1
PROPERTY RemovalTakenBack
SYMMETRY Effects
