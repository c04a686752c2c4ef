SPECIFICATION Spec
CONSTANTS
  Effect = {a, b}
  noModule = noModule
  MaxModules = 3
  WriterSets = {{"host"}, {"editor"}}
  CommandCapacity = 2
  EchoCapacity = 2
INVARIANT TypeOK
