SPECIFICATION Spec
CONSTANTS
  Param = {h}
  HostParams = {h}
  EditorParams = {}
  Value = {0, 1}
  InitialValue = 0
  CommandCapacity = 1
  EchoCapacity = 1
  StoreBuffer = TRUE
INVARIANT NoEchoIsSwallowed
