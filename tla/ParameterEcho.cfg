SPECIFICATION Spec
CONSTANTS
  Param = {h, e}
  HostParams = {h}
  EditorParams = {e}
  Value = {0, 1}
  InitialValue = 0
  CommandCapacity = 2
  EchoCapacity = 2
  StoreBuffer = TRUE
INVARIANTS
  HostEditsAccountedFor
  StoppedCopiesAgree
