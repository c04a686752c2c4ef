SPECIFICATION FairSpec
CONSTANTS
  Setting = {s1, s2}
  Default = s1
  unset = unset
  MaxModules = 1
  CommandCapacity = 2
  BlocksToWait = 2
  Hosts = {"Ardour", "other"}
  MayFail = {"later"}
INVARIANTS RendersSizedModules HostLatencyRight SettingsAgree
PROPERTY PendingIsApplied
