CONSTANTS
  Values = {"on", "off"}
  NoValue = NoValue
  MaxControls = 3
SPECIFICATION Spec
INVARIANTS ReadsAreCurrent CacheFollowsControl ProxyFollowsDevice
CHECK_DEADLOCK FALSE
