\* Two DeviceConfigs that may share nodes, two nodes that move between two pools.
SPECIFICATION MCFairSpec
CONSTANTS
  Node = {n1, n2}
  Version = {v1, v2}
  NoVersion = NoVersion
  UpgradeTaint = upgrade
  ForeignTaint = {}
  KeyTaint = {}
  DeviceConfig = {d1, d2}
  Pool = {p1, p2}
  Nothing = Nothing
  MaxEvents = 2
  d1 = d1
  v1 = v1
  p1 = p1
\* Without a DeviceConfig, and with no events left, nothing is left to do.
CHECK_DEADLOCK FALSE
INVARIANTS TypeOK
PROPERTIES Settled AbandonedDrainsNeedEvents
