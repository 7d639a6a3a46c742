\* An edit from the device plugin to DRA, with every informer up to date and no failure.
SPECIFICATION FairSpec
CONSTANTS
  Node = {n1}
  Version = {v1}
  NoVersion = NoVersion
  Image = {i1}
  NoImage = NoImage
  ClusterDRA = TRUE
  Lagging = {}
  Modes = {"plugin", "dra"}
  Drift = {}
  MaxUid = 1
  MaxEvents = 1
\* Without a DeviceConfig, and with MaxUid of them gone, nothing is left to do.
CHECK_DEADLOCK FALSE
PROPERTIES NoSchedulerInDRAMode
