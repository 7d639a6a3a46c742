\* Three informers behind, each on its own: deletion and repair still come to an end.
SPECIFICATION FairSpec
CONSTANTS
  Node = {n1}
  Version = {v1}
  NoVersion = NoVersion
  Image = {i1}
  NoImage = NoImage
  ClusterDRA = FALSE
  Lagging = {"deviceConfig", "module", "node"}
  Modes = {"plugin"}
  Drift = {"nodeMetrics", "module"}
  MaxUid = 2
  MaxEvents = 1
\* Without a DeviceConfig, and with MaxUid of them gone, nothing is left to do.
CHECK_DEADLOCK FALSE
PROPERTIES DeletionCompletes EventuallyAsAsked
