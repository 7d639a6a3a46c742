\* Only the DeviceConfig informer is ever behind; every failure, every edit and drift.
SPECIFICATION FairSpec
CONSTANTS
  Node = {n1}
  Version = {v1, v2}
  NoVersion = NoVersion
  Image = {i1}
  NoImage = NoImage
  ClusterDRA = TRUE
  Lagging = {"deviceConfig"}
  Modes = {"plugin", "dra", "none"}
  Drift = {"module", "nodeMetrics"}
  MaxUid = 2
  MaxEvents = 1
\* Without a DeviceConfig, and with MaxUid of them gone, nothing is left to do.
CHECK_DEADLOCK FALSE
INVARIANTS TypeOK FinalizerOutlivesModule HoldInv
PROPERTIES FinalizeInOrder EventuallyAsAsked ImplementsLife LabelsRemoved
