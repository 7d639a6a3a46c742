\* Fresh lists, every fault but reboots, three nodes; without any
\* the events are enough.
SPECIFICATION EventSpec
CONSTANTS
  Node = {n1, n2, n3}
  Version = {v1, v2}
  NoVersion = NoVersion
  UpgradeTaint = upgrade
  ForeignTaint = {}
  KeyTaint = {}
  Selector = {n1, n2, n3}
  nilSelector = nilSelector
  PciNode = {n1, n2, n3}
  MayEmpty = FALSE
  FreshReads = TRUE
  MaxLag = 1
  Faults = {"error", "crash", "change", "churn"}
  MaxDisturbances = 2
INVARIANTS OneNodePerVersion ExtraDrainsNeedFaults OneNodeInv ExtraDrainsInv
PROPERTIES UncordonOnlyWhenReady ImplementsRollout EventsSuffice
