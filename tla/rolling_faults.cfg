\* Stale lists and faults: the rollout completes once they stop.
SPECIFICATION FairSpec
CONSTANTS
  Node = {n1, n2}
  Version = {v1, v2}
  NoVersion = NoVersion
  UpgradeTaint = upgrade
  ForeignTaint = {}
  KeyTaint = {}
  Selector = {n1, n2}
  nilSelector = nilSelector
  PciNode = {n1, n2}
  MayEmpty = TRUE
  FreshReads = FALSE
  MaxLag = 2
  Faults = {"error", "crash", "reboot", "change", "churn", "dropped"}
  MaxDisturbances = 2
PROPERTIES RolloutConverges
