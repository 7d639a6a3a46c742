\* Fresh lists, every fault, two nodes.
SPECIFICATION Spec
CONSTANTS
  Node = {n1, n2}
  Version = {v1, v2}
  NoVersion = NoVersion
  UpgradeTaint = upgrade
  ForeignTaint = {foreign}
  KeyTaint = {foreign}
  Selector = {n1, n2}
  nilSelector = nilSelector
  PciNode = {n1, n2}
  MayEmpty = TRUE
  FreshReads = TRUE
  MaxLag = 2
  Faults = {"error", "crash", "reboot", "change", "churn", "taint", "dropped"}
  MaxDisturbances = 2
SYMMETRY NodeSymmetry
INVARIANTS TypeOK SwapOnlyDrained DrainInv
