\* Stale lists, but driverVersion stays.
SPECIFICATION Spec
CONSTANTS
  Node = {n1, n2}
  Version = {v1, v2}
  NoVersion = NoVersion
  UpgradeTaint = upgrade
  ForeignTaint = {}
  KeyTaint = {}
  Selector = {n1, n2}
  nilSelector = nilSelector
  PciNode = {n1, n2}
  MayEmpty = FALSE
  FreshReads = FALSE
  MaxLag = 3
  Faults = {"error", "crash", "reboot", "churn", "dropped"}
  MaxDisturbances = 2
SYMMETRY NodeSymmetry
INVARIANTS SwapOnlyDrained StaleInv
