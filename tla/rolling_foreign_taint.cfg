\* Another writer puts a taint on a node.
SPECIFICATION Spec
CONSTANTS
  Node = {n1, n2}
  Version = {v1, v2}
  NoVersion = NoVersion
  UpgradeTaint = upgrade
  ForeignTaint = {foreign}
  KeyTaint = {}
  Selector = {n1, n2}
  nilSelector = nilSelector
  PciNode = {n1, n2}
  MayEmpty = FALSE
  FreshReads = TRUE
  MaxLag = 1
  Faults = {"taint"}
  MaxDisturbances = 1
SYMMETRY NodeSymmetry
PROPERTIES ForeignTaintsKept
