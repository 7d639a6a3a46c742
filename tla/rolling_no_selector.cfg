\* spec.selector is omitted and one node has no accelerator.
SPECIFICATION FairSpec
CONSTANTS
  Node = {n1, n2}
  Version = {v1, v2}
  NoVersion = NoVersion
  UpgradeTaint = upgrade
  ForeignTaint = {}
  KeyTaint = {}
  Selector = nilSelector
  nilSelector = nilSelector
  PciNode = {n1}
  MayEmpty = FALSE
  FreshReads = TRUE
  MaxLag = 1
  Faults = {}
  MaxDisturbances = 0
PROPERTIES SelectedNodesConverge
