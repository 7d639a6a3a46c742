---------------------------- MODULE NodeUpgrade ----------------------------
(***************************************************************************)
(* The decisions of internal/upgrade/upgrade.go: how a Node object is      *)
(* classified, which node of a list is picked, and what a patch writes.    *)
(* A Node object is reduced to what those decisions read: the module       *)
(* version label the operator sets, the version-ready label KMM sets, and  *)
(* the taints.                                                             *)
(*                                                                         *)
(* The informer cache returns a list in no particular order, so "the first *)
(* node such that" and "the last node such that" are any such node: the    *)
(* two Get operators return the set of possible results.                   *)
(***************************************************************************)

CONSTANTS Node,          \* names of Node objects
          Version,       \* driver versions
          NoVersion,     \* absent label, or empty spec.driverVersion
          UpgradeTaint,  \* the taint aws-neuron-driver-upgrade:NoExecute
          ForeignTaint,  \* taints of other writers
          KeyTaint       \* those of ForeignTaint that share the upgrade key
                         \* but have another effect

ASSUME VersionAssumption == NoVersion \notin Version
ASSUME TaintAssumption == /\ UpgradeTaint \notin ForeignTaint
                          /\ KeyTaint \subseteq ForeignTaint

NodeObject == [version : Version \cup {NoVersion},
               ready   : Version \cup {NoVersion},
               taints  : SUBSET (ForeignTaint \cup {UpgradeTaint})]

\* No Node object of that name (or a name that the list does not contain).
Absent == [absent |-> TRUE]

NodeOrAbsent == NodeObject \cup {Absent}

\* A Node object that just joined the cluster.
FreshNode == [version |-> NoVersion, ready |-> NoVersion, taints |-> {}]

NoNode == "nil"

-----------------------------------------------------------------------------
(* Plausible mistakes in the definitions below.  Nothing uses them: they are *)
(* put in the place of a definition to see that a property notices.          *)

\* `if ok && ready != v' for `if !ok || ready != v'.
missingReadyIsUpgraded(node, v) ==
  IF node.version # v                       THEN "nodeBeforeUpgrade"
  ELSE IF node.ready \notin {NoVersion, v}  THEN "nodeInUpgrade"
  ELSE                                           "nodeUpgraded"

\* The ready label is not looked at.
readyIgnored(node, v) == IF node.version # v THEN "nodeBeforeUpgrade" ELSE "nodeUpgraded"

\* `ok' for `!ok'.
oldNodeIsNew(node) == node.version # NoVersion

\* The ready label for the version label.
unloadedIsNew(node) == node.ready = NoVersion

\* `||' for `&&': any tainted node is as good as upgraded.
taintedOrUpgraded(nodes, v) ==
  LET tainted == {n \in Node : /\ nodes[n] # Absent
                               /\ UpgradeTaint \in nodes[n].taints}
  IN  IF tainted = {} THEN {NoNode} ELSE tainted

\* The loop goes on, instead of returning nil, at a node in upgrade.
secondNodeForUpgrade(nodes, v) ==
  LET before == {n \in Node : nodes[n] # Absent /\ nodes[n].version # v}
  IN  IF before = {} THEN {NoNode} ELSE before

\* The loop's condition is inverted: it drops every other taint.
keptInstead(node) == node.taints \cap {UpgradeTaint}

\* The new slice is made with a length, so a zero taint stays in it.
zeroTaintLeft(node) == (node.taints \ {UpgradeTaint}) \cup {NoVersion}

-----------------------------------------------------------------------------
\* getNodeUpgradeState; v is spec.driverVersion, never NoVersion here.
getNodeUpgradeState(node, v) ==
  IF node.version # v    THEN "nodeBeforeUpgrade"
  ELSE IF node.ready # v THEN "nodeInUpgrade"
  ELSE                        "nodeUpgraded"

isNewNodeForUpgrade(node) == node.version = NoVersion

\* isNodeTainted compares the taint's key only.
isNodeTainted(node) == node.taints \cap (KeyTaint \cup {UpgradeTaint}) # {}

\* The nodes that a list in API-object form contains.
Listed(nodes) == {n \in Node : nodes[n] # Absent}

\* Results GetUpgradedNode may return: NoNode stands for the nil pointer.
GetUpgradedNode(nodes, v) ==
  LET upgraded == {n \in Listed(nodes) :
                     /\ getNodeUpgradeState(nodes[n], v) = "nodeUpgraded"
                     /\ isNodeTainted(nodes[n])}
  IN  IF upgraded = {} THEN {NoNode} ELSE upgraded

\* Results GetNodeForUpgrade may return: nil as soon as one node is in upgrade.
GetNodeForUpgrade(nodes, v) ==
  LET in(state) == {n \in Listed(nodes) : getNodeUpgradeState(nodes[n], v) = state}
  IN  IF in("nodeInUpgrade") # {} \/ in("nodeBeforeUpgrade") = {}
      THEN {NoNode} ELSE in("nodeBeforeUpgrade")

\* UncordonUpgradedNode filters by key and effect, so a KeyTaint stays.
uncordonedTaints(node) == node.taints \ {UpgradeTaint}

\* CordonNodeForUpgrade patches neither a new node nor one already cordoned.
needsCordon(node) == ~isNewNodeForUpgrade(node) /\ UpgradeTaint \notin node.taints

cordonedTaints(node) == node.taints \cup {UpgradeTaint}
=============================================================================
