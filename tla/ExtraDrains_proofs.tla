------------------------- MODULE ExtraDrains_proofs -------------------------
(***************************************************************************)
(* How many nodes RollingUpgrade has drained, for every set of nodes and   *)
(* versions, every selector and every mixture of faults: no more than one, *)
(* and one for each disturbance.                                           *)
(***************************************************************************)
EXTENDS RollingUpgrade_proofs, FiniteSetTheorems

\* The conjuncts of ExtraDrainsInv but for DrainInv.
Paid == DrainedAreTargeted /\ DrainedWereListed /\ DrainsPaidFor /\ ListPaidFor

\* There are finitely many nodes to drain.
LEMMA DrainsAreCounted ==
  ASSUME TypeOK
  PROVE  /\ IsFiniteSet(Drained) /\ Cardinality(Drained) \in Nat
         /\ IsFiniteSet(ListedDrained) /\ Cardinality(ListedDrained) \in Nat
         /\ disturbances \in Nat
<1>1. Drained \in SUBSET Node /\ ListedDrained \in SUBSET Node
  BY DEF Drained, Present, ListedDrained, Listed
<1>2. IsFiniteSet(Drained) /\ IsFiniteSet(ListedDrained)
  BY <1>1, FS_Subset, NodeAssumption
<1> QED
  BY <1>2, FS_CardinalityType DEF TypeOK

\* One node is on its way, and the others are paid for.
LEMMA OneMoreThanPaid ==
  ASSUME TypeOK, DrainsPaidFor
  PROVE  Cardinality(Drained) <= disturbances + 1
<1> DEFINE count == Cardinality(Drained)
<1>1. count \in Nat /\ disturbances \in Nat
  BY DrainsAreCounted
<1>2. pc \in PC
  BY DEF TypeOK
<1> HIDE DEF count
<1> SUFFICES count <= disturbances + 1
  BY DEF count
<1>3. CASE pc \in {"idle", "rest"}
  BY <1>1, <1>3 DEF DrainsPaidFor, One, count
<1>4. CASE pc \in {"module", "list", "uncordon", "cordon"} \/ (pc = "kickoff" /\ upgradeNode = NoNode)
  BY <1>1, <1>4 DEF DrainsPaidFor, One, count
<1>5. CASE pc = "kickoff" /\ upgradeNode # NoNode
  BY <1>1, <1>5 DEF DrainsPaidFor, One, count
<1> QED
  BY <1>2, <1>3, <1>4, <1>5 DEF PC

\* What a condition counts for.
LEMMA OneType == \A condition : One(condition) \in {0, 1}
BY DEF One

-----------------------------------------------------------------------------
\* Steps that leave Reconcile and the drained nodes where they are, at no cost or
\* at that of a disturbance, which pays for an edit of driverVersion.
LEMMA PaidStill ==
  ASSUME ExtraDrainsInv, UNCHANGED operator, Drained' = Drained,
         \A n \in Drained : Api'[n].version = Api[n].version,
         \/ UNCHANGED <<driverVersion, disturbances>>
         \/ disturbances' = disturbances + 1
  PROVE  Paid'
<1> USE DEF ExtraDrainsInv, DrainInv
<1>1. UNCHANGED <<pc, devConfig, targeted, upgradeNode>> /\ ListedDrained' = ListedDrained
  BY DEF operator, ListedDrained, Listed
<1>2. DrainedAreTargeted' /\ DrainedWereListed'
  BY <1>1 DEF DrainedAreTargeted, DrainedWereListed, Targeted
<1>3. /\ OnItsWay(devConfig)' = OnItsWay(devConfig)
      /\ ListedOnItsWay' = ListedOnItsWay
      /\ UNCHANGED driverVersion => OnItsWay(driverVersion)' = OnItsWay(driverVersion)
      /\ UNCHANGED driverVersion => Overtaken' = Overtaken
  BY <1>1 DEF OnItsWay, ListedOnItsWay, Overtaken
<1>4. CASE UNCHANGED <<driverVersion, disturbances>>
  BY <1>1, <1>2, <1>3, <1>4 DEF Paid, DrainsPaidFor, ListPaidFor
<1>5. CASE disturbances' = disturbances + 1
  <2> DEFINE count == Cardinality(Drained)
             listed == Cardinality(ListedDrained)
             cost == One(Overtaken)
             cost_ == One(Overtaken')
  <2>1. /\ count \in Nat /\ listed \in Nat /\ disturbances \in Nat
        /\ count <= disturbances + 1
        /\ cost \in {0, 1} /\ cost_ \in {0, 1}
    BY DrainsAreCounted, OneMoreThanPaid, OneType
  <2>2. Cardinality(Drained') = count /\ Cardinality(ListedDrained') = listed
    BY <1>1
  <2> HIDE DEF count, listed, cost, cost_
  <2>3. pc \in {"idle", "rest"} => count <= disturbances' + One(OnItsWay(driverVersion)')
    BY <1>5, <2>1, OneType
  <2>4. pc \in {"module", "list", "uncordon", "cordon"} \/ (pc = "kickoff" /\ upgradeNode = NoNode) =>
          count + cost_ <= disturbances' + One(OnItsWay(devConfig)')
    <3>1. pc \in {"module", "list", "uncordon", "cordon"} \/ (pc = "kickoff" /\ upgradeNode = NoNode) =>
            count + cost <= disturbances + One(OnItsWay(devConfig))
      BY DEF DrainsPaidFor, count, cost
    <3> QED
      BY <1>3, <1>5, <2>1, <3>1, OneType
  <2>5. pc = "kickoff" /\ upgradeNode # NoNode =>
          count + cost_ <= disturbances' + One(upgradeNode \in Drained)
    <3>1. pc = "kickoff" /\ upgradeNode # NoNode =>
            count + cost <= disturbances + One(upgradeNode \in Drained)
      BY DEF DrainsPaidFor, count, cost
    <3> QED
      BY <1>5, <2>1, <3>1, OneType
  <2>6. pc = "uncordon" => listed + cost_ <= disturbances' + One(ListedOnItsWay)
    <3>1. pc = "uncordon" => listed + cost <= disturbances + One(ListedOnItsWay)
      BY DEF ListPaidFor, listed, cost
    <3> QED
      BY <1>5, <2>1, <3>1, OneType
  <2>7. pc = "cordon" /\ GetNodeForUpgrade(targeted, devConfig) # {NoNode} =>
          count + cost_ <= disturbances'
    <3>1. pc = "cordon" /\ GetNodeForUpgrade(targeted, devConfig) # {NoNode} =>
            count + cost <= disturbances
      BY DEF ListPaidFor, count, cost
    <3> QED
      BY <1>5, <2>1, <3>1
  <2>8. DrainsPaidFor'
    BY <1>1, <2>2, <2>3, <2>4, <2>5 DEF DrainsPaidFor, cost_
  <2>9. ListPaidFor'
    BY <1>1, <1>3, <2>2, <2>6, <2>7 DEF ListPaidFor, cost_
  <2> QED
    BY <1>2, <2>8, <2>9 DEF Paid
<1> QED
  BY <1>4, <1>5

\* NodeLeave: fewer nodes are drained, and what the one on its way was worth the
\* disturbance is.
LEMMA PaidLess ==
  ASSUME ExtraDrainsInv, UNCHANGED <<operator, driverVersion>>,
         Drained' \subseteq Drained, disturbances' = disturbances + 1
  PROVE  Paid'
<1> USE DEF ExtraDrainsInv, DrainInv
<1> DEFINE count == Cardinality(Drained)
           left == Cardinality(Drained')
           listed == Cardinality(ListedDrained)
           cost == One(Overtaken)
<1>1. /\ UNCHANGED <<pc, devConfig, targeted, upgradeNode>>
      /\ ListedDrained' = ListedDrained /\ ListedOnItsWay' = ListedOnItsWay
      /\ Overtaken' = Overtaken
  BY DEF operator, ListedDrained, Listed, ListedOnItsWay, Overtaken
<1>2. DrainedAreTargeted' /\ DrainedWereListed'
  BY <1>1 DEF DrainedAreTargeted, DrainedWereListed, Targeted
<1>3. left \in Nat /\ left <= count
  <2>1. IsFiniteSet(Drained) /\ Drained' \in SUBSET Drained
    BY DrainsAreCounted
  <2> QED
    BY <2>1, FS_Subset, FS_CardinalityType
<1>4. /\ count \in Nat /\ listed \in Nat /\ disturbances \in Nat
      /\ count <= disturbances + 1
      /\ cost \in {0, 1}
  BY DrainsAreCounted, OneMoreThanPaid, OneType
<1> HIDE DEF count, left, listed, cost
<1>5. pc \in {"idle", "rest"} => left <= disturbances' + One(OnItsWay(driverVersion)')
  BY <1>3, <1>4, OneType
<1>6. pc \in {"module", "list", "uncordon", "cordon"} \/ (pc = "kickoff" /\ upgradeNode = NoNode) =>
        left + cost <= disturbances' + One(OnItsWay(devConfig)')
  <2>1. pc \in {"module", "list", "uncordon", "cordon"} \/ (pc = "kickoff" /\ upgradeNode = NoNode) =>
          count + cost <= disturbances + One(OnItsWay(devConfig))
    BY DEF DrainsPaidFor, count, cost
  <2> QED
    BY <1>3, <1>4, <2>1, OneType
<1>7. pc = "kickoff" /\ upgradeNode # NoNode =>
        left + cost <= disturbances' + One((upgradeNode \in Drained)')
  <2>1. pc = "kickoff" /\ upgradeNode # NoNode =>
          count + cost <= disturbances + One(upgradeNode \in Drained)
    BY DEF DrainsPaidFor, count, cost
  <2> QED
    BY <1>3, <1>4, <2>1, OneType
<1>8. pc = "uncordon" => listed + cost <= disturbances' + One(ListedOnItsWay)
  <2>1. pc = "uncordon" => listed + cost <= disturbances + One(ListedOnItsWay)
    BY DEF ListPaidFor, listed, cost
  <2> QED
    BY <1>4, <2>1, OneType
<1>9. pc = "cordon" /\ GetNodeForUpgrade(targeted, devConfig) # {NoNode} =>
        left + cost <= disturbances'
  <2>1. pc = "cordon" /\ GetNodeForUpgrade(targeted, devConfig) # {NoNode} =>
          count + cost <= disturbances
    BY DEF ListPaidFor, count, cost
  <2> QED
    BY <1>3, <1>4, <2>1
<1>10. DrainsPaidFor'
  BY <1>1, <1>5, <1>6, <1>7 DEF DrainsPaidFor, left, cost
<1>11. ListPaidFor'
  BY <1>1, <1>8, <1>9 DEF ListPaidFor, left, listed, cost
<1> QED
  BY <1>2, <1>10, <1>11 DEF Paid

\* A Reconcile that fails, or that dies, is a disturbance.
LEMMA PaidFailed ==
  ASSUME ExtraDrainsInv, Api' = Api, pc' = "idle", disturbances' = disturbances + 1
  PROVE  Paid'
<1> USE DEF ExtraDrainsInv, DrainInv
<1>1. Drained' = Drained
  BY DEF Drained, Present
<1>2. Cardinality(Drained) \in Nat /\ disturbances \in Nat /\ Cardinality(Drained) <= disturbances + 1
  BY DrainsAreCounted, OneMoreThanPaid
<1>3. Cardinality(Drained') <= disturbances' + One(OnItsWay(driverVersion)')
  BY <1>1, <1>2, OneType
<1> QED
  BY <1>1, <1>3 DEF Paid, DrainedAreTargeted, DrainedWereListed, DrainsPaidFor, ListPaidFor, Targeted

-----------------------------------------------------------------------------
\* Reconcile begins: the edit it has not seen, it sees.
LEMMA PaidBegun ==
  ASSUME ExtraDrainsInv, Reconcile \/ handleKMMModule
  PROVE  Paid'
<1> USE DEF ExtraDrainsInv, DrainInv
<1>1. /\ Api' = Api /\ Drained' = Drained
      /\ pc' \in {"module", "list"}
      /\ UNCHANGED <<driverVersion, disturbances>>
  BY DEF Reconcile, handleKMMModule, Api, Drained, Present
<1>2. DrainedAreTargeted' /\ DrainedWereListed' /\ ListPaidFor'
  BY <1>1 DEF DrainedAreTargeted, DrainedWereListed, ListPaidFor, Targeted
<1>3. Cardinality(Drained) \in Nat /\ disturbances \in Nat
  BY DrainsAreCounted
<1>4. Cardinality(Drained') + One(Overtaken') <= disturbances' + One(OnItsWay(devConfig)')
  <2>1. CASE Reconcile
    <3>1. devConfig' = driverVersion /\ ~Overtaken'
      BY <1>1, <2>1 DEF Reconcile, Overtaken
    <3>2. OnItsWay(devConfig)' = OnItsWay(driverVersion)
      BY <1>1, <3>1 DEF OnItsWay
    <3>3. Cardinality(Drained) <= disturbances + One(OnItsWay(driverVersion))
      BY <2>1 DEF Reconcile, DrainsPaidFor
    <3>4. One(Overtaken') = 0
      BY <3>1 DEF One
    <3> QED
      BY <1>1, <1>3, <3>2, <3>3, <3>4
  <2>2. CASE handleKMMModule
    <3>1. Overtaken' = Overtaken /\ OnItsWay(devConfig)' = OnItsWay(devConfig)
      BY <1>1, <2>2 DEF handleKMMModule, Overtaken, OnItsWay
    <3> QED
      BY <1>1, <2>2, <3>1 DEF handleKMMModule, DrainsPaidFor
  <2> QED
    BY <2>1, <2>2
<1> QED
  BY <1>1, <1>2, <1>4 DEF Paid, DrainsPaidFor

\* Reconcile ends without having picked a node, or that node is gone: what is on its
\* way to devConfig is on its way to driverVersion, or an edit has come between.
LEMMA PaidReturned ==
  ASSUME ExtraDrainsInv, Api' = Api, pc' \in {"idle", "rest"},
         UNCHANGED <<driverVersion, disturbances>>,
         \/ pc \in {"list", "uncordon", "cordon", "rest"}
         \/ pc = "kickoff" /\ upgradeNode \notin Drained
  PROVE  Paid'
<1> USE DEF ExtraDrainsInv, DrainInv
<1> DEFINE count == Cardinality(Drained)
           cost == One(Overtaken)
<1>1. Drained' = Drained /\ OnItsWay(driverVersion)' = OnItsWay(driverVersion)
  BY DEF Drained, Present, OnItsWay
<1>2. DrainedAreTargeted' /\ DrainedWereListed' /\ ListPaidFor'
  BY <1>1 DEF DrainedAreTargeted, DrainedWereListed, ListPaidFor, Targeted
<1>3. count \in Nat /\ disturbances \in Nat
  BY DrainsAreCounted
<1>4. count <= disturbances + One(OnItsWay(driverVersion))
  <2>1. CASE pc = "rest"
    BY <2>1 DEF DrainsPaidFor
  <2>2. CASE pc \in {"list", "uncordon", "cordon"} \/ (pc = "kickoff" /\ upgradeNode = NoNode)
    <3>1. count + cost <= disturbances + One(OnItsWay(devConfig))
      BY <2>2 DEF DrainsPaidFor
    <3> HIDE DEF count
    <3>2. CASE Overtaken
      BY <1>3, <3>1, <3>2, OneType DEF One
    <3>3. CASE ~Overtaken
      BY <1>3, <3>1, <3>3 DEF One, Overtaken
    <3> QED
      BY <3>2, <3>3
  <2>3. CASE pc = "kickoff" /\ upgradeNode # NoNode /\ upgradeNode \notin Drained
    <3>1. count + cost <= disturbances + One(upgradeNode \in Drained)
      BY <2>3 DEF DrainsPaidFor
    <3>2. One(upgradeNode \in Drained) = 0
      BY <2>3 DEF One
    <3> HIDE DEF count, cost
    <3>3. cost \in {0, 1}
      BY OneType DEF cost
    <3> QED
      BY <1>3, <3>1, <3>2, <3>3, OneType
  <2> QED
    BY <2>1, <2>2, <2>3
<1> QED
  BY <1>1, <1>2, <1>4 DEF Paid, DrainsPaidFor

\* A fresh list has every drained node, as it is.
LEMMA PaidListed ==
  ASSUME ExtraDrainsInv, FreshReads, GetTargetedNodes
  PROVE  Paid'
<1> USE DEF ExtraDrainsInv, DrainInv
<1>1. /\ Api' = Api /\ Cache = Api /\ Drained' = Drained
      /\ pc = "list" /\ pc' = "uncordon"
      /\ UNCHANGED <<devConfig, driverVersion, disturbances>>
  BY DEF GetTargetedNodes, Api, Cache, Drained, Present
<1>2. targeted' = [n \in Node |-> IF n \in Targeted THEN Api[n] ELSE Absent]
  BY <1>1 DEF GetTargetedNodes
<1>3. ListedDrained' = Drained
  BY <1>2 DEF ListedDrained, Listed, Drained, Present, DrainedAreTargeted
<1>4. /\ OnItsWay(devConfig)' = OnItsWay(devConfig)
      /\ ListedOnItsWay' = OnItsWay(devConfig)
      /\ Overtaken' = Overtaken
  <2>1. \A n \in Drained : targeted'[n] = Api[n]
    BY <1>2 DEF Drained, Present, DrainedAreTargeted
  <2> QED
    BY <1>1, <1>3, <2>1 DEF OnItsWay, ListedOnItsWay, Overtaken
<1>5. Cardinality(Drained) + One(Overtaken) <= disturbances + One(OnItsWay(devConfig))
  BY <1>1 DEF DrainsPaidFor
<1>6. DrainedAreTargeted' /\ DrainedWereListed'
  BY <1>1, <1>3 DEF DrainedAreTargeted, DrainedWereListed, Targeted
<1>7. DrainsPaidFor'
  BY <1>1, <1>4, <1>5 DEF DrainsPaidFor
<1>8. ListPaidFor'
  BY <1>1, <1>3, <1>4, <1>5 DEF ListPaidFor
<1> QED
  BY <1>6, <1>7, <1>8 DEF Paid

\* UncordonUpgradedNode gives back a listed node that is done, and leaves none when
\* there is one: no taint but its own makes GetUpgradedNode return a node.
LEMMA UncordonTakesOne ==
  ASSUME TypeOK, KeyTaint = {}, UncordonUpgradedNode
  PROVE  \/ /\ Api' = Api
            /\ \A n \in ListedDrained : getNodeUpgradeState(targeted[n], devConfig) # "nodeUpgraded"
         \/ \E n \in ListedDrained :
              /\ targeted[n].version = devConfig
              /\ n \in Present
              /\ Api' = [Api EXCEPT ![n].taints = uncordonedTaints(targeted[n])]
<1>1. PICK n \in GetUpgradedNode(targeted, devConfig) :
        \/ n = NoNode /\ UNCHANGED stream
        \/ /\ n # NoNode
           /\ Patch(n, IF uncordonedTaints(targeted[n]) = targeted[n].taints THEN Api[n]
                       ELSE [Api[n] EXCEPT !.taints = uncordonedTaints(targeted[n])])
  BY DEF UncordonUpgradedNode
<1>2. CASE n = NoNode
  <2>1. Api' = Api
    BY <1>1, <1>2 DEF Api
  <2>2. \A m \in Listed(targeted) :
          getNodeUpgradeState(targeted[m], devConfig) = "nodeUpgraded" => ~isNodeTainted(targeted[m])
    BY <1>2, NodeAssumption DEF GetUpgradedNode, Listed
  <2> QED
    BY <2>1, <2>2 DEF ListedDrained, isNodeTainted
<1>3. CASE n # NoNode
  <2>1. n \in Listed(targeted) /\ isNodeTainted(targeted[n])
    BY <1>3 DEF GetUpgradedNode
  <2>2. n \in ListedDrained
    BY <2>1 DEF ListedDrained, isNodeTainted
  <2>3. uncordonedTaints(targeted[n]) # targeted[n].taints
    BY <2>2 DEF ListedDrained, uncordonedTaints
  <2> DEFINE object == [Api[n] EXCEPT !.taints = uncordonedTaints(targeted[n])]
  <2>4. n \in Node /\ n \in Present /\ Write(n, object)
    BY <1>1, <1>3, <2>3, UpgradedNodeFacts DEF Patch, Present
  <2>5. object \in NodeOrAbsent
    BY <1>3, <2>4, ApiType, ObjectUpdate, UpgradedNodeFacts DEF Present, NodeOrAbsent
  <2>6. Api' = [Api EXCEPT ![n] = object]
    BY <2>4, <2>5, WriteEffect
  <2> QED
    BY <1>3, <2>2, <2>4, <2>6, UpgradedNodeFacts
<1> QED
  BY <1>1, <1>2, <1>3

\* The node that is done is the one the list has on its way.
LEMMA PaidUncordoned ==
  ASSUME ExtraDrainsInv, KeyTaint = {}, UncordonUpgradedNode
  PROVE  Paid'
<1> USE DEF ExtraDrainsInv, DrainInv
<1> DEFINE count == Cardinality(Drained)
           listed == Cardinality(ListedDrained)
           cost == One(Overtaken)
<1>1. /\ pc = "uncordon" /\ pc' = "cordon"
      /\ UNCHANGED <<devConfig, targeted, upgradeNode, driverVersion, disturbances>>
  BY DEF UncordonUpgradedNode
<1>2. Overtaken' = Overtaken
  BY <1>1 DEF Overtaken
<1>3. count \in Nat /\ listed \in Nat /\ disturbances \in Nat /\ cost \in {0, 1}
  BY DrainsAreCounted, OneType
<1>4. Drained \subseteq ListedDrained
  BY <1>1 DEF DrainedWereListed
<1>5. count + cost <= disturbances + One(OnItsWay(devConfig))
  BY <1>1 DEF DrainsPaidFor
<1>6. listed + cost <= disturbances + One(ListedOnItsWay)
  BY <1>1 DEF ListPaidFor
<1>7. CASE /\ Api' = Api
           /\ \A n \in ListedDrained : getNodeUpgradeState(targeted[n], devConfig) # "nodeUpgraded"
  <2>1. Drained' = Drained /\ OnItsWay(devConfig)' = OnItsWay(devConfig)
    BY <1>1, <1>7 DEF Drained, Present, OnItsWay
  <2>2. GetNodeForUpgrade(targeted, devConfig) # {NoNode} => count + cost <= disturbances
    <3> SUFFICES ASSUME GetNodeForUpgrade(targeted, devConfig) # {NoNode}
                 PROVE  count + cost <= disturbances
      OBVIOUS
    <3>1. \A n \in Listed(targeted) :
            getNodeUpgradeState(targeted[n], devConfig) # "nodeInUpgrade"
      BY DEF GetNodeForUpgrade
    <3>2. \A n \in ListedDrained : targeted[n].version # devConfig
      BY <1>7, <3>1 DEF ListedDrained, getNodeUpgradeState
    <3>3. One(ListedOnItsWay) = 0
      BY <3>2 DEF ListedOnItsWay, One
    <3>4. count <= listed
      BY <1>4, DrainsAreCounted, FS_Subset
    <3> HIDE DEF count, listed, cost
    <3> QED
      BY <1>3, <1>6, <3>3, <3>4
  <2>3. DrainsPaidFor'
    BY <1>1, <1>2, <1>5, <2>1 DEF DrainsPaidFor
  <2>4. ListPaidFor'
    BY <1>1, <1>2, <2>1, <2>2 DEF ListPaidFor
  <2> QED
    BY <1>1, <2>1, <2>3, <2>4 DEF Paid, DrainedAreTargeted, DrainedWereListed, Targeted
<1>8. ASSUME NEW n \in ListedDrained, targeted[n].version = devConfig, n \in Present,
             Api' = [Api EXCEPT ![n].taints = uncordonedTaints(targeted[n])]
      PROVE  Paid'
  <2>1. Drained' \subseteq Drained \ {n}
    <3>1. Api \in [Node -> NodeOrAbsent] /\ Api[n] \in NodeObject /\ n \in Node
      BY <1>8, ApiType DEF Present, NodeOrAbsent
    <3>2. (\A m \in Node \ {n} : Api'[m] = Api[m]) /\ Api'[n].taints = uncordonedTaints(targeted[n])
      BY <1>8, <3>1 DEF NodeObject
    <3>3. UpgradeTaint \notin Api'[n].taints
      BY <3>2 DEF uncordonedTaints
    <3> QED
      BY <3>2, <3>3 DEF Drained, Present
  <2> DEFINE left == Cardinality(Drained')
  <2>2. left \in Nat /\ left <= listed - 1
    <3>1. IsFiniteSet(ListedDrained) /\ Drained' \in SUBSET (ListedDrained \ {n})
      BY <1>4, <2>1, DrainsAreCounted
    <3>2. /\ IsFiniteSet(ListedDrained \ {n})
          /\ Cardinality(ListedDrained \ {n}) = listed - 1
      BY <1>8, <3>1, FS_RemoveElement
    <3> QED
      BY <3>1, <3>2, FS_Subset, FS_CardinalityType
  <2> HIDE DEF count, listed, cost, left
  <2>3. left + cost <= disturbances
    BY <1>3, <1>6, <2>2, OneType
  <2>4. left + cost <= disturbances + One(OnItsWay(devConfig)')
    BY <1>3, <2>2, <2>3, OneType
  <2>5. DrainsPaidFor'
    BY <1>1, <1>2, <2>4 DEF DrainsPaidFor, left, cost
  <2>6. ListPaidFor'
    BY <1>1, <1>2, <2>3 DEF ListPaidFor, left, cost
  <2> QED
    BY <1>1, <2>1, <2>5, <2>6 DEF Paid, DrainedAreTargeted, DrainedWereListed, Targeted
<1> QED
  BY <1>7, <1>8, UncordonTakesOne

\* A node is picked when none is on its way, and is the one that is.
LEMMA PaidCordoned ==
  ASSUME ExtraDrainsInv, CordonNodeForUpgrade
  PROVE  Paid'
<1> USE DEF ExtraDrainsInv, DrainInv
<1> DEFINE count == Cardinality(Drained)
           cost == One(Overtaken)
<1>1. /\ pc = "cordon" /\ pc' = "kickoff"
      /\ UNCHANGED <<devConfig, targeted, driverVersion, disturbances>>
  BY DEF CordonNodeForUpgrade
<1>2. Overtaken' = Overtaken
  BY <1>1 DEF Overtaken
<1>3. count \in Nat /\ disturbances \in Nat /\ cost \in {0, 1} /\ IsFiniteSet(Drained)
  BY DrainsAreCounted, OneType
<1>4. upgradeNode' \in GetNodeForUpgrade(targeted, devConfig)
  BY CordonEffect
<1>5. CASE upgradeNode' = NoNode
  <2>1. Api' = Api
    BY <1>5, CordonEffect
  <2>2. Drained' = Drained /\ OnItsWay(devConfig)' = OnItsWay(devConfig)
    BY <1>1, <2>1 DEF Drained, Present, OnItsWay
  <2>3. DrainsPaidFor'
    BY <1>1, <1>2, <1>5, <2>2 DEF DrainsPaidFor
  <2> QED
    BY <1>1, <2>2, <2>3 DEF Paid, DrainedAreTargeted, DrainedWereListed, ListPaidFor, Targeted
<1>6. CASE upgradeNode' # NoNode
  <2>1. count + cost <= disturbances
    BY <1>1, <1>4, <1>6 DEF ListPaidFor
  <2>2. upgradeNode' \in Targeted
    BY <1>4, <1>6, NodeForUpgradeFacts DEF ListedAreTargeted
  <2> HIDE DEF count
  <2>3. CASE Api' = Api
    <3>1. Drained' = Drained
      BY <2>3 DEF Drained, Present
    <3>2. count + cost <= disturbances + One((upgradeNode \in Drained)')
      BY <1>3, <2>1, OneType
    <3>3. DrainsPaidFor'
      BY <1>1, <1>2, <1>6, <3>1, <3>2 DEF DrainsPaidFor, count
    <3> QED
      BY <1>1, <3>1, <3>3 DEF Paid, DrainedAreTargeted, DrainedWereListed, ListPaidFor, Targeted
  <2>4. CASE /\ upgradeNode' \in Present
             /\ Api' = [Api EXCEPT ![upgradeNode'].taints = cordonedTaints(targeted[upgradeNode'])]
    <3>1. /\ Api \in [Node -> NodeOrAbsent]
          /\ upgradeNode' \in Node /\ Api[upgradeNode'] \in NodeObject
      BY <2>4, ApiType DEF Present, NodeOrAbsent
    <3>2. /\ \A m \in Node \ {upgradeNode'} : Api'[m] = Api[m]
          /\ Api'[upgradeNode'] = [Api[upgradeNode'] EXCEPT !.taints = cordonedTaints(targeted[upgradeNode'])]
      BY <2>4, <3>1
    <3>3. UpgradeTaint \in Api'[upgradeNode'].taints /\ Api'[upgradeNode'] # Absent
      <4>1. cordonedTaints(targeted[upgradeNode']) \in SUBSET (ForeignTaint \cup {UpgradeTaint})
        BY <1>4, <1>6, NodeForUpgradeFacts
      <4>2. Api'[upgradeNode'] \in NodeObject
        BY <3>1, <3>2, <4>1 DEF NodeObject
      <4>3. Api'[upgradeNode'].taints = cordonedTaints(targeted[upgradeNode'])
        BY <3>1, <3>2 DEF NodeObject
      <4> QED
        BY <4>2, <4>3, AbsentIsNoObject DEF cordonedTaints
    <3>4. Drained' = Drained \cup {upgradeNode'}
      BY <3>1, <3>2, <3>3 DEF Drained, Present
    <3> DEFINE more == Cardinality(Drained')
    <3>5. more \in Nat /\ more <= count + 1
      <4>1. more = IF upgradeNode' \in Drained THEN count ELSE count + 1
        BY <1>3, <3>4, FS_AddElement DEF count
      <4> QED
        BY <1>3, <4>1
    <3>6. One((upgradeNode \in Drained)') = 1
      BY <3>4 DEF One
    <3> HIDE DEF more, cost
    <3>7. more + cost <= disturbances + One((upgradeNode \in Drained)')
      BY <1>3, <2>1, <3>5, <3>6
    <3>8. DrainsPaidFor'
      BY <1>1, <1>2, <1>6, <3>7 DEF DrainsPaidFor, more, cost
    <3> QED
      BY <1>1, <2>2, <3>4, <3>8 DEF Paid, DrainedAreTargeted, DrainedWereListed, ListPaidFor, Targeted
  <2> QED
    BY <1>6, <2>3, <2>4, CordonEffect
<1> QED
  BY <1>5, <1>6

\* The picked node is on its way to devConfig, and counts unless driverVersion is
\* another by now.
LEMMA PaidKickedOff ==
  ASSUME ExtraDrainsInv, KickoffUpgrade
  PROVE  Paid'
<1> USE DEF ExtraDrainsInv, DrainInv
<1>1. /\ pc = "kickoff" /\ pc' = "rest"
      /\ UNCHANGED <<devConfig, targeted, upgradeNode, driverVersion, disturbances>>
  BY DEF KickoffUpgrade
<1>2. CASE upgradeNode = NoNode
  <2>1. Api' = Api
    BY <1>2 DEF KickoffUpgrade, Api
  <2>2. upgradeNode \notin Drained
    BY <1>2, NodeAssumption DEF Drained, Present
  <2> QED
    BY <1>1, <2>1, <2>2, PaidReturned
<1>3. CASE upgradeNode # NoNode
  <2> DEFINE object == [Api[upgradeNode] EXCEPT !.version = devConfig]
             count == Cardinality(Drained)
             cost == One(Overtaken)
  <2>1. upgradeNode \in Node /\ upgradeNode \in Present /\ Write(upgradeNode, object)
    BY <1>3 DEF KickoffUpgrade, Patch, Present, TypeOK
  <2>2. Api \in [Node -> NodeOrAbsent] /\ Api[upgradeNode] \in NodeObject
    BY <2>1, ApiType DEF Present, NodeOrAbsent
  <2>3. object \in NodeObject /\ object.version = devConfig /\ object.taints = Api[upgradeNode].taints
    BY <2>2 DEF NodeObject, TypeOK
  <2>4. Api' = [Api EXCEPT ![upgradeNode] = object]
    BY <2>1, <2>3, WriteEffect DEF NodeOrAbsent
  <2>5. Api'[upgradeNode] = object /\ \A n \in Node \ {upgradeNode} : Api'[n] = Api[n]
    <3> HIDE DEF object
    <3> QED
      BY <2>1, <2>2, <2>4
  <2>6. Drained' = Drained
    BY <2>1, <2>3, <2>5, AbsentIsNoObject DEF Drained, Present
  <2>7. count + cost <= disturbances + One(upgradeNode \in Drained)
    BY <1>1, <1>3 DEF DrainsPaidFor
  <2>8. count \in Nat /\ disturbances \in Nat
    BY DrainsAreCounted
  <2>9. upgradeNode \in Drained /\ ~Overtaken => OnItsWay(driverVersion)'
    BY <1>1, <2>3, <2>5, <2>6 DEF OnItsWay, Overtaken
  <2> HIDE DEF count
  <2>10. count <= disturbances + One(OnItsWay(driverVersion)')
    <3>1. CASE Overtaken
      BY <2>7, <2>8, <3>1, OneType DEF One
    <3>2. CASE ~Overtaken
      BY <2>7, <2>8, <2>9, <3>2 DEF One
    <3> QED
      BY <3>1, <3>2
  <2>11. DrainsPaidFor'
    BY <1>1, <2>6, <2>10 DEF DrainsPaidFor, count
  <2> QED
    BY <1>1, <2>6, <2>11 DEF Paid, DrainedAreTargeted, DrainedWereListed, ListPaidFor, Targeted
<1> QED
  BY <1>2, <1>3

-----------------------------------------------------------------------------
\* The others drain no node, and undo a drain at the cost of a disturbance only.
LEMMA PaidTouched ==
  ASSUME ExtraDrainsInv, NEW n \in Node, KMMStep(n) \/ EnvironmentStep(n)
  PROVE  Paid'
<1> USE DEF ExtraDrainsInv, DrainInv
<1>1. UNCHANGED operator
  BY OthersTouch
<1>2. PICK object : Touched(Api[n], object) /\ Api' = [Api EXCEPT ![n] = object]
  BY OthersTouch
<1>3. Api \in [Node -> NodeOrAbsent]
  BY ApiType
<1>4. Api'[n] = object /\ \A m \in Node \ {n} : Api'[m] = Api[m]
  BY <1>2, <1>3
<1>5. UNCHANGED driverVersion
  BY DEF KMMStep, KMMUnload, KMMLoad, EnvironmentStep, ChangeForeignTaint, NodeJoin, NodeLeave,
         NodeReboot
<1>6. CASE object # Absent
  <2>1. /\ Drained' = Drained
        /\ \A m \in Drained : Api'[m].version = Api[m].version
    BY <1>2, <1>4, <1>6 DEF Touched, Drained, Present, FreshNode
  <2>2. UNCHANGED disturbances \/ disturbances' = disturbances + 1
    BY DEF KMMStep, KMMUnload, KMMLoad, EnvironmentStep, ChangeForeignTaint, NodeJoin, NodeLeave,
           NodeReboot, Disturb
  <2> QED
    BY <1>1, <1>5, <2>1, <2>2, PaidStill
<1>7. CASE object = Absent
  <2>1. Drained' \subseteq Drained
    BY <1>4, <1>7 DEF Drained, Present
  <2>2. ~KMMStep(n)
    <3> SUFFICES ASSUME KMMStep(n) PROVE FALSE
      OBVIOUS
    <3>1. PICK version \in Version \cup {NoVersion} :
            Write(n, [Api[n] EXCEPT !.ready = version]) /\ Api[n] # Absent
      BY DEF KMMStep, KMMUnload, KMMLoad, TypeOK
    <3>2. [Api[n] EXCEPT !.ready = version] \in NodeObject
      BY <1>3, <3>1, ObjectUpdate
    <3>3. Api'[n] = [Api[n] EXCEPT !.ready = version]
      BY <1>3, <3>1, <3>2, WriteEffect DEF NodeOrAbsent
    <3> QED
      BY <1>4, <1>7, <3>2, <3>3, AbsentIsNoObject
  <2>3. disturbances' = disturbances + 1
    BY <2>2 DEF EnvironmentStep, ChangeForeignTaint, NodeJoin, NodeLeave, NodeReboot, Disturb
  <2> QED
    BY <1>1, <1>5, <2>1, <2>3, PaidLess
<1> QED
  BY <1>6, <1>7

\* At the start no node is drained.
LEMMA PaidInit == Init => ExtraDrainsInv
<1> SUFFICES ASSUME Init PROVE ExtraDrainsInv
  OBVIOUS
<1>1. PICK nodes \in [Node -> {Absent, FreshNode}
                                \cup [version : Version, ready : Version, taints : {{}}]] :
        stream = <<nodes>>
  BY DEF Init
<1>2. Api = nodes
  BY <1>1 DEF Api
<1>3. \A n \in Present : Api[n].taints = {}
  BY <1>1, <1>2 DEF Present, FreshNode
<1>4. Drained = {}
  BY <1>3 DEF Drained
<1>5. Cardinality(Drained) = 0
  BY <1>4, FS_EmptySet
<1>6. 0 <= disturbances + One(OnItsWay(driverVersion))
  BY OneType DEF Init
<1> QED
  BY <1>4, <1>5, <1>6, DrainInit DEF Init, ExtraDrainsInv, DrainedAreTargeted, DrainedWereListed,
     DrainsPaidFor, ListPaidFor

\* ExtraDrainsInv is inductive when lists are fresh and no other taint has the
\* upgrade taint's key.
LEMMA PaidStep ==
  ASSUME FreshReads, KeyTaint = {}, ExtraDrainsInv, [Next]_vars
  PROVE  ExtraDrainsInv'
<1>a. DrainInv /\ TypeOK
  BY DEF ExtraDrainsInv, DrainInv
<1>b. Api' = Api => /\ Drained' = Drained
                    /\ \A n \in Drained : Api'[n].version = Api[n].version
  BY DEF Drained, Present
<1>1. DrainInv'
  BY <1>a, DrainStep
<1>2. Paid'
  <2>1. CASE Reconcile \/ handleKMMModule
    BY <2>1, PaidBegun
  <2>2. CASE NoRollingUpgrade
    BY <2>2, PaidReturned DEF NoRollingUpgrade, Api
  <2>3. CASE GetTargetedNodes
    BY <2>3, PaidListed
  <2>4. CASE UncordonUpgradedNode
    BY <2>4, PaidUncordoned
  <2>5. CASE CordonNodeForUpgrade
    BY <2>5, PaidCordoned
  <2>6. CASE KickoffUpgrade
    BY <2>6, PaidKickedOff
  <2>7. CASE ReturnNil
    BY <2>7, PaidReturned DEF ReturnNil, Return, Api
  <2>8. CASE PatchNotFound
    <3>1. Api' = Api /\ pc' = "idle" /\ UNCHANGED <<driverVersion, disturbances>>
      BY <2>8 DEF PatchNotFound, Return, Api
    <3>2. pc \in {"uncordon", "cordon"} \/ (pc = "kickoff" /\ upgradeNode \notin Drained)
      BY <2>8 DEF PatchNotFound, Drained, Present
    <3> QED
      BY <3>1, <3>2, PaidReturned
  <2>9. CASE ReturnError \/ Crash
    <3>1. Api' = Api
      BY <2>9 DEF ReturnError, Crash, Api
    <3> QED
      BY <2>9, <3>1, PaidFailed DEF ReturnError, Crash, Return, Disturb
  <2>10. CASE FindDeviceConfigForNodeChange
    <3>1. Api' = Api
      BY <1>a, <2>10, WatchKeepsApi DEF FindDeviceConfigForNodeChange
    <3> QED
      BY <1>b, <2>10, <3>1, PaidStill DEF FindDeviceConfigForNodeChange
  <2>11. CASE DroppedEvent
    <3>1. Api' = Api
      BY <1>a, <2>11, WatchKeepsApi DEF DroppedEvent
    <3> QED
      BY <1>b, <2>11, <3>1, PaidStill DEF DroppedEvent, Disturb
  <2>12. CASE Resync
    BY <1>b, <2>12, PaidStill DEF Resync, Api
  <2>13. CASE ChangeVersion
    BY <1>b, <2>13, PaidStill DEF ChangeVersion, Disturb, Api
  <2>14. ASSUME NEW n \in Node, KMMStep(n) \/ EnvironmentStep(n) PROVE Paid'
    BY <2>14, PaidTouched
  <2>15. CASE UNCHANGED vars
    BY <1>b, <2>15, PaidStill DEF vars, Api
  <2> QED
    BY <2>1, <2>2, <2>3, <2>4, <2>5, <2>6, <2>7, <2>8, <2>9, <2>10, <2>11, <2>12, <2>13,
       <2>14, <2>15 DEF Next, ReconcileStep
<1> QED
  BY <1>1, <1>2 DEF ExtraDrainsInv, Paid

\* The invariant for that: every drained node is on its way to the version asked
\* for, one at most, or has cost a disturbance.
THEOREM DrainsArePaidFor ==
  ASSUME FreshReads, KeyTaint = {}
  PROVE  Spec => []ExtraDrainsInv
<1>1. Init => ExtraDrainsInv
  BY PaidInit
<1>2. ExtraDrainsInv /\ [Next]_vars => ExtraDrainsInv'
  BY PaidStep
<1> QED
  BY <1>1, <1>2, PTL DEF Spec

\* With fresh lists, and however many reconciles fail, die or are overtaken by an
\* edit between the cordon and the kickoff, each such mishap leaves no more than one
\* node drained besides the one under way.
THEOREM OneDrainPerFault ==
  ASSUME FreshReads, KeyTaint = {}
  PROVE  Spec => []ExtraDrainsNeedFaults
<1>1. ExtraDrainsInv => ExtraDrainsNeedFaults
  BY OneMoreThanPaid, DrainsAreCounted DEF ExtraDrainsInv, DrainInv, ExtraDrainsNeedFaults
<1> QED
  BY <1>1, DrainsArePaidFor, PTL
=============================================================================
