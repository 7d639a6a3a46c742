---------------------------- MODULE Fleet_proofs ----------------------------
(***************************************************************************)
(* Proofs about Fleet, for every set of nodes, DeviceConfigs, versions and *)
(* pools.                                                                  *)
(***************************************************************************)
EXTENDS Fleet, FiniteSetTheorems, TLAPS

USE NoNodeAssumption, NothingAssumption, FleetAssumption, EventsAssumption, VersionAssumption

\* What a list of d has of a node.
LEMMA ListedNode ==
  ASSUME TypeOK, NEW d \in DeviceConfig, NEW n \in Node
  PROVE  /\ GetTargetedNodes(d)[n] # Absent <=> pool[n] = spec[d].selector
         /\ pool[n] = spec[d].selector =>
              /\ GetTargetedNodes(d)[n].version = label[d][n]
              /\ GetTargetedNodes(d)[n].ready = ready[d][n]
              /\ GetTargetedNodes(d)[n].taints = taints[n]
BY DEF GetTargetedNodes, Absent

\* What the rolling upgrade of d does to nodes: it may uncordon one on its way that is
\* done, and then cordon and label one of another version, if none that is on its way
\* is not done.
LEMMA UpgradeEffect ==
  ASSUME TypeOK, NEW d \in DeviceConfig, NEW calls, phase[d] \in {"new", "live"},
         handleModuleVersionUpgrade(d, calls)
  PROVE  \E upgraded, next \in Node \cup {NoNode} :
           /\ upgraded # NoNode => upgraded \in OnItsWay(d)
           /\ next # NoNode => /\ spec[d].version # NoVersion
                               /\ pool[next] = spec[d].selector
                               /\ label[d][next] # spec[d].version
                               /\ upgraded = NoNode => OnItsWay(d) = {}
           /\ taints' \in [Node -> SUBSET {UpgradeTaint}]
           /\ \A n \in Node \ {upgraded, next} : taints'[n] = taints[n]
           /\ upgraded # NoNode => taints'[upgraded] = IF "uncordon" \in calls THEN {}
                                                       ELSE taints[upgraded]
           /\ label' \in [DeviceConfig -> [Node -> Versions]]
           /\ \A e \in DeviceConfig, n \in Node : e # d \/ n # next => label'[e][n] = label[e][n]
           /\ "kickoff" \in calls /\ next # NoNode => label'[d][next] = spec[d].version
<1>1. CASE spec[d].version = NoVersion /\ UNCHANGED <<taints, label>>
  BY <1>1 DEF TypeOK
<1>2. ASSUME spec[d].version # NoVersion,
             NEW upgraded \in GetUpgradedNode(GetTargetedNodes(d), spec[d].version),
             NEW next \in GetNodeForUpgrade(GetTargetedNodes(d), spec[d].version),
             LET object(n) == GetTargetedNodes(d)[n]
                 uncordoned == IF "uncordon" \in calls THEN {upgraded} ELSE {}
                 cordoned == IF "cordon" \in calls THEN {n \in Node : n = next /\ needsCordon(object(n))}
                             ELSE {}
                 started == IF "kickoff" \in calls THEN {next} ELSE {}
             IN  /\ taints' = [n \in Node |-> IF n \in uncordoned THEN uncordonedTaints(object(n))
                                              ELSE IF n \in cordoned THEN cordonedTaints(object(n))
                                              ELSE taints[n]]
                 /\ label' = [label EXCEPT ![d] = [n \in Node |-> IF n \in started THEN spec[d].version
                                                                  ELSE @[n]]]
      PROVE  /\ upgraded \in Node \cup {NoNode} /\ next \in Node \cup {NoNode}
             /\ upgraded # NoNode => upgraded \in OnItsWay(d)
             /\ next # NoNode => /\ spec[d].version # NoVersion
                                 /\ pool[next] = spec[d].selector
                                 /\ label[d][next] # spec[d].version
                                 /\ upgraded = NoNode => OnItsWay(d) = {}
             /\ taints' \in [Node -> SUBSET {UpgradeTaint}]
             /\ \A n \in Node \ {upgraded, next} : taints'[n] = taints[n]
             /\ upgraded # NoNode => taints'[upgraded] = IF "uncordon" \in calls THEN {}
                                                         ELSE taints[upgraded]
             /\ label' \in [DeviceConfig -> [Node -> Versions]]
             /\ \A e \in DeviceConfig, n \in Node : e # d \/ n # next => label'[e][n] = label[e][n]
             /\ "kickoff" \in calls /\ next # NoNode => label'[d][next] = spec[d].version
  <2> DEFINE object(n) == GetTargetedNodes(d)[n]
             nodes == GetTargetedNodes(d)
             v == spec[d].version
  <2>1. upgraded # NoNode => /\ upgraded \in Node /\ object(upgraded) # Absent
                             /\ getNodeUpgradeState(object(upgraded), v) = "nodeUpgraded"
                             /\ isNodeTainted(object(upgraded))
    BY DEF GetUpgradedNode, Listed
  <2>2. next # NoNode => /\ next \in Node /\ object(next) # Absent
                         /\ getNodeUpgradeState(object(next), v) = "nodeBeforeUpgrade"
                         /\ \A n \in Listed(nodes) : getNodeUpgradeState(nodes[n], v) # "nodeInUpgrade"
    BY DEF GetNodeForUpgrade, Listed
  <2>3. upgraded = NoNode => \A n \in Listed(nodes) :
                               getNodeUpgradeState(nodes[n], v) = "nodeUpgraded" => ~isNodeTainted(nodes[n])
    BY DEF GetUpgradedNode, Listed
  <2>4. \A n \in Node : taints[n] \in SUBSET {UpgradeTaint}
    BY DEF TypeOK
  <2>5. upgraded # NoNode => upgraded \in OnItsWay(d) /\ label[d][upgraded] = v
    BY <1>2, <2>1, <2>4, ListedNode DEF getNodeUpgradeState, isNodeTainted, OnItsWay, Drained, Attends
  <2>6. next # NoNode => pool[next] = spec[d].selector /\ label[d][next] # v
    BY <2>2, ListedNode DEF getNodeUpgradeState
  <2>7. next # NoNode /\ upgraded = NoNode => OnItsWay(d) = {}
    <3> SUFFICES ASSUME next # NoNode, upgraded = NoNode, NEW n \in OnItsWay(d) PROVE FALSE
      OBVIOUS
    <3>1. n \in Node /\ pool[n] = spec[d].selector /\ label[d][n] = v /\ UpgradeTaint \in taints[n]
      BY DEF OnItsWay, Drained, Attends
    <3>2. n \in Listed(nodes) /\ nodes[n].version = v /\ UpgradeTaint \in nodes[n].taints
      BY <3>1, ListedNode DEF Listed
    <3>3. getNodeUpgradeState(nodes[n], v) # "nodeInUpgrade"
      BY <2>2, <3>2
    <3>4. getNodeUpgradeState(nodes[n], v) = "nodeUpgraded"
      BY <3>2, <3>3 DEF getNodeUpgradeState
    <3> QED
      BY <2>3, <3>2, <3>4 DEF isNodeTainted
  <2> DEFINE cordoned == IF "cordon" \in calls THEN {n \in Node : n = next /\ needsCordon(object(n))}
                         ELSE {}
             uncordoned == IF "uncordon" \in calls THEN {upgraded} ELSE {}
             started == IF "kickoff" \in calls THEN {next} ELSE {}
  <2>8. taints' = [n \in Node |-> IF n \in uncordoned THEN uncordonedTaints(object(n))
                                  ELSE IF n \in cordoned THEN cordonedTaints(object(n))
                                  ELSE taints[n]]
    BY <1>2
  <2>9. label' = [label EXCEPT ![d] = [n \in Node |-> IF n \in started THEN v ELSE @[n]]]
    BY <1>2
  <2>10. uncordoned \subseteq {upgraded} /\ cordoned \subseteq {next} /\ NoNode \notin cordoned
    BY NoNodeAssumption
  <2>11. \A n \in Node : /\ n \in uncordoned => uncordonedTaints(object(n)) = {}
                         /\ n \in cordoned => cordonedTaints(object(n)) = {UpgradeTaint}
    <3>1. ASSUME NEW n \in Node, pool[n] = spec[d].selector
          PROVE  uncordonedTaints(object(n)) = {} /\ cordonedTaints(object(n)) = {UpgradeTaint}
      BY <2>4, <3>1, ListedNode DEF uncordonedTaints, cordonedTaints
    <3>2. \A n \in Node : n \in uncordoned \/ n \in cordoned => pool[n] = spec[d].selector
      BY <2>5, <2>6, <2>10 DEF OnItsWay, Attends
    <3> QED
      BY <3>1, <3>2
  <2>12. upgraded # NoNode => upgraded # next
    BY <2>5, <2>6
  <2> HIDE DEF object
  <2>13. taints' \in [Node -> SUBSET {UpgradeTaint}]
    BY <2>4, <2>8, <2>11
  <2>14. \A n \in Node \ {upgraded, next} : taints'[n] = taints[n]
    BY <2>8, <2>10
  <2>15. upgraded # NoNode => taints'[upgraded] = IF "uncordon" \in calls THEN {} ELSE taints[upgraded]
    BY <2>1, <2>8, <2>10, <2>11, <2>12
  <2>16. v \in Versions /\ label \in [DeviceConfig -> [Node -> Versions]]
    BY DEF TypeOK, DeviceConfigSpec
  <2> HIDE DEF v
  <2>17. label'[d] = [n \in Node |-> IF n \in started THEN v ELSE label[d][n]]
    BY <2>9, <2>16
  <2>18. label' \in [DeviceConfig -> [Node -> Versions]]
    BY <2>9, <2>16
  <2>19. \A e \in DeviceConfig, n \in Node : e # d \/ n # next => label'[e][n] = label[e][n]
    BY <2>9, <2>16, <2>17
  <2>20. "kickoff" \in calls /\ next # NoNode => label'[d][next] = v
    BY <2>2, <2>17
  <2> QED
    BY <1>2, <2>1, <2>2, <2>5, <2>6, <2>7, <2>13, <2>14, <2>15, <2>18, <2>19, <2>20 DEF v
<1> QED
  BY <1>1, <1>2 DEF handleModuleVersionUpgrade

-----------------------------------------------------------------------------
\* Every step keeps every variable in its type.
LEMMA TypeStep == TypeOK /\ [Next]_vars => TypeOK'
<1> SUFFICES ASSUME TypeOK, [Next]_vars PROVE TypeOK'
  OBVIOUS
<1> USE DEF Phase
<1>a. /\ \A d \in DeviceConfig : spec[d] \in DeviceConfigSpec /\ module[d] \in Module \cup {Nothing}
      /\ Nothing \notin Module
      /\ Version \subseteq Versions /\ NoVersion \in Versions
  BY DEF TypeOK, Module, Versions
<1>1. ASSUME NEW d \in DeviceConfig, NEW calls, ReconcileCalls(d, calls)
      PROVE  /\ TypeOK
             /\ taints' \in [Node -> SUBSET {UpgradeTaint}]
             /\ label' \in [DeviceConfig -> [Node -> Versions]]
             /\ phase' \in [DeviceConfig -> Phase]
             /\ module' \in [DeviceConfig -> Module \cup {Nothing}]
             /\ UNCHANGED <<pool, ready, spec>>
  <2>1. SetKMMModuleAsDesired(module[d], spec[d]) \in Module
    BY <1>a DEF SetKMMModuleAsDesired, Module, DeviceConfigSpec
  <2>2. module' \in [DeviceConfig -> Module \cup {Nothing}]
    BY <1>1, <2>1 DEF ReconcileCalls, handleKMMModule, TypeOK
  <2>3. taints' \in [Node -> SUBSET {UpgradeTaint}] /\ label' \in [DeviceConfig -> [Node -> Versions]]
    BY <1>1, UpgradeEffect DEF ReconcileCalls
  <2> QED
    BY <1>1, <2>2, <2>3 DEF ReconcileCalls, TypeOK
<1>2. ASSUME NEW d \in DeviceConfig, Reconcile(d) PROVE TypeOK'
  BY <1>1, <1>2 DEF Reconcile, TypeOK
<1>3. ASSUME NEW d \in DeviceConfig, ReconcileFails(d) PROVE TypeOK'
  BY <1>1, <1>3 DEF ReconcileFails, Event, TypeOK
<1>4. ASSUME NEW d \in DeviceConfig, deleteModule(d) PROVE TypeOK'
  <2>1. [module[d] EXCEPT !.deleting = TRUE] \in Module
    BY <1>4, <1>a DEF deleteModule, Module
  <2> QED
    BY <1>4, <2>1 DEF deleteModule, TypeOK
<1>5. ASSUME NEW d \in DeviceConfig, NEW nodes, RemoveUpgradeLabels(d, nodes)
      PROVE  label' \in [DeviceConfig -> [Node -> Versions]] /\ UNCHANGED <<pool, taints, ready, spec, module>>
  BY <1>5, <1>a DEF RemoveUpgradeLabels, TypeOK
<1>6. ASSUME NEW d \in DeviceConfig, finalizeDeviceConfig(d) PROVE TypeOK'
  BY <1>5, <1>6 DEF finalizeDeviceConfig, TypeOK
<1>7. ASSUME NEW d \in DeviceConfig, finalizeFails(d) PROVE TypeOK'
  BY <1>5, <1>7 DEF finalizeFails, Event, TypeOK
<1>8. ASSUME NEW d \in DeviceConfig, NEW n \in Node, KMMUnload(d, n) PROVE TypeOK'
  BY <1>8, <1>a DEF KMMUnload, TypeOK
<1>9. ASSUME NEW d \in DeviceConfig, NEW n \in Node, KMMLoad(d, n) PROVE TypeOK'
  <2>1. module[d].version \in Versions
    BY <1>9, <1>a DEF KMMLoad, Serves, Module, Versions
  <2> QED
    BY <1>9, <2>1 DEF KMMLoad, TypeOK
<1>10. ASSUME NEW d \in DeviceConfig, KMMFinalize(d) PROVE TypeOK'
  BY <1>10 DEF KMMFinalize, TypeOK
<1>11. ASSUME NEW d \in DeviceConfig, UserStep(d) PROVE TypeOK'
  <2>1. CASE CreateDeviceConfig(d)
    BY <2>1 DEF CreateDeviceConfig, Event, TypeOK
  <2>2. CASE EditDeviceConfig(d)
    BY <2>2 DEF EditDeviceConfig, Event, TypeOK
  <2>3. CASE DeleteDeviceConfig(d)
    <3>1. phase' \in [DeviceConfig -> Phase]
      BY <2>3 DEF DeleteDeviceConfig, TypeOK
    <3> QED
      BY <2>3, <3>1 DEF DeleteDeviceConfig, Event, TypeOK
  <2> QED
    BY <1>11, <2>1, <2>2, <2>3 DEF UserStep
<1>12. ASSUME NEW n \in Node, RelabelNode(n) PROVE TypeOK'
  BY <1>12 DEF RelabelNode, Event, TypeOK
<1>13. CASE UNCHANGED vars
  BY <1>13 DEF vars, TypeOK
<1> QED
  BY <1>2, <1>3, <1>4, <1>6, <1>7, <1>8, <1>9, <1>10, <1>11, <1>12, <1>13
     DEF Next, ReconcileStep, KMMStep

\* The states that a behaviour starts from have it too.
LEMMA TypeInit == Init => TypeOK
<1> SUFFICES ASSUME Init PROVE TypeOK
  OBVIOUS
<1>1. /\ spec \in [DeviceConfig -> DeviceConfigSpec]
      /\ label \in [DeviceConfig -> [Node -> Versions]] /\ ready = label
  BY DEF Init, DeviceConfigSpec, Versions
<1>2. \A d \in DeviceConfig :
        [version |-> spec[d].version, selector |-> spec[d].selector, deleting |-> FALSE] \in Module
  BY <1>1 DEF Module, DeviceConfigSpec
<1>3. module \in [DeviceConfig -> Module \cup {Nothing}]
  BY <1>2 DEF Init
<1> QED
  BY <1>1, <1>3 DEF Init, TypeOK, Phase

\* Every variable keeps its type: whatever patches a Module that is new, in use or
\* being deleted leaves a Module there, and a node is drained or not.
THEOREM TypeCorrect == Spec => []TypeOK
<1>1. Init => TypeOK
  BY TypeInit
<1>2. TypeOK /\ [Next]_vars => TypeOK'
  BY TypeStep
<1> QED
  BY <1>1, <1>2, PTL DEF Spec

-----------------------------------------------------------------------------
(* Counting *)

LEMMA AtMost ==
  ASSUME NEW T, IsFiniteSet(T), NEW S \in SUBSET T
  PROVE  Cardinality(S) \in Nat /\ Cardinality(T) \in Nat /\ Cardinality(S) <= Cardinality(T)
BY FS_Subset, FS_CardinalityType

LEMMA AtMostOneMore ==
  ASSUME NEW T, IsFiniteSet(T), NEW x, NEW S \in SUBSET (T \cup {x})
  PROVE  Cardinality(S) \in Nat /\ Cardinality(T) \in Nat /\ Cardinality(S) <= Cardinality(T) + 1
<1>1. IsFiniteSet(T \cup {x}) /\ Cardinality(T \cup {x}) \in {Cardinality(T), Cardinality(T) + 1}
  BY FS_AddElement
<1>2. Cardinality(T) \in Nat
  BY FS_CardinalityType
<1>3. Cardinality(S) \in Nat /\ Cardinality(S) <= Cardinality(T \cup {x})
  BY <1>1, AtMost
<1> QED
  BY <1>1, <1>2, <1>3

LEMMA OneLess ==
  ASSUME NEW T, IsFiniteSet(T), NEW x \in T, NEW S \in SUBSET (T \ {x})
  PROVE  Cardinality(S) \in Nat /\ Cardinality(T) \in Nat /\ Cardinality(S) + 1 <= Cardinality(T)
<1>1. IsFiniteSet(T \ {x}) /\ Cardinality(T \ {x}) = Cardinality(T) - 1
  BY FS_RemoveElement
<1>2. Cardinality(T) \in Nat
  BY FS_CardinalityType
<1>3. Cardinality(S) \in Nat /\ Cardinality(S) <= Cardinality(T \ {x})
  BY <1>1, AtMost
<1> QED
  BY <1>1, <1>2, <1>3

LEMMA Exchange ==
  ASSUME NEW T, IsFiniteSet(T), NEW x \in T, NEW y, NEW S \in SUBSET ((T \ {x}) \cup {y})
  PROVE  Cardinality(S) \in Nat /\ Cardinality(T) \in Nat /\ Cardinality(S) <= Cardinality(T)
<1>1. IsFiniteSet(T \ {x}) /\ Cardinality(T \ {x}) = Cardinality(T) - 1
  BY FS_RemoveElement
<1>2. Cardinality(T) \in Nat
  BY FS_CardinalityType
<1>3. Cardinality(S) \in Nat /\ Cardinality(S) <= Cardinality(T \ {x}) + 1
  BY <1>1, AtMostOneMore
<1> QED
  BY <1>1, <1>2, <1>3

LEMMA Counted ==
  ASSUME NEW configs \in SUBSET DeviceConfig
  PROVE  /\ IsFiniteSet(LeftBehind(configs)) /\ IsFiniteSet(BusyBut(configs))
         /\ Cardinality(LeftBehind(configs)) \in Nat /\ Cardinality(BusyBut(configs)) \in Nat
<1>1. LeftBehind(configs) \in SUBSET Node /\ BusyBut(configs) \in SUBSET DeviceConfig
  BY DEF LeftBehind, BusyBut, Drained
<1>2. IsFiniteSet(LeftBehind(configs)) /\ IsFiniteSet(BusyBut(configs))
  BY <1>1, FS_Subset
<1> QED
  BY <1>2, FS_CardinalityType

-----------------------------------------------------------------------------
(* Events *)

\* d is created, edited or deleted: what it had on its way stays behind, at the cost
\* of the event, and what others have stays theirs.
LEMMA PaidChanged ==
  ASSUME FleetInv, NEW d \in DeviceConfig, Drained' = Drained, events' = events + 1,
         \A e \in DeviceConfig \ {d} : OnItsWay(e)' = OnItsWay(e)
  PROVE  DrainsPaidFor'
<1> SUFFICES ASSUME NEW configs \in SUBSET DeviceConfig
             PROVE  Cardinality(LeftBehind(configs)') <= events' + Cardinality(BusyBut(configs)')
  BY DEF DrainsPaidFor
<1> DEFINE others == configs \ {d}
           left == Cardinality(LeftBehind(configs)')
           busy == Cardinality(BusyBut(configs)')
           leftOthers == Cardinality(LeftBehind(others))
           busyOthers == Cardinality(BusyBut(others))
<1>1. leftOthers <= events + busyOthers
  BY DEF FleetInv, DrainsPaidFor
<1>2. LeftBehind(configs)' \in SUBSET LeftBehind(others)
  BY DEF LeftBehind
<1>3. BusyBut(others) \in SUBSET (BusyBut(configs)' \cup {d})
  BY DEF BusyBut
<1>4. left \in Nat /\ leftOthers \in Nat /\ left <= leftOthers
  BY <1>2, Counted, AtMost
<1>5. busyOthers \in Nat /\ busy \in Nat /\ busyOthers <= busy + 1
  <2>1. BusyBut(configs)' \in SUBSET DeviceConfig
    BY DEF BusyBut
  <2>2. IsFiniteSet(BusyBut(configs)')
    BY <2>1, FS_Subset
  <2> QED
    BY <1>3, <2>2, AtMostOneMore
<1>6. events \in Nat
  BY DEF FleetInv, TypeOK
<1> HIDE DEF left, busy, leftOthers, busyOthers
<1>7. left <= events' + busy
  BY <1>1, <1>4, <1>5, <1>6
<1> QED
  BY <1>7 DEF left, busy

\* A node moves from one selection to another: one DeviceConfig at most had it on its way.
LEMMA PaidRelabelled ==
  ASSUME FleetInv, NEW n \in Node, RelabelNode(n)
  PROVE  DrainsPaidFor'
<1> SUFFICES ASSUME NEW configs \in SUBSET DeviceConfig
             PROVE  Cardinality(LeftBehind(configs)') <= events' + Cardinality(BusyBut(configs)')
  BY DEF DrainsPaidFor
<1> DEFINE left == Cardinality(LeftBehind(configs))
           busy == Cardinality(BusyBut(configs))
           left_ == Cardinality(LeftBehind(configs)')
           busy_ == Cardinality(BusyBut(configs)')
<1>1. left <= events + busy
  BY DEF FleetInv, DrainsPaidFor
<1>2. events \in Nat /\ events' = events + 1
  BY DEF FleetInv, TypeOK, RelabelNode, Event
<1>3. /\ Drained' = Drained
      /\ \A m \in Node \ {n} : pool'[m] = pool[m]
      /\ UNCHANGED <<label, phase, spec>>
  BY DEF RelabelNode, Drained, FleetInv, TypeOK
<1>4. \A e \in DeviceConfig, m \in Node \ {n} : m \in OnItsWay(e)' <=> m \in OnItsWay(e)
  BY <1>3 DEF OnItsWay, Attends
<1>5. \A d, e \in DeviceConfig : n \in OnItsWay(d) /\ n \in OnItsWay(e) => d = e
  BY DEF FleetInv, SelectionsApart, OnItsWay, Attends
<1>6. IsFiniteSet(BusyBut(configs)')
  <2>1. BusyBut(configs)' \in SUBSET DeviceConfig
    BY DEF BusyBut
  <2> QED
    BY <2>1, FS_Subset
<1>7. CASE \E d \in DeviceConfig \ configs : n \in OnItsWay(d)
  <2>1. PICK d \in DeviceConfig \ configs : n \in OnItsWay(d)
    BY <1>7
  <2>2. n \in LeftBehind(configs)
    BY <1>5, <2>1 DEF LeftBehind, OnItsWay
  <2>3. LeftBehind(configs)' \in SUBSET LeftBehind(configs)
    BY <1>3, <1>4, <2>2 DEF LeftBehind, Drained
  <2>4. BusyBut(configs) \in SUBSET (BusyBut(configs)' \cup {d})
    BY <1>4, <1>5, <2>1 DEF BusyBut, OnItsWay, Drained
  <2>5. left_ \in Nat /\ left \in Nat /\ left_ <= left
    BY <2>3, Counted, AtMost
  <2>6. busy_ \in Nat /\ busy \in Nat /\ busy <= busy_ + 1
    BY <1>6, <2>4, AtMostOneMore
  <2> HIDE DEF left, busy, left_, busy_
  <2>7. left_ <= events' + busy_
    BY <1>1, <1>2, <2>5, <2>6
  <2> QED
    BY <2>7 DEF left_, busy_
<1>8. CASE ~\E d \in DeviceConfig \ configs : n \in OnItsWay(d)
  <2>1. LeftBehind(configs)' \in SUBSET (LeftBehind(configs) \cup {n})
    BY <1>3, <1>4 DEF LeftBehind, Drained
  <2>2. BusyBut(configs) \in SUBSET BusyBut(configs)'
    BY <1>4, <1>8 DEF BusyBut, OnItsWay, Drained
  <2>3. left_ \in Nat /\ left \in Nat /\ left_ <= left + 1
    BY <2>1, Counted, AtMostOneMore
  <2>4. busy_ \in Nat /\ busy \in Nat /\ busy <= busy_
    BY <1>6, <2>2, AtMost
  <2> HIDE DEF left, busy, left_, busy_
  <2>5. left_ <= events' + busy_
    BY <1>1, <1>2, <2>3, <2>4
  <2> QED
    BY <2>5 DEF left_, busy_
<1> QED
  BY <1>7, <1>8

-----------------------------------------------------------------------------
(* Reconcile *)

\* What a Reconcile of d, or a part of it, does to the nodes that are drained and on
\* their way, in terms of the two nodes it picks.
LEMMA ReconcileEffect ==
  ASSUME FleetInv, NEW d \in DeviceConfig, NEW calls, ReconcileCalls(d, calls)
  PROVE  \E upgraded, next \in Node \cup {NoNode} :
           /\ upgraded # NoNode => /\ upgraded \in OnItsWay(d)
                                   /\ upgraded # next
                                   /\ upgraded \in Drained' <=> "uncordon" \notin calls
                                   /\ \A e \in DeviceConfig \ {d} : upgraded \notin OnItsWay(e)
                                   /\ "uncordon" \notin calls => upgraded \in OnItsWay(d)'
           /\ next # NoNode => /\ next \notin OnItsWay(d)
                               /\ upgraded = NoNode => OnItsWay(d) = {}
                               /\ "kickoff" \in calls /\ next \in Drained' => next \in OnItsWay(d)'
           /\ \A n \in Node \ {upgraded, next} : /\ n \in Drained' <=> n \in Drained
                                                 /\ n \in OnItsWay(d)' <=> n \in OnItsWay(d)
           /\ \A e \in DeviceConfig \ {d} : OnItsWay(e)' = OnItsWay(e)
<1>a. TypeOK /\ SelectionsApart
  BY DEF FleetInv
<1>b. /\ phase[d] \in {"new", "live"} /\ handleModuleVersionUpgrade(d, calls)
      /\ phase' = [phase EXCEPT ![d] = "live"]
      /\ UNCHANGED <<pool, spec>>
  BY DEF ReconcileCalls
<1>1. PICK upgraded, next \in Node \cup {NoNode} :
        /\ upgraded # NoNode => upgraded \in OnItsWay(d)
        /\ next # NoNode => /\ spec[d].version # NoVersion
                            /\ pool[next] = spec[d].selector
                            /\ label[d][next] # spec[d].version
                            /\ upgraded = NoNode => OnItsWay(d) = {}
        /\ taints' \in [Node -> SUBSET {UpgradeTaint}]
        /\ \A n \in Node \ {upgraded, next} : taints'[n] = taints[n]
        /\ upgraded # NoNode => taints'[upgraded] = IF "uncordon" \in calls THEN {}
                                                    ELSE taints[upgraded]
        /\ label' \in [DeviceConfig -> [Node -> Versions]]
        /\ \A e \in DeviceConfig, n \in Node : e # d \/ n # next => label'[e][n] = label[e][n]
        /\ "kickoff" \in calls /\ next # NoNode => label'[d][next] = spec[d].version
  BY <1>a, <1>b, UpgradeEffect
<1>2. \A e \in DeviceConfig, n \in Node : Attends(e, n)' <=> Attends(e, n)
  BY <1>a, <1>b DEF Attends, TypeOK
<1>3. \A e \in DeviceConfig \ {d}, n \in {upgraded, next} \cap Node : ~Attends(e, n)
  <2>1. \A n \in {upgraded, next} \cap Node : pool[n] = spec[d].selector
    BY <1>1, NoNodeAssumption DEF OnItsWay, Attends
  <2> QED
    BY <1>a, <1>b, <2>1 DEF SelectionsApart, Attends
<1>4. \A n \in Node \ {upgraded, next} : n \in Drained' <=> n \in Drained
  BY <1>1 DEF Drained
<1>5. \A n \in Node \ {upgraded, next} : n \in OnItsWay(d)' <=> n \in OnItsWay(d)
  BY <1>1, <1>2, <1>4, <1>b DEF OnItsWay
<1>6. \A e \in DeviceConfig \ {d} : OnItsWay(e)' = OnItsWay(e)
  <2> SUFFICES ASSUME NEW e \in DeviceConfig \ {d}, NEW n \in Node
               PROVE  n \in OnItsWay(e)' <=> n \in OnItsWay(e)
    BY DEF OnItsWay, Drained
  <2>1. CASE n \in {upgraded, next}
    BY <1>2, <1>3, <2>1 DEF OnItsWay
  <2>2. CASE n \notin {upgraded, next}
    BY <1>1, <1>2, <1>4, <1>b, <2>2 DEF OnItsWay
  <2> QED
    BY <2>1, <2>2
<1>7. ASSUME upgraded # NoNode
      PROVE  /\ upgraded \in OnItsWay(d)
             /\ upgraded # next
             /\ upgraded \in Drained' <=> "uncordon" \notin calls
             /\ \A e \in DeviceConfig \ {d} : upgraded \notin OnItsWay(e)
             /\ "uncordon" \notin calls => upgraded \in OnItsWay(d)'
  <2>1. upgraded \in Node /\ upgraded \in Drained /\ label[d][upgraded] = spec[d].version
    BY <1>1, <1>7 DEF OnItsWay, Drained
  <2>2. upgraded # next
    BY <1>1, <1>7, <2>1
  <2>3. upgraded \in Drained' <=> "uncordon" \notin calls
    BY <1>1, <1>7, <2>1 DEF Drained
  <2>4. \A e \in DeviceConfig \ {d} : upgraded \notin OnItsWay(e)
    BY <1>3, <2>1 DEF OnItsWay
  <2>5. "uncordon" \notin calls => upgraded \in OnItsWay(d)'
    BY <1>1, <1>2, <1>7, <1>b, <2>1, <2>2, <2>3 DEF OnItsWay
  <2> QED
    BY <1>1, <1>7, <2>2, <2>3, <2>4, <2>5
<1>8. ASSUME next # NoNode
      PROVE  /\ next \notin OnItsWay(d)
             /\ upgraded = NoNode => OnItsWay(d) = {}
             /\ "kickoff" \in calls /\ next \in Drained' => next \in OnItsWay(d)'
  <2>1. Attends(d, next)
    BY <1>1, <1>8, <1>b DEF Attends
  <2>2. next \in Node
    BY <1>8
  <2> QED
    BY <1>1, <1>2, <1>8, <1>b, <2>1, <2>2 DEF OnItsWay
<1> QED
  BY <1>4, <1>5, <1>6, <1>7, <1>8

\* A whole Reconcile drains one more node only when it has none on its way, and
\* then has.
LEMMA PaidReconciled ==
  ASSUME FleetInv, NEW d \in DeviceConfig, Reconcile(d)
  PROVE  DrainsPaidFor'
<1> SUFFICES ASSUME NEW configs \in SUBSET DeviceConfig
             PROVE  Cardinality(LeftBehind(configs)') <= events' + Cardinality(BusyBut(configs)')
  BY DEF DrainsPaidFor
<1> DEFINE left == Cardinality(LeftBehind(configs))
           busy == Cardinality(BusyBut(configs))
           left_ == Cardinality(LeftBehind(configs)')
           busy_ == Cardinality(BusyBut(configs)')
<1>a. left <= events + busy
  BY DEF FleetInv, DrainsPaidFor
<1>b. events \in Nat /\ events' = events
  BY DEF FleetInv, TypeOK, Reconcile
<1>c. IsFiniteSet(BusyBut(configs)')
  <2>1. BusyBut(configs)' \in SUBSET DeviceConfig
    BY DEF BusyBut
  <2> QED
    BY <2>1, FS_Subset
<1>d. IsFiniteSet(LeftBehind(configs)) /\ IsFiniteSet(BusyBut(configs)) /\ left \in Nat /\ busy \in Nat
  BY Counted
<1>1. PICK upgraded, next \in Node \cup {NoNode} :
        /\ upgraded # NoNode => /\ upgraded \in OnItsWay(d)
                                /\ upgraded # next
                                /\ upgraded \notin Drained'
                                /\ \A e \in DeviceConfig \ {d} : upgraded \notin OnItsWay(e)
        /\ next # NoNode => /\ next \notin OnItsWay(d)
                            /\ upgraded = NoNode => OnItsWay(d) = {}
                            /\ next \in Drained' => next \in OnItsWay(d)'
        /\ \A n \in Node \ {upgraded, next} : /\ n \in Drained' <=> n \in Drained
                                              /\ n \in OnItsWay(d)' <=> n \in OnItsWay(d)
        /\ \A e \in DeviceConfig \ {d} : OnItsWay(e)' = OnItsWay(e)
  BY ReconcileEffect DEF Reconcile, Calls
<1>2. \A n \in LeftBehind(configs)' : n \in Node /\ n \in Drained' /\ n # upgraded
  BY <1>1 DEF LeftBehind, Drained
<1>3. CASE d \in configs
  <2>1. LeftBehind(configs)' \in SUBSET LeftBehind(configs)
    BY <1>1, <1>2, <1>3 DEF LeftBehind
  <2>2. BusyBut(configs)' = BusyBut(configs)
    BY <1>1, <1>3 DEF BusyBut
  <2>3. left_ \in Nat /\ left_ <= left
    BY <1>d, <2>1, AtMost
  <2> QED
    BY <1>a, <1>b, <1>d, <2>2, <2>3
<1>4. CASE d \notin configs /\ next # NoNode /\ next \in Drained'
  <2>1. d \in BusyBut(configs)'
    BY <1>1, <1>4 DEF BusyBut
  <2>2. BusyBut(configs) \in SUBSET BusyBut(configs)'
    BY <1>1, <2>1 DEF BusyBut
  <2>3. CASE upgraded = NoNode
    <3>1. LeftBehind(configs)' \in SUBSET (LeftBehind(configs) \cup {next})
      BY <1>1, <1>2, <1>4 DEF LeftBehind
    <3>2. BusyBut(configs) \in SUBSET (BusyBut(configs)' \ {d})
      BY <1>1, <1>4, <2>2, <2>3 DEF BusyBut
    <3>3. left_ \in Nat /\ left_ <= left + 1
      BY <1>d, <3>1, AtMostOneMore
    <3>4. busy_ \in Nat /\ busy + 1 <= busy_
      BY <1>c, <2>1, <3>2, OneLess
    <3> HIDE DEF left, busy, left_, busy_
    <3>5. left_ <= events' + busy_
      BY <1>a, <1>b, <1>d, <3>3, <3>4
    <3> QED
      BY <3>5 DEF left_, busy_
  <2>4. CASE upgraded # NoNode
    <3>1. upgraded \in LeftBehind(configs)
      BY <1>1, <1>4, <2>4 DEF LeftBehind, OnItsWay
    <3>2. LeftBehind(configs)' \in SUBSET ((LeftBehind(configs) \ {upgraded}) \cup {next})
      BY <1>1, <1>2, <1>4 DEF LeftBehind
    <3>3. left_ \in Nat /\ left_ <= left
      BY <1>d, <3>1, <3>2, Exchange
    <3>4. busy_ \in Nat /\ busy <= busy_
      BY <1>c, <2>2, AtMost
    <3> HIDE DEF left, busy, left_, busy_
    <3>5. left_ <= events' + busy_
      BY <1>a, <1>b, <1>d, <3>3, <3>4
    <3> QED
      BY <3>5 DEF left_, busy_
  <2> QED
    BY <2>3, <2>4
<1>5. CASE d \notin configs /\ ~(next # NoNode /\ next \in Drained')
  <2>1. LeftBehind(configs)' \in SUBSET (LeftBehind(configs) \ {upgraded})
    BY <1>1, <1>2, <1>5 DEF LeftBehind
  <2>2. CASE upgraded = NoNode
    <3>1. BusyBut(configs) \in SUBSET BusyBut(configs)'
      BY <1>1, <1>5, <2>2 DEF BusyBut, OnItsWay, Drained
    <3>2. left_ \in Nat /\ left_ <= left
      BY <1>d, <2>1, AtMost
    <3>3. busy_ \in Nat /\ busy <= busy_
      BY <1>c, <3>1, AtMost
    <3> HIDE DEF left, busy, left_, busy_
    <3>4. left_ <= events' + busy_
      BY <1>a, <1>b, <1>d, <3>2, <3>3
    <3> QED
      BY <3>4 DEF left_, busy_
  <2>3. CASE upgraded # NoNode
    <3>1. upgraded \in LeftBehind(configs)
      BY <1>1, <1>5, <2>3 DEF LeftBehind, OnItsWay
    <3>2. BusyBut(configs) \in SUBSET (BusyBut(configs)' \cup {d})
      BY <1>1 DEF BusyBut
    <3>3. left_ \in Nat /\ left_ + 1 <= left
      BY <1>d, <2>1, <3>1, OneLess
    <3>4. busy_ \in Nat /\ busy <= busy_ + 1
      BY <1>c, <3>2, AtMostOneMore
    <3> HIDE DEF left, busy, left_, busy_
    <3>5. left_ <= events' + busy_
      BY <1>a, <1>b, <1>d, <3>3, <3>4
    <3> QED
      BY <3>5 DEF left_, busy_
  <2> QED
    BY <2>2, <2>3
<1> QED
  BY <1>3, <1>4, <1>5

\* One that fails may leave a drained node that nobody has labelled, and has cost an
\* event.
LEMMA PaidFailed ==
  ASSUME FleetInv, NEW d \in DeviceConfig, ReconcileFails(d)
  PROVE  DrainsPaidFor'
<1> SUFFICES ASSUME NEW configs \in SUBSET DeviceConfig
             PROVE  Cardinality(LeftBehind(configs)') <= events' + Cardinality(BusyBut(configs)')
  BY DEF DrainsPaidFor
<1> DEFINE left == Cardinality(LeftBehind(configs))
           busy == Cardinality(BusyBut(configs))
           left_ == Cardinality(LeftBehind(configs)')
           busy_ == Cardinality(BusyBut(configs)')
<1>a. left <= events + busy
  BY DEF FleetInv, DrainsPaidFor
<1>b. events \in Nat /\ events' = events + 1
  BY DEF FleetInv, TypeOK, ReconcileFails, Event
<1>c. IsFiniteSet(BusyBut(configs)')
  <2>1. BusyBut(configs)' \in SUBSET DeviceConfig
    BY DEF BusyBut
  <2> QED
    BY <2>1, FS_Subset
<1>d. IsFiniteSet(LeftBehind(configs)) /\ left \in Nat /\ busy \in Nat
  BY Counted
<1>1. PICK calls : ReconcileCalls(d, calls)
  BY DEF ReconcileFails
<1>2. PICK upgraded, next \in Node \cup {NoNode} :
        /\ upgraded # NoNode => /\ upgraded \in OnItsWay(d)
                                /\ upgraded # next
                                /\ upgraded \in Drained' <=> "uncordon" \notin calls
                                /\ \A e \in DeviceConfig \ {d} : upgraded \notin OnItsWay(e)
                                /\ "uncordon" \notin calls => upgraded \in OnItsWay(d)'
        /\ next # NoNode => next \notin OnItsWay(d)
        /\ \A n \in Node \ {upgraded, next} : /\ n \in Drained' <=> n \in Drained
                                              /\ n \in OnItsWay(d)' <=> n \in OnItsWay(d)
        /\ \A e \in DeviceConfig \ {d} : OnItsWay(e)' = OnItsWay(e)
  BY <1>1, ReconcileEffect
<1>3. \A n \in LeftBehind(configs)' : n \in Node /\ n \in Drained'
  BY DEF LeftBehind, Drained
<1>4. CASE d \notin configs /\ upgraded # NoNode
  <2>1. upgraded \in LeftBehind(configs)
    BY <1>2, <1>4 DEF LeftBehind, OnItsWay
  <2>2. CASE "uncordon" \in calls
    <3>1. LeftBehind(configs)' \in SUBSET ((LeftBehind(configs) \ {upgraded}) \cup {next})
      BY <1>2, <1>3, <1>4, <2>2 DEF LeftBehind
    <3>2. BusyBut(configs) \in SUBSET (BusyBut(configs)' \cup {d})
      BY <1>2 DEF BusyBut
    <3>3. left_ \in Nat /\ left_ <= left
      BY <1>d, <2>1, <3>1, Exchange
    <3>4. busy_ \in Nat /\ busy <= busy_ + 1
      BY <1>c, <3>2, AtMostOneMore
    <3> HIDE DEF left, busy, left_, busy_
    <3>5. left_ <= events' + busy_
      BY <1>a, <1>b, <1>d, <3>3, <3>4
    <3> QED
      BY <3>5 DEF left_, busy_
  <2>3. CASE "uncordon" \notin calls
    <3>1. LeftBehind(configs)' \in SUBSET (LeftBehind(configs) \cup {next})
      BY <1>2, <1>3, <1>4, <2>1, <2>3 DEF LeftBehind
    <3>2. BusyBut(configs) \in SUBSET BusyBut(configs)'
      BY <1>2, <1>4, <2>3 DEF BusyBut
    <3>3. left_ \in Nat /\ left_ <= left + 1
      BY <1>d, <3>1, AtMostOneMore
    <3>4. busy_ \in Nat /\ busy <= busy_
      BY <1>c, <3>2, AtMost
    <3> HIDE DEF left, busy, left_, busy_
    <3>5. left_ <= events' + busy_
      BY <1>a, <1>b, <1>d, <3>3, <3>4
    <3> QED
      BY <3>5 DEF left_, busy_
  <2> QED
    BY <2>2, <2>3
<1>5. CASE d \in configs \/ upgraded = NoNode
  <2>1. LeftBehind(configs)' \in SUBSET (LeftBehind(configs) \cup {next})
    BY <1>2, <1>3, <1>5 DEF LeftBehind
  <2>2. BusyBut(configs) \in SUBSET BusyBut(configs)'
    BY <1>2, <1>5 DEF BusyBut, OnItsWay, Drained
  <2>3. left_ \in Nat /\ left_ <= left + 1
    BY <1>d, <2>1, AtMostOneMore
  <2>4. busy_ \in Nat /\ busy <= busy_
    BY <1>c, <2>2, AtMost
  <2> HIDE DEF left, busy, left_, busy_
  <2>5. left_ <= events' + busy_
    BY <1>a, <1>b, <1>d, <2>3, <2>4
  <2> QED
    BY <2>5 DEF left_, busy_
<1> QED
  BY <1>4, <1>5

-----------------------------------------------------------------------------
\* Steps that change nothing of what is drained and for whom.
LEMMA PaidUnmoved ==
  ASSUME FleetInv, Drained' = Drained, \A e \in DeviceConfig : OnItsWay(e)' = OnItsWay(e),
         events' \in {events, events + 1}
  PROVE  DrainsPaidFor'
<1> SUFFICES ASSUME NEW configs \in SUBSET DeviceConfig
             PROVE  Cardinality(LeftBehind(configs)') <= events' + Cardinality(BusyBut(configs)')
  BY DEF DrainsPaidFor
<1> DEFINE left == Cardinality(LeftBehind(configs))
           busy == Cardinality(BusyBut(configs))
<1>1. left <= events + busy
  BY DEF FleetInv, DrainsPaidFor
<1>2. LeftBehind(configs)' = LeftBehind(configs) /\ BusyBut(configs)' = BusyBut(configs)
  BY DEF LeftBehind, BusyBut
<1>3. left \in Nat /\ busy \in Nat /\ events \in Nat
  BY Counted DEF FleetInv, TypeOK
<1> HIDE DEF left, busy
<1>4. left <= events' + busy
  <2>1. CASE events' = events
    BY <1>1, <2>1
  <2>2. CASE events' = events + 1
    <3>1. left <= (events + 1) + busy
      BY <1>1, <1>3
    <3> QED
      BY <2>2, <3>1
  <2> QED
    BY <2>1, <2>2
<1> QED
  BY <1>2, <1>4 DEF left, busy

\* A DeviceConfig that is being deleted has no node on its way: none to lose when its
\* labels go.
LEMMA PaidFinalized ==
  ASSUME FleetInv, NEW d \in DeviceConfig, NEW nodes, RemoveUpgradeLabels(d, nodes),
         phase' \in {phase, [phase EXCEPT ![d] = "none"]}, events' \in {events, events + 1}
  PROVE  DrainsPaidFor'
<1>1. /\ phase[d] = "deleting" /\ phase'[d] \in {"deleting", "none"}
      /\ \A e \in DeviceConfig \ {d} : phase'[e] = phase[e] /\ label'[e] = label[e]
      /\ UNCHANGED <<pool, taints, spec>>
  BY DEF RemoveUpgradeLabels, FleetInv, TypeOK
<1>2. Drained' = Drained
  BY <1>1 DEF Drained
<1>3. \A e \in DeviceConfig : OnItsWay(e)' = OnItsWay(e)
  BY <1>1, <1>2 DEF OnItsWay, Attends
<1> QED
  BY <1>2, <1>3, PaidUnmoved

\* FleetInv is inductive as long as DeviceConfigs share no node.
LEMMA FleetStep ==
  ASSUME FleetInv, [Next]_vars, SelectionsApart'
  PROVE  FleetInv'
<1>a. TypeOK'
  BY TypeStep DEF FleetInv
<1>1. CASE UNCHANGED vars
  <2>1. Drained' = Drained /\ \A e \in DeviceConfig : OnItsWay(e)' = OnItsWay(e)
    BY <1>1 DEF vars, Drained, OnItsWay, Attends
  <2>2. DrainsPaidFor'
    BY <1>1, <2>1, PaidUnmoved DEF vars
  <2> QED
    BY <1>a, <2>2 DEF FleetInv
<1>2. CASE Next
  <2>1. ASSUME NEW d \in DeviceConfig, deleteModule(d) \/ KMMStep(d) PROVE DrainsPaidFor'
    <3>1. UNCHANGED <<pool, taints, label, phase, spec, events>>
      BY <2>1 DEF deleteModule, KMMStep, KMMUnload, KMMLoad, KMMFinalize
    <3>2. Drained' = Drained /\ \A e \in DeviceConfig : OnItsWay(e)' = OnItsWay(e)
      BY <3>1 DEF Drained, OnItsWay, Attends
    <3> QED
      BY <3>1, <3>2, PaidUnmoved
  <2>2. ASSUME NEW d \in DeviceConfig, finalizeDeviceConfig(d) PROVE DrainsPaidFor'
    BY <2>2, PaidFinalized DEF finalizeDeviceConfig
  <2>3. ASSUME NEW d \in DeviceConfig, finalizeFails(d) PROVE DrainsPaidFor'
    BY <2>3, PaidFinalized DEF finalizeFails, Event
  <2>4. ASSUME NEW d \in DeviceConfig, UserStep(d) PROVE DrainsPaidFor'
    <3>1. /\ UNCHANGED <<pool, taints, label>> /\ events' = events + 1
          /\ \A e \in DeviceConfig \ {d} : spec'[e] = spec[e] /\ phase'[e] = phase[e]
      BY <2>4 DEF UserStep, CreateDeviceConfig, EditDeviceConfig, DeleteDeviceConfig, Event,
                  FleetInv, TypeOK
    <3>2. Drained' = Drained /\ \A e \in DeviceConfig \ {d} : OnItsWay(e)' = OnItsWay(e)
      BY <3>1 DEF Drained, OnItsWay, Attends
    <3> QED
      BY <3>1, <3>2, PaidChanged
  <2>5. DrainsPaidFor'
    BY <1>2, <2>1, <2>2, <2>3, <2>4, PaidReconciled, PaidFailed, PaidRelabelled
       DEF Next, ReconcileStep
  <2> QED
    BY <1>a, <2>5 DEF FleetInv
<1> QED
  BY <1>1, <1>2

\* At the start no node is drained.
LEMMA FleetInit == Init /\ SelectionsApart => FleetInv
<1> SUFFICES ASSUME Init, SelectionsApart PROVE FleetInv
  OBVIOUS
<1>2. \A configs : LeftBehind(configs) = {}
  BY DEF Init, LeftBehind, Drained
<1>3. \A configs \in SUBSET DeviceConfig :
        Cardinality(LeftBehind(configs)) = 0 /\ Cardinality(BusyBut(configs)) \in Nat
  BY <1>2, FS_EmptySet, Counted
<1>4. DrainsPaidFor
  BY <1>3 DEF Init, DrainsPaidFor
<1> QED
  BY <1>4, TypeInit DEF FleetInv

\* Of DeviceConfigs that never share a node: whatever edits, deletions, failures and moves of
\* nodes come in the middle of an upgrade, each leaves no more than one node drained
\* that no DeviceConfig is there to give back.
THEOREM OneAbandonedPerEvent == Spec => AbandonedDrainsNeedEvents
<1>1. Init /\ SelectionsApart => FleetInv
  BY FleetInit
<1>2. FleetInv /\ [Next]_vars /\ SelectionsApart' => FleetInv'
  BY FleetStep
<1>3. FleetInv => Cardinality(Abandoned) <= events
  <2> SUFFICES ASSUME FleetInv PROVE Cardinality(Drained \ Attended) <= events
    BY DEF Abandoned
  <2>1. BusyBut(DeviceConfig) = {} /\ DeviceConfig \in SUBSET DeviceConfig
    BY DEF BusyBut
  <2>2. Cardinality(LeftBehind(DeviceConfig)) <= events + 0
    BY <2>1, FS_EmptySet DEF FleetInv, DrainsPaidFor
  <2>3. Drained \ Attended \in SUBSET LeftBehind(DeviceConfig)
    BY DEF LeftBehind, OnItsWay, Attended, Drained
  <2>4. /\ Cardinality(Drained \ Attended) \in Nat
        /\ Cardinality(LeftBehind(DeviceConfig)) \in Nat
        /\ Cardinality(Drained \ Attended) <= Cardinality(LeftBehind(DeviceConfig))
    BY <2>1, <2>3, Counted, AtMost
  <2> QED
    BY <2>2, <2>4 DEF FleetInv, TypeOK
<1> QED
  BY <1>1, <1>2, <1>3, PTL DEF Spec, AbandonedDrainsNeedEvents
=============================================================================
