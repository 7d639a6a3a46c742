----------------------- MODULE RollingUpgrade_proofs -----------------------
(***************************************************************************)
(* Proofs about RollingUpgrade, for every set of nodes, versions and       *)
(* taints, every selector, every bound on the lag and on the disturbances. *)
(***************************************************************************)
EXTENDS RollingUpgrade, TLAPS

USE VersionAssumption, TaintAssumption, SelectorAssumption, ScopeAssumption, NodeAssumption

\* The nil of a list lookup is no Node object.
LEMMA AbsentIsNoObject == Absent \notin NodeObject
BY DEF Absent, NodeObject

\* A patch writes Node objects.
LEMMA ObjectUpdate ==
  ASSUME NEW object \in NodeOrAbsent, object # Absent
  PROVE  /\ object \in NodeObject
         /\ \A v \in Version \cup {NoVersion} :
              /\ [object EXCEPT !.version = v] \in NodeObject
              /\ [object EXCEPT !.ready = v] \in NodeObject
         /\ \A taints \in SUBSET (ForeignTaint \cup {UpgradeTaint}) :
              [object EXCEPT !.taints = taints] \in NodeObject
BY DEF NodeOrAbsent, NodeObject

\* The API server's state is a state of the cluster.
LEMMA ApiType ==
  ASSUME TypeOK
  PROVE  Api \in [Node -> NodeOrAbsent]
BY DEF TypeOK, Api

\* What a write does to the watch, and that it does nothing else to the API
\* server's state.
LEMMA WriteEffect ==
  ASSUME TypeOK, NEW n \in Node, NEW object \in NodeOrAbsent, Write(n, object)
  PROVE  /\ stream' \in Seq([Node -> NodeOrAbsent])
         /\ Len(stream') \in 1 .. MaxLag + 1
         /\ Api' = [Api EXCEPT ![n] = object]
<1> Api \in [Node -> NodeOrAbsent]
  BY ApiType
<1>1. CASE object = Api[n]
  <2>1. stream' = stream
    BY <1>1 DEF Write
  <2>2. Api' = Api
    BY <2>1 DEF Api
  <2>3. Api = [Api EXCEPT ![n] = object]
    BY <1>1
  <2> QED
    BY <2>1, <2>2, <2>3 DEF TypeOK
<1>2. CASE object # Api[n]
  <2> DEFINE nodes == [Api EXCEPT ![n] = object]
  <2>1. nodes \in [Node -> NodeOrAbsent]
    OBVIOUS
  <2>2. stream' = Append(stream, nodes) /\ Len(stream) <= MaxLag
    BY <1>2 DEF Write
  <2> HIDE DEF nodes
  <2>3. /\ stream' \in Seq([Node -> NodeOrAbsent])
        /\ Len(stream') = Len(stream) + 1
        /\ stream'[Len(stream) + 1] = nodes
    BY <2>1, <2>2 DEF TypeOK
  <2>4. Len(stream') \in 1 .. MaxLag + 1
    BY <2>2, <2>3 DEF TypeOK
  <2>5. Api' = nodes
    BY <2>3 DEF Api
  <2> QED
    BY <2>3, <2>4, <2>5 DEF nodes
<1> QED
  BY <1>1, <1>2

\* What GetUpgradedNode returns carries both labels in the list.
LEMMA UpgradedNodeFacts ==
  ASSUME TypeOK, NEW n \in GetUpgradedNode(targeted, devConfig), n # NoNode
  PROVE  /\ n \in Node
         /\ targeted[n] # Absent
         /\ targeted[n] \in NodeObject
         /\ targeted[n].version = devConfig
         /\ targeted[n].ready = devConfig
         /\ uncordonedTaints(targeted[n]) \in SUBSET (ForeignTaint \cup {UpgradeTaint})
<1>1. n \in Listed(targeted) /\ getNodeUpgradeState(targeted[n], devConfig) = "nodeUpgraded"
  BY DEF GetUpgradedNode
<1>2. n \in Node /\ targeted[n] # Absent
  BY <1>1 DEF Listed
<1>3. targeted[n] \in NodeObject
  BY <1>2 DEF TypeOK, NodeOrAbsent
<1>4. targeted[n].version = devConfig /\ targeted[n].ready = devConfig
  BY <1>1 DEF getNodeUpgradeState
<1>5. uncordonedTaints(targeted[n]) \in SUBSET (ForeignTaint \cup {UpgradeTaint})
  BY <1>3 DEF NodeObject, uncordonedTaints
<1> QED
  BY <1>2, <1>3, <1>4, <1>5

\* What GetNodeForUpgrade returns carries another version label than the one asked
\* for, and the list has no node in upgrade.
LEMMA NodeForUpgradeFacts ==
  ASSUME TypeOK, NEW n \in GetNodeForUpgrade(targeted, devConfig), n # NoNode
  PROVE  /\ n \in Node
         /\ targeted[n] # Absent
         /\ targeted[n] \in NodeObject
         /\ targeted[n].version # devConfig
         /\ cordonedTaints(targeted[n]) \in SUBSET (ForeignTaint \cup {UpgradeTaint})
         /\ \A m \in Listed(targeted) :
              getNodeUpgradeState(targeted[m], devConfig) # "nodeInUpgrade"
<1>1. /\ n \in Listed(targeted)
      /\ getNodeUpgradeState(targeted[n], devConfig) = "nodeBeforeUpgrade"
      /\ \A m \in Listed(targeted) :
           getNodeUpgradeState(targeted[m], devConfig) # "nodeInUpgrade"
  BY DEF GetNodeForUpgrade
<1>2. n \in Node /\ targeted[n] # Absent
  BY <1>1 DEF Listed
<1>3. targeted[n] \in NodeObject
  BY <1>2 DEF TypeOK, NodeOrAbsent
<1>4. targeted[n].version # devConfig
  BY <1>1 DEF getNodeUpgradeState
<1>5. cordonedTaints(targeted[n]) \in SUBSET (ForeignTaint \cup {UpgradeTaint})
  BY <1>3 DEF NodeObject, cordonedTaints
<1> QED
  BY <1>1, <1>2, <1>3, <1>4, <1>5

-----------------------------------------------------------------------------
\* Every step keeps every variable in its type.
LEMMA TypeStep == TypeOK /\ [Next]_vars => TypeOK'
<1> SUFFICES ASSUME TypeOK, [Next]_vars PROVE TypeOK'
  OBVIOUS
<1> USE DEF PC
<1>a. Api \in [Node -> NodeOrAbsent] /\ Absent \in NodeOrAbsent /\ Absent \notin NodeObject
  BY ApiType, AbsentIsNoObject DEF NodeOrAbsent
<1>b. ASSUME NEW n \in Node, NEW object \in NodeOrAbsent, Patch(n, object)
      PROVE  Write(n, object) /\ Api[n] # Absent
  BY <1>b DEF Patch
<1>1. CASE Reconcile
  BY <1>1 DEF Reconcile, TypeOK
<1>2. CASE handleKMMModule
  BY <1>2 DEF handleKMMModule, TypeOK
<1>3. CASE NoRollingUpgrade
  BY <1>3 DEF NoRollingUpgrade, TypeOK
<1>4. CASE GetTargetedNodes
  <2>1. Cache \in [Node -> NodeOrAbsent]
    BY DEF TypeOK, Cache
  <2>2. targeted' \in [Node -> NodeOrAbsent]
    BY <1>4, <1>a, <2>1 DEF GetTargetedNodes
  <2> QED
    BY <1>4, <2>2 DEF GetTargetedNodes, TypeOK
<1>5. CASE UncordonUpgradedNode
  <2>1. PICK n \in GetUpgradedNode(targeted, devConfig) :
          \/ n = NoNode /\ UNCHANGED stream
          \/ /\ n # NoNode
             /\ Patch(n, IF uncordonedTaints(targeted[n]) = targeted[n].taints THEN Api[n]
                         ELSE [Api[n] EXCEPT !.taints = uncordonedTaints(targeted[n])])
    BY <1>5 DEF UncordonUpgradedNode
  <2>2. CASE n = NoNode
    BY <1>5, <2>1, <2>2 DEF UncordonUpgradedNode, TypeOK
  <2>3. CASE n # NoNode
    <3> DEFINE object == IF uncordonedTaints(targeted[n]) = targeted[n].taints THEN Api[n]
                         ELSE [Api[n] EXCEPT !.taints = uncordonedTaints(targeted[n])]
    <3>1. n \in Node /\ Write(n, object) /\ Api[n] # Absent
      BY <2>1, <2>3, UpgradedNodeFacts DEF Patch
    <3>2. object \in NodeOrAbsent
      BY <1>a, <2>3, <3>1, ObjectUpdate, UpgradedNodeFacts DEF NodeOrAbsent
    <3>3. stream' \in Seq([Node -> NodeOrAbsent]) /\ Len(stream') \in 1 .. MaxLag + 1
      BY <3>1, <3>2, WriteEffect
    <3> QED
      BY <1>5, <3>3 DEF UncordonUpgradedNode, TypeOK
  <2> QED
    BY <2>2, <2>3
<1>6. CASE CordonNodeForUpgrade
  <2>1. PICK n \in GetNodeForUpgrade(targeted, devConfig) :
          /\ upgradeNode' = n
          /\ \/ UNCHANGED stream
             \/ n # NoNode /\ Patch(n, [Api[n] EXCEPT !.taints = cordonedTaints(targeted[n])])
    BY <1>6 DEF CordonNodeForUpgrade
  <2>2. upgradeNode' \in Node \cup {NoNode}
    BY <2>1, NodeForUpgradeFacts
  <2>3. CASE UNCHANGED stream
    BY <1>6, <2>2, <2>3 DEF CordonNodeForUpgrade, TypeOK
  <2>4. CASE n # NoNode /\ Patch(n, [Api[n] EXCEPT !.taints = cordonedTaints(targeted[n])])
    <3> DEFINE object == [Api[n] EXCEPT !.taints = cordonedTaints(targeted[n])]
    <3>1. n \in Node /\ Write(n, object) /\ Api[n] # Absent
      BY <2>4, NodeForUpgradeFacts DEF Patch
    <3>2. object \in NodeOrAbsent
      BY <1>a, <2>4, <3>1, ObjectUpdate, NodeForUpgradeFacts DEF NodeOrAbsent
    <3>3. stream' \in Seq([Node -> NodeOrAbsent]) /\ Len(stream') \in 1 .. MaxLag + 1
      BY <3>1, <3>2, WriteEffect
    <3> QED
      BY <1>6, <2>2, <3>3 DEF CordonNodeForUpgrade, TypeOK
  <2> QED
    BY <2>1, <2>3, <2>4
<1>7. CASE KickoffUpgrade
  <2>1. CASE UNCHANGED stream
    BY <1>7, <2>1 DEF KickoffUpgrade, TypeOK
  <2>2. CASE upgradeNode # NoNode /\ Patch(upgradeNode, [Api[upgradeNode] EXCEPT !.version = devConfig])
    <3> DEFINE object == [Api[upgradeNode] EXCEPT !.version = devConfig]
    <3>1. upgradeNode \in Node /\ Write(upgradeNode, object) /\ Api[upgradeNode] # Absent
      BY <2>2 DEF Patch, TypeOK
    <3>2. object \in NodeOrAbsent
      BY <1>a, <3>1, ObjectUpdate DEF NodeOrAbsent, TypeOK
    <3>3. stream' \in Seq([Node -> NodeOrAbsent]) /\ Len(stream') \in 1 .. MaxLag + 1
      BY <3>1, <3>2, WriteEffect
    <3> QED
      BY <1>7, <3>3 DEF KickoffUpgrade, TypeOK
  <2> QED
    BY <1>7, <2>1, <2>2 DEF KickoffUpgrade
<1>8. CASE ReturnNil
  BY <1>8, <1>a DEF ReturnNil, Return, NothingListed, TypeOK
<1>9. CASE PatchNotFound
  BY <1>9, <1>a DEF PatchNotFound, Return, NothingListed, TypeOK
<1>10. CASE ReturnError
  BY <1>10, <1>a DEF ReturnError, Return, Disturb, NothingListed, TypeOK
<1>11. CASE Crash
  <2>1. stream' \in Seq([Node -> NodeOrAbsent]) /\ Len(stream') = 1
    BY <1>11, <1>a DEF Crash
  <2> QED
    BY <1>11, <1>a, <2>1 DEF Crash, Return, Disturb, NothingListed, TypeOK
<1>12. CASE FindDeviceConfigForNodeChange
  <2>1. stream' \in Seq([Node -> NodeOrAbsent]) /\ Len(stream') = Len(stream) - 1
    BY <1>12 DEF FindDeviceConfigForNodeChange, TypeOK
  <2>2. queued' \in BOOLEAN
    BY <1>12 DEF FindDeviceConfigForNodeChange, TypeOK
  <2> QED
    BY <1>12, <2>1, <2>2 DEF FindDeviceConfigForNodeChange, operator, TypeOK
<1>13. CASE DroppedEvent
  <2>1. stream' \in Seq([Node -> NodeOrAbsent]) /\ Len(stream') = Len(stream) - 1
    BY <1>13 DEF DroppedEvent, TypeOK
  <2> QED
    BY <1>13, <2>1 DEF DroppedEvent, Disturb, operator, TypeOK
<1>14. CASE Resync
  BY <1>14 DEF Resync, operator, TypeOK
<1>15. CASE ChangeVersion
  BY <1>15 DEF ChangeVersion, Disturb, operator, TypeOK
<1>16. ASSUME NEW n \in Node, KMMUnload(n) PROVE TypeOK'
  <2>1. [Api[n] EXCEPT !.ready = NoVersion] \in NodeOrAbsent
    BY <1>16, <1>a, ObjectUpdate DEF KMMUnload, NodeOrAbsent
  <2> QED
    BY <1>16, <2>1, WriteEffect DEF KMMUnload, operator, TypeOK
<1>17. ASSUME NEW n \in Node, KMMLoad(n) PROVE TypeOK'
  <2>1. [Api[n] EXCEPT !.ready = module] \in NodeOrAbsent
    BY <1>17, <1>a, ObjectUpdate DEF KMMLoad, NodeOrAbsent, TypeOK
  <2> QED
    BY <1>17, <2>1, WriteEffect DEF KMMLoad, operator, TypeOK
<1>18. ASSUME NEW n \in Node, ChangeForeignTaint(n) PROVE TypeOK'
  <2>1. PICK t \in ForeignTaint :
          Write(n, [Api[n] EXCEPT !.taints = IF t \in @ THEN @ \ {t} ELSE @ \cup {t}])
    BY <1>18 DEF ChangeForeignTaint
  <2>2. Api[n] \in NodeObject
    BY <1>18, <1>a DEF ChangeForeignTaint, NodeOrAbsent
  <2> DEFINE taints == IF t \in Api[n].taints THEN Api[n].taints \ {t}
                       ELSE Api[n].taints \cup {t}
  <2>3. taints \in SUBSET (ForeignTaint \cup {UpgradeTaint})
    BY <2>2 DEF NodeObject
  <2>4. [Api[n] EXCEPT !.taints = taints] \in NodeOrAbsent
    BY <1>a, <1>18, <2>3, ObjectUpdate DEF ChangeForeignTaint, NodeOrAbsent
  <2>5. Write(n, [Api[n] EXCEPT !.taints = taints])
    BY <2>1
  <2>6. stream' \in Seq([Node -> NodeOrAbsent]) /\ Len(stream') \in 1 .. MaxLag + 1
    BY <2>4, <2>5, WriteEffect
  <2> QED
    BY <1>18, <2>6 DEF ChangeForeignTaint, Disturb, operator, TypeOK
<1>19. ASSUME NEW n \in Node, NodeJoin(n) PROVE TypeOK'
  <2>1. FreshNode \in NodeOrAbsent
    BY DEF FreshNode, NodeOrAbsent, NodeObject
  <2> QED
    BY <1>19, <2>1, WriteEffect DEF NodeJoin, Disturb, operator, TypeOK
<1>20. ASSUME NEW n \in Node, NodeLeave(n) PROVE TypeOK'
  BY <1>20, <1>a, WriteEffect DEF NodeLeave, Disturb, operator, TypeOK
<1>21. ASSUME NEW n \in Node, NodeReboot(n) PROVE TypeOK'
  <2>1. [Api[n] EXCEPT !.ready = NoVersion] \in NodeOrAbsent
    BY <1>21, <1>a, ObjectUpdate DEF NodeReboot, NodeOrAbsent
  <2> QED
    BY <1>21, <2>1, WriteEffect DEF NodeReboot, Disturb, operator, TypeOK
<1>22. CASE UNCHANGED vars
  BY <1>22 DEF vars, operator, TypeOK
<1> QED
  BY <1>1, <1>2, <1>3, <1>4, <1>5, <1>6, <1>7, <1>8, <1>9, <1>10, <1>11, <1>12, <1>13,
     <1>14, <1>15, <1>16, <1>17, <1>18, <1>19, <1>20, <1>21, <1>22
     DEF Next, ReconcileStep, KMMStep, EnvironmentStep

\* Type correctness: the first state of every behaviour has it too.
LEMMA TypeInit == Init => TypeOK
<1> SUFFICES ASSUME Init PROVE TypeOK
  OBVIOUS
<1>1. PICK nodes \in [Node -> {Absent, FreshNode}
                                \cup [version : Version, ready : Version, taints : {{}}]] :
        stream = <<nodes>>
  BY DEF Init
<1>2. {Absent, FreshNode} \cup [version : Version, ready : Version, taints : {{}}]
        \subseteq NodeOrAbsent
  BY DEF FreshNode, NodeOrAbsent, NodeObject
<1>3. nodes \in [Node -> NodeOrAbsent]
  BY <1>1, <1>2
<1>4. stream \in Seq([Node -> NodeOrAbsent]) /\ Len(stream) = 1
  BY <1>1, <1>3
<1>5. NothingListed \in [Node -> NodeOrAbsent]
  BY DEF NothingListed, NodeOrAbsent
<1> QED
  BY <1>4, <1>5 DEF Init, TypeOK, PC

\* Every variable keeps its type, in particular the watch never gets further
\* behind than its bound and the list only ever holds Node objects.
THEOREM TypeCorrect == Spec => []TypeOK
<1>1. Init => TypeOK
  BY TypeInit
<1>2. TypeOK /\ [Next]_vars => TypeOK'
  BY TypeStep
<1> QED
  BY <1>1, <1>2, PTL DEF Spec

-----------------------------------------------------------------------------
\* What the environment and KMM do to one Node object: it goes, a new one comes,
\* or its driver comes or goes under the same version label.
Touched(old, new) ==
  \/ new = Absent
  \/ old = Absent /\ new = FreshNode
  \/ /\ old # Absent
     /\ new \in NodeObject
     /\ new.version = old.version
     /\ UpgradeTaint \in new.taints <=> UpgradeTaint \in old.taints
     /\ new.ready \in {old.ready, old.version, NoVersion}

\* A driver that is the one the label asks for stays.
Settled(old, new) ==
  old # Absent /\ new # Absent /\ old.ready = old.version => new.ready = new.version

\* The conjuncts of DrainInv but for the type.
Drain == /\ SwapOnlyDrained
         /\ UnlabelledIsUnloaded
         /\ LabelledAreTargeted
         /\ ListedAreTargeted
         /\ SnapshotVersion
         /\ SnapshotReady
         /\ SnapshotTaint
         /\ Progress

\* Steps that neither write a Node object nor move Reconcile.
LEMMA DrainUnmoved ==
  ASSUME DrainInv, Api' = Api, UNCHANGED operator
  PROVE  Drain'
BY DEF DrainInv, Drain, operator, Present, Known, SwapOnlyDrained, UnlabelledIsUnloaded,
       LabelledAreTargeted, ListedAreTargeted, SnapshotVersion, SnapshotReady, SnapshotTaint, Progress

\* Steps of Reconcile that leave it with no list in its hands.
LEMMA DrainReturned ==
  ASSUME DrainInv, Api' = Api, pc' \notin {"uncordon", "cordon", "kickoff"},
         targeted' \in {targeted, NothingListed}
  PROVE  Drain'
BY DEF DrainInv, Drain, Present, Known, SwapOnlyDrained, UnlabelledIsUnloaded,
       LabelledAreTargeted, ListedAreTargeted, SnapshotVersion, SnapshotReady, SnapshotTaint, Progress,
       NothingListed

\* Steps of the others.
LEMMA DrainTouched ==
  ASSUME DrainInv, UNCHANGED operator, NEW n \in Node, NEW object, Touched(Api[n], object),
         Api' = [Api EXCEPT ![n] = object]
  PROVE  Drain'
<1>1. Api \in [Node -> NodeOrAbsent]
  BY ApiType DEF DrainInv
<1>2. Api'[n] = object /\ \A m \in Node \ {n} : Api'[m] = Api[m]
  BY <1>1
<1>3. Present' \subseteq Present \cup {n} /\ \A m \in Node \ {n} : m \in Present' <=> m \in Present
  BY <1>2 DEF Present
<1>4. Known' \subseteq Known \cup {n} /\ Known' \subseteq Present'
  BY <1>2 DEF Known, Present, operator
<1>5. UNCHANGED <<pc, devConfig, targeted, upgradeNode>>
  BY DEF operator
<1>6. n \in Present' => \/ object = FreshNode
                       \/ /\ n \in Present
                          /\ n \in Known' => n \in Known
                          /\ object.version = Api[n].version
                          /\ UpgradeTaint \in object.taints <=> UpgradeTaint \in Api[n].taints
                          /\ object.ready \in {Api[n].ready, Api[n].version, NoVersion}
  BY <1>2, <1>5 DEF Touched, Present, Known
<1>7. FreshNode.version = NoVersion /\ FreshNode.ready = NoVersion
  BY DEF FreshNode
<1>8. SwapOnlyDrained'
  BY <1>2, <1>3, <1>6, <1>7 DEF DrainInv, SwapOnlyDrained, Present
<1>9. UnlabelledIsUnloaded'
  BY <1>2, <1>3, <1>6, <1>7 DEF DrainInv, UnlabelledIsUnloaded, Present
<1>10. LabelledAreTargeted'
  BY <1>2, <1>3, <1>6, <1>7 DEF DrainInv, LabelledAreTargeted, Present
<1>11. SnapshotVersion'
  BY <1>2, <1>4, <1>5, <1>6, <1>7 DEF DrainInv, SnapshotVersion, Known, Present
<1>12. SnapshotReady'
  BY <1>2, <1>4, <1>5, <1>6, <1>7 DEF DrainInv, SnapshotReady, Known, Present
<1>13. SnapshotTaint'
  BY <1>2, <1>4, <1>5, <1>6, <1>7 DEF DrainInv, SnapshotTaint, Known, Present
<1>14. Progress'
  BY <1>2, <1>3, <1>5, <1>6, <1>7 DEF DrainInv, Progress, Present
<1> QED
  BY <1>5, <1>8, <1>9, <1>10, <1>11, <1>12, <1>13, <1>14 DEF Drain, DrainInv, ListedAreTargeted

\* The steps of KMM, of the nodes and of the other taint writers are all of
\* that kind, only a reboot takes a driver away that is the right one, and only churn
\* a node.
LEMMA OthersTouch ==
  ASSUME TypeOK, NEW n \in Node, KMMStep(n) \/ EnvironmentStep(n)
  PROVE  /\ UNCHANGED operator /\ UNCHANGED driverVersion
         /\ \E object \in NodeOrAbsent : /\ Touched(Api[n], object)
                                         /\ "reboot" \notin Faults => Settled(Api[n], object)
                                         /\ "churn" \notin Faults => object # Absent
                                         /\ Api' = [Api EXCEPT ![n] = object]
<1>a. /\ Api \in [Node -> NodeOrAbsent]
      /\ Absent \in NodeOrAbsent
      /\ FreshNode \in NodeOrAbsent
      /\ \A object \in NodeOrAbsent : object # Absent => object \in NodeObject
      /\ NodeObject \subseteq NodeOrAbsent
  BY ApiType DEF NodeOrAbsent, NodeObject, FreshNode
<1>1. CASE KMMUnload(n)
  <2> DEFINE object == [Api[n] EXCEPT !.ready = NoVersion]
  <2>1. Api[n] \in NodeObject /\ Write(n, object) /\ UNCHANGED <<operator, driverVersion>>
    BY <1>1, <1>a DEF KMMUnload
  <2>2. object \in NodeObject /\ Touched(Api[n], object) /\ Settled(Api[n], object)
    BY <1>1, <2>1 DEF KMMUnload, Settled, Touched, NodeObject
  <2> QED
    BY <1>a, <2>1, <2>2, WriteEffect, AbsentIsNoObject
<1>2. CASE KMMLoad(n)
  <2> DEFINE object == [Api[n] EXCEPT !.ready = module]
  <2>1. Api[n] \in NodeObject /\ Write(n, object) /\ UNCHANGED <<operator, driverVersion>> /\ module = Api[n].version
    BY <1>2, <1>a DEF KMMLoad
  <2>2. object \in NodeObject /\ Touched(Api[n], object) /\ Settled(Api[n], object)
    BY <1>2, <2>1 DEF KMMLoad, Settled, Touched, NodeObject
  <2> QED
    BY <1>a, <2>1, <2>2, WriteEffect, AbsentIsNoObject
<1>3. CASE ChangeForeignTaint(n)
  <2>1. PICK t \in ForeignTaint :
          Write(n, [Api[n] EXCEPT !.taints = IF t \in @ THEN @ \ {t} ELSE @ \cup {t}])
    BY <1>3 DEF ChangeForeignTaint
  <2> DEFINE taints == IF t \in Api[n].taints THEN Api[n].taints \ {t}
                       ELSE Api[n].taints \cup {t}
             object == [Api[n] EXCEPT !.taints = taints]
  <2>2. Api[n] \in NodeObject /\ Write(n, object) /\ UNCHANGED <<operator, driverVersion>>
    BY <1>3, <1>a, <2>1 DEF ChangeForeignTaint
  <2>3. /\ taints \in SUBSET (ForeignTaint \cup {UpgradeTaint})
        /\ UpgradeTaint \in taints <=> UpgradeTaint \in Api[n].taints
    BY <2>2 DEF NodeObject
  <2>4. object \in NodeObject /\ Touched(Api[n], object) /\ Settled(Api[n], object)
    BY <1>3, <2>2, <2>3 DEF ChangeForeignTaint, Settled, Touched, NodeObject
  <2> QED
    BY <1>a, <2>2, <2>4, WriteEffect, AbsentIsNoObject
<1>4. CASE NodeJoin(n)
  BY <1>4, <1>a, WriteEffect DEF NodeJoin, Disturb, Touched, Settled
<1>5. CASE NodeLeave(n)
  BY <1>5, <1>a, WriteEffect DEF NodeLeave, Disturb, Touched, Settled
<1>6. CASE NodeReboot(n)
  <2> DEFINE object == [Api[n] EXCEPT !.ready = NoVersion]
  <2>1. Api[n] \in NodeObject /\ Write(n, object) /\ UNCHANGED <<operator, driverVersion>>
    BY <1>6, <1>a DEF NodeReboot
  <2>2. object \in NodeObject /\ Touched(Api[n], object)
    BY <1>6, <2>1 DEF NodeReboot, Touched, NodeObject
  <2>3. "reboot" \in Faults
    BY <1>6 DEF NodeReboot, Disturb
  <2> QED
    BY <1>a, <2>1, <2>2, <2>3, WriteEffect, AbsentIsNoObject
<1> QED
  BY <1>1, <1>2, <1>3, <1>4, <1>5, <1>6 DEF KMMStep, EnvironmentStep

\* The watch only moves the cache.
LEMMA WatchKeepsApi ==
  ASSUME TypeOK, Len(stream) > 1, stream' = Tail(stream)
  PROVE  Api' = Api
BY DEF TypeOK, Api

\* A fresh list is the API server's state.
LEMMA DrainListed ==
  ASSUME DrainInv, FreshReads, GetTargetedNodes
  PROVE  Drain'
<1>1. Api' = Api /\ Cache = Api
  BY DEF GetTargetedNodes, Api, Cache
<1>2. \A n \in Known' : n \in Present /\ targeted'[n] = Api[n]
  BY <1>1 DEF Known, Present, GetTargetedNodes
<1>3. devConfig' \in Version /\ pc' = "uncordon"
  BY DEF GetTargetedNodes, DrainInv, TypeOK
<1>4. SwapOnlyDrained' /\ UnlabelledIsUnloaded' /\ LabelledAreTargeted'
  BY <1>1 DEF DrainInv, SwapOnlyDrained, UnlabelledIsUnloaded, LabelledAreTargeted, Present
<1>5. SnapshotVersion' /\ SnapshotReady' /\ SnapshotTaint'
  BY <1>1, <1>2 DEF SnapshotVersion, SnapshotReady, SnapshotTaint
<1>6. ListedAreTargeted'
  BY DEF GetTargetedNodes, ListedAreTargeted
<1> QED
  BY <1>3, <1>4, <1>5, <1>6 DEF Drain, Progress

\* UncordonUpgradedNode leaves the API server alone or writes the listed taints
\* less the upgrade taint to a node that the list has as upgraded.
LEMMA UncordonEffect ==
  ASSUME TypeOK, UncordonUpgradedNode
  PROVE  \/ Api' = Api
         \/ \E n \in Node :
              /\ n \in Present /\ targeted[n] # Absent
              /\ targeted[n].version = devConfig /\ targeted[n].ready = devConfig
              /\ Api' = [Api EXCEPT ![n].taints = uncordonedTaints(targeted[n])]
<1>1. PICK n \in GetUpgradedNode(targeted, devConfig) :
        \/ n = NoNode /\ UNCHANGED stream
        \/ /\ n # NoNode
           /\ Patch(n, IF uncordonedTaints(targeted[n]) = targeted[n].taints THEN Api[n]
                       ELSE [Api[n] EXCEPT !.taints = uncordonedTaints(targeted[n])])
  BY DEF UncordonUpgradedNode
<1>2. CASE UNCHANGED stream
  BY <1>2 DEF Api
<1>3. CASE n # NoNode /\ ~UNCHANGED stream
  <2> DEFINE object == IF uncordonedTaints(targeted[n]) = targeted[n].taints THEN Api[n]
                       ELSE [Api[n] EXCEPT !.taints = uncordonedTaints(targeted[n])]
  <2>1. n \in Node /\ n \in Present /\ Write(n, object)
    BY <1>1, <1>3, UpgradedNodeFacts DEF Patch, Present
  <2>2. Api[n] \in NodeOrAbsent /\ Api[n] # Absent
    BY <2>1, ApiType DEF Present
  <2>3. object \in NodeOrAbsent
    BY <1>3, <2>2, ObjectUpdate, UpgradedNodeFacts DEF NodeOrAbsent
  <2>4. object # Api[n]
    BY <1>3, <2>1 DEF Write
  <2>5. object = [Api[n] EXCEPT !.taints = uncordonedTaints(targeted[n])]
    BY <2>4
  <2>6. Api' = [Api EXCEPT ![n] = object]
    BY <2>1, <2>3, WriteEffect
  <2> HIDE DEF object
  <2>7. Api' = [Api EXCEPT ![n].taints = uncordonedTaints(targeted[n])]
    BY <2>5, <2>6
  <2> QED
    BY <1>3, <2>1, <2>7, UpgradedNodeFacts
<1> QED
  BY <1>1, <1>2, <1>3

\* CordonNodeForUpgrade picks a node and either leaves the API server alone or
\* writes the listed taints and one more to it.
LEMMA CordonEffect ==
  ASSUME TypeOK, CordonNodeForUpgrade
  PROVE  /\ upgradeNode' \in GetNodeForUpgrade(targeted, devConfig)
         /\ \/ /\ Api' = Api
               /\ upgradeNode' # NoNode => ~needsCordon(targeted[upgradeNode'])
            \/ /\ upgradeNode' # NoNode /\ upgradeNode' \in Present
               /\ Api' = [Api EXCEPT ![upgradeNode'].taints = cordonedTaints(targeted[upgradeNode'])]
<1>1. PICK n \in GetNodeForUpgrade(targeted, devConfig) :
        /\ upgradeNode' = n
        /\ \/ (n # NoNode => ~needsCordon(targeted[n])) /\ UNCHANGED stream
           \/ n # NoNode /\ Patch(n, [Api[n] EXCEPT !.taints = cordonedTaints(targeted[n])])
  BY DEF CordonNodeForUpgrade
<1>2. CASE (n # NoNode => ~needsCordon(targeted[n])) /\ UNCHANGED stream
  BY <1>1, <1>2 DEF Api
<1>3. CASE n # NoNode /\ Patch(n, [Api[n] EXCEPT !.taints = cordonedTaints(targeted[n])])
  <2> DEFINE object == [Api[n] EXCEPT !.taints = cordonedTaints(targeted[n])]
  <2>1. n \in Node /\ n \in Present /\ Write(n, object)
    BY <1>3, NodeForUpgradeFacts DEF Patch, Present
  <2>2. Api[n] \in NodeOrAbsent /\ Api[n] # Absent
    BY <2>1, ApiType DEF Present
  <2>3. object \in NodeOrAbsent
    BY <1>3, <2>2, ObjectUpdate, NodeForUpgradeFacts DEF NodeOrAbsent
  <2>4. Api' = [Api EXCEPT ![n] = object]
    BY <2>1, <2>3, WriteEffect
  <2> QED
    BY <1>1, <1>3, <2>1, <2>4
<1> QED
  BY <1>1, <1>2, <1>3

\* KickoffUpgrade writes the version label of the picked node, and nothing else.
LEMMA KickoffEffect ==
  ASSUME TypeOK, KickoffUpgrade
  PROVE  \/ Api' = Api
         \/ /\ upgradeNode # NoNode /\ upgradeNode \in Present
            /\ Api' = [Api EXCEPT ![upgradeNode].version = devConfig]
<1>1. CASE UNCHANGED stream
  BY <1>1 DEF Api
<1>2. CASE upgradeNode # NoNode /\ Patch(upgradeNode, [Api[upgradeNode] EXCEPT !.version = devConfig])
  <2> DEFINE object == [Api[upgradeNode] EXCEPT !.version = devConfig]
  <2>1. upgradeNode \in Node /\ upgradeNode \in Present /\ Write(upgradeNode, object)
    BY <1>2 DEF Patch, Present, TypeOK
  <2>2. object \in NodeOrAbsent
    BY <2>1, ApiType, ObjectUpdate DEF Present, NodeOrAbsent, TypeOK
  <2>3. Api' = [Api EXCEPT ![upgradeNode] = object]
    BY <2>1, <2>2, WriteEffect
  <2> QED
    BY <1>2, <2>1, <2>3
<1> QED
  BY <1>1, <1>2 DEF KickoffUpgrade

\* Uncordoning gives back a node whose driver is the one its label asks for, or
\* is gone: SnapshotReady.
LEMMA DrainUncordoned ==
  ASSUME DrainInv, UncordonUpgradedNode
  PROVE  Drain'
<1>1. /\ pc = "uncordon" /\ pc' = "cordon"
      /\ UNCHANGED <<devConfig, targeted, upgradeNode>>
  BY DEF UncordonUpgradedNode
<1>2. CASE Api' = Api
  <2>1. Present' = Present /\ Known' = Known
    BY <1>1, <1>2 DEF Present, Known
  <2> QED
    BY <1>1, <1>2, <2>1 DEF DrainInv, Drain, SwapOnlyDrained, UnlabelledIsUnloaded,
       LabelledAreTargeted, ListedAreTargeted, SnapshotVersion, SnapshotReady, SnapshotTaint, Progress
<1>3. ASSUME NEW n \in Node, n \in Present, targeted[n] # Absent,
             targeted[n].version = devConfig, targeted[n].ready = devConfig,
             Api' = [Api EXCEPT ![n].taints = uncordonedTaints(targeted[n])]
      PROVE  Drain'
  <2>1. Api \in [Node -> NodeOrAbsent] /\ Api[n] \in NodeObject
    BY <1>3, ApiType DEF DrainInv, Present, NodeOrAbsent
  <2>2. /\ \A m \in Node \ {n} : Api'[m] = Api[m]
        /\ Api'[n] \in NodeObject
        /\ Api'[n].version = Api[n].version /\ Api'[n].ready = Api[n].ready
    BY <1>3, <2>1, UpgradedNodeFacts DEF NodeObject, uncordonedTaints, DrainInv, TypeOK, NodeOrAbsent
  <2>3. Present' = Present /\ Known' = Known /\ n \in Known
    BY <1>1, <1>3, <2>2, AbsentIsNoObject DEF Present, Known
  <2>4. SwapOnlyDrained'
    BY <1>3, <2>2, <2>3 DEF DrainInv, SwapOnlyDrained, SnapshotReady, Present
  <2>5. UnlabelledIsUnloaded' /\ LabelledAreTargeted'
    BY <2>2, <2>3 DEF DrainInv, UnlabelledIsUnloaded, LabelledAreTargeted, Present
  <2>6. SnapshotVersion' /\ SnapshotReady'
    BY <1>1, <2>2, <2>3 DEF DrainInv, SnapshotVersion, SnapshotReady, Known, Present
  <2>7. SnapshotTaint'
    BY <1>1, <1>3, <2>2, <2>3 DEF DrainInv, SnapshotTaint, Known, Present
  <2> QED
    BY <1>1, <2>4, <2>5, <2>6, <2>7 DEF DrainInv, Drain, Progress, ListedAreTargeted
<1> QED
  BY <1>2, <1>3, UncordonEffect DEF DrainInv

\* After it the picked node is drained, or has no driver to lose: SnapshotTaint
\* for one that was listed as drained, UnlabelledIsUnloaded for a new one.
LEMMA DrainCordoned ==
  ASSUME DrainInv, CordonNodeForUpgrade
  PROVE  Drain'
<1>1. pc = "cordon" /\ pc' = "kickoff" /\ UNCHANGED <<devConfig, targeted>>
  BY DEF CordonNodeForUpgrade
<1>2. Api \in [Node -> NodeOrAbsent] /\ devConfig \in Version
  BY <1>1, ApiType DEF DrainInv, Progress
<1>3. upgradeNode' # NoNode =>
        /\ upgradeNode' \in Node /\ targeted[upgradeNode'] # Absent
        /\ targeted[upgradeNode'] \in NodeObject
        /\ targeted[upgradeNode'].version # devConfig
        /\ cordonedTaints(targeted[upgradeNode']) \in SUBSET (ForeignTaint \cup {UpgradeTaint})
  BY CordonEffect, NodeForUpgradeFacts DEF DrainInv
<1>4. ListedAreTargeted'
  BY <1>1 DEF DrainInv, ListedAreTargeted
<1>5. upgradeNode' # NoNode => upgradeNode' \in Targeted
  BY <1>3 DEF DrainInv, ListedAreTargeted
<1>6. CASE /\ Api' = Api
           /\ upgradeNode' # NoNode => ~needsCordon(targeted[upgradeNode'])
  <2>1. Present' = Present /\ Known' = Known
    BY <1>1, <1>6 DEF Present, Known
  <2>2. /\ SwapOnlyDrained' /\ UnlabelledIsUnloaded' /\ LabelledAreTargeted'
        /\ SnapshotVersion' /\ SnapshotReady' /\ SnapshotTaint'
    BY <1>1, <1>6, <2>1 DEF DrainInv, SwapOnlyDrained, UnlabelledIsUnloaded,
       LabelledAreTargeted, ListedAreTargeted, SnapshotVersion, SnapshotReady, SnapshotTaint
  <2>3. ASSUME upgradeNode' # NoNode, upgradeNode' \in Present
        PROVE  \/ UpgradeTaint \in Api[upgradeNode'].taints
               \/ Api[upgradeNode'].version = NoVersion
    <3>1. upgradeNode' \in Known
      BY <1>1, <1>3, <2>3 DEF Known
    <3>2. CASE targeted[upgradeNode'].version = NoVersion
      BY <3>1, <3>2 DEF DrainInv, SnapshotVersion
    <3>3. CASE UpgradeTaint \in targeted[upgradeNode'].taints
      BY <1>3, <2>3, <3>1, <3>3 DEF DrainInv, SnapshotTaint
    <3> QED
      BY <1>6, <2>3, <3>2, <3>3 DEF needsCordon, isNewNodeForUpgrade
  <2> QED
    BY <1>1, <1>2, <1>5, <1>4, <1>6, <2>1, <2>2, <2>3 DEF Drain, Progress
<1>7. CASE /\ upgradeNode' # NoNode /\ upgradeNode' \in Present
           /\ Api' = [Api EXCEPT ![upgradeNode'].taints = cordonedTaints(targeted[upgradeNode'])]
  <2> DEFINE n == upgradeNode'
  <2>1. /\ \A m \in Node \ {n} : Api'[m] = Api[m]
        /\ n \in Node /\ Api'[n] \in NodeObject
        /\ Api'[n].version = Api[n].version /\ Api'[n].ready = Api[n].ready
        /\ UpgradeTaint \in Api'[n].taints
    BY <1>2, <1>3, <1>7 DEF NodeObject, NodeOrAbsent, Present, cordonedTaints
  <2>2. Present' = Present /\ Known' = Known
    BY <1>1, <1>7, <2>1, AbsentIsNoObject DEF Present, Known
  <2>3. SwapOnlyDrained' /\ UnlabelledIsUnloaded' /\ LabelledAreTargeted'
    BY <2>1, <2>2 DEF DrainInv, SwapOnlyDrained, UnlabelledIsUnloaded, LabelledAreTargeted, Present
  <2>4. SnapshotVersion' /\ SnapshotReady' /\ SnapshotTaint'
    BY <1>1, <2>1, <2>2 DEF DrainInv, SnapshotVersion, SnapshotReady, SnapshotTaint, Known, Present
  <2> QED
    BY <1>1, <1>2, <1>5, <1>4, <2>1, <2>3, <2>4 DEF Drain, Progress
<1> QED
  BY <1>6, <1>7, CordonEffect DEF DrainInv

\* The label moves under a driver only on a drained node: Progress.
LEMMA DrainKickedOff ==
  ASSUME DrainInv, KickoffUpgrade
  PROVE  Drain'
<1>1. pc = "kickoff" /\ pc' = "rest"
  BY DEF KickoffUpgrade
<1>2. CASE Api' = Api
  BY <1>1, <1>2, DrainReturned DEF KickoffUpgrade
<1>3. CASE /\ upgradeNode # NoNode /\ upgradeNode \in Present
           /\ Api' = [Api EXCEPT ![upgradeNode].version = devConfig]
  <2>1. /\ Api \in [Node -> NodeOrAbsent] /\ upgradeNode \in Node
        /\ devConfig \in Version /\ devConfig # NoVersion
        /\ upgradeNode \in Targeted
    BY <1>1, <1>3, ApiType DEF DrainInv, Progress, Present
  <2>2. /\ \A m \in Node \ {upgradeNode} : Api'[m] = Api[m]
        /\ Api'[upgradeNode] \in NodeObject
        /\ Api'[upgradeNode].version = devConfig
        /\ Api'[upgradeNode].ready = Api[upgradeNode].ready
        /\ Api'[upgradeNode].taints = Api[upgradeNode].taints
    BY <1>3, <2>1 DEF NodeObject, NodeOrAbsent, Present
  <2>3. Present' = Present /\ Known' = {}
    BY <1>1, <1>3, <2>2, AbsentIsNoObject DEF Present, Known
  <2>4. \/ UpgradeTaint \in Api[upgradeNode].taints
        \/ Api[upgradeNode].ready = NoVersion
    BY <1>1, <1>3 DEF DrainInv, Progress, UnlabelledIsUnloaded
  <2>5. SwapOnlyDrained'
    BY <2>2, <2>3, <2>4 DEF DrainInv, SwapOnlyDrained, Present
  <2>6. UnlabelledIsUnloaded' /\ LabelledAreTargeted'
    BY <2>1, <2>2, <2>3 DEF DrainInv, UnlabelledIsUnloaded, LabelledAreTargeted, Present
  <2>7. SnapshotVersion' /\ SnapshotReady' /\ SnapshotTaint'
    BY <2>3 DEF SnapshotVersion, SnapshotReady, SnapshotTaint
  <2> QED
    BY <1>1, <2>5, <2>6, <2>7 DEF Drain, DrainInv, Progress, ListedAreTargeted, KickoffUpgrade
<1> QED
  BY <1>2, <1>3, KickoffEffect DEF DrainInv

-----------------------------------------------------------------------------
\* At the start no node is under way and Reconcile has no list.
LEMMA DrainInit == Init => DrainInv
<1> SUFFICES ASSUME Init PROVE DrainInv
  OBVIOUS
<1>1. PICK nodes \in [Node -> {Absent, FreshNode}
                                \cup [version : Version, ready : Version, taints : {{}}]] :
        /\ \A n \in Listed(nodes) : nodes[n].version = nodes[n].ready
        /\ \A n \in Listed(nodes) \ Targeted : nodes[n] = FreshNode
        /\ stream = <<nodes>>
  BY DEF Init
<1>2. Api = nodes /\ Present = Listed(nodes)
  BY <1>1 DEF Api, Present, Listed
<1>3. Known = {} /\ \A n \in Node : targeted[n] = Absent
  BY DEF Init, Known, NothingListed
<1>4. SwapOnlyDrained /\ UnlabelledIsUnloaded /\ LabelledAreTargeted
  BY <1>1, <1>2 DEF SwapOnlyDrained, UnlabelledIsUnloaded, LabelledAreTargeted, FreshNode
<1>5. ListedAreTargeted /\ SnapshotVersion /\ SnapshotReady /\ SnapshotTaint /\ Progress
  BY <1>3 DEF Init, ListedAreTargeted, SnapshotVersion, SnapshotReady, SnapshotTaint, Progress
<1> QED
  BY <1>4, <1>5, TypeInit DEF DrainInv

\* DrainInv is inductive when lists are fresh: one step per action of Next.
LEMMA DrainStep ==
  ASSUME FreshReads, DrainInv, [Next]_vars
  PROVE  DrainInv'
<1>1. TypeOK'
  BY TypeStep DEF DrainInv
<1>2. Drain'
  <2>1. CASE Reconcile
    BY <2>1, DrainReturned DEF Reconcile, Api
  <2>2. CASE handleKMMModule
    BY <2>2, DrainReturned DEF handleKMMModule, Api
  <2>3. CASE NoRollingUpgrade
    BY <2>3, DrainReturned DEF NoRollingUpgrade, Api
  <2>4. CASE GetTargetedNodes
    BY <2>4, DrainListed
  <2>5. CASE UncordonUpgradedNode
    BY <2>5, DrainUncordoned
  <2>6. CASE CordonNodeForUpgrade
    BY <2>6, DrainCordoned
  <2>7. CASE KickoffUpgrade
    BY <2>7, DrainKickedOff
  <2>8. CASE ReturnNil
    BY <2>8, DrainReturned DEF ReturnNil, Return, Api
  <2>9. CASE PatchNotFound
    BY <2>9, DrainReturned DEF PatchNotFound, Return, Api
  <2>10. CASE ReturnError
    BY <2>10, DrainReturned DEF ReturnError, Return, Api
  <2>11. CASE Crash
    <3>1. Api' = Api
      BY <2>11 DEF Crash, Api
    <3> QED
      BY <2>11, <3>1, DrainReturned DEF Crash, Return
  <2>12. CASE FindDeviceConfigForNodeChange
    BY <2>12, WatchKeepsApi, DrainUnmoved DEF FindDeviceConfigForNodeChange, DrainInv
  <2>13. CASE DroppedEvent
    BY <2>13, WatchKeepsApi, DrainUnmoved DEF DroppedEvent, DrainInv
  <2>14. CASE Resync
    BY <2>14, DrainUnmoved DEF Resync, Api
  <2>15. CASE ChangeVersion
    BY <2>15, DrainUnmoved DEF ChangeVersion, Api
  <2>16. ASSUME NEW n \in Node, KMMStep(n) \/ EnvironmentStep(n) PROVE Drain'
    BY <2>16, OthersTouch, DrainTouched DEF DrainInv
  <2>17. CASE UNCHANGED vars
    BY <2>17, DrainUnmoved DEF vars, Api
  <2> QED
    BY <2>1, <2>2, <2>3, <2>4, <2>5, <2>6, <2>7, <2>8, <2>9, <2>10, <2>11, <2>12, <2>13,
       <2>14, <2>15, <2>16, <2>17 DEF Next, ReconcileStep
<1> QED
  BY <1>1, <1>2 DEF DrainInv, Drain

\* The invariant: how far the cluster can have moved from the list that Reconcile
\* works on.
THEOREM ListsAreGoodEnough ==
  ASSUME FreshReads
  PROVE  Spec => []DrainInv
<1>1. Init => DrainInv
  BY DrainInit
<1>2. DrainInv /\ [Next]_vars => DrainInv'
  BY DrainStep
<1> QED
  BY <1>1, <1>2, PTL DEF Spec

\* With lists that are fresh when they are read, and whatever happens between the
\* list and the patches or goes wrong with them (errors, crashes, edits of
\* driverVersion, reboots, nodes that come and go, other taint writers), no
\* driver is swapped under the workloads of a node that is not drained.
THEOREM DriversAreSwappedDrained ==
  ASSUME FreshReads
  PROVE  Spec => []SwapOnlyDrained
<1>1. DrainInv => SwapOnlyDrained
  BY DEF DrainInv
<1> QED
  BY <1>1, ListsAreGoodEnough, PTL

-----------------------------------------------------------------------------
(* One node per version *)

\* The conjuncts of OneNodeInv but for DrainInv.
OneNode == OneNodePerVersion /\ SnapshotInUpgrade /\ SnapshotUpgraded

\* Steps that neither write a Node object nor move Reconcile.
LEMMA OneNodeUnmoved ==
  ASSUME OneNodeInv, Api' = Api, UNCHANGED operator
  PROVE  OneNode'
BY DEF OneNodeInv, OneNode, operator, Present, Known, InUpgrade, OneNodePerVersion,
       SnapshotInUpgrade, SnapshotUpgraded

\* Steps of Reconcile that leave it with no list in its hands.
LEMMA OneNodeReturned ==
  ASSUME OneNodeInv, Api' = Api, pc' \notin {"uncordon", "cordon", "kickoff"}
  PROVE  OneNode'
BY DEF OneNodeInv, OneNode, Present, Known, InUpgrade, OneNodePerVersion,
       SnapshotInUpgrade, SnapshotUpgraded

\* No node enters the upgrade by what the others do.
LEMMA OneNodeTouched ==
  ASSUME OneNodeInv, UNCHANGED operator, NEW n \in Node, NEW object,
         Touched(Api[n], object), Settled(Api[n], object),
         Api' = [Api EXCEPT ![n] = object]
  PROVE  OneNode'
<1>1. Api \in [Node -> NodeOrAbsent]
  BY ApiType DEF OneNodeInv, DrainInv
<1>2. Api'[n] = object /\ \A m \in Node \ {n} : Api'[m] = Api[m]
  BY <1>1
<1>3. UNCHANGED <<pc, devConfig, targeted, upgradeNode>>
  BY DEF operator
<1>4. FreshNode.version = NoVersion /\ FreshNode.ready = NoVersion
  BY DEF FreshNode
<1>5. \A v \in Version : InUpgrade(v)' \subseteq InUpgrade(v)
  BY <1>2, <1>4 DEF InUpgrade, Present, Touched, Settled
<1>6. OneNodePerVersion'
  BY <1>5 DEF OneNodeInv, OneNodePerVersion
<1>7. pc \in {"uncordon", "cordon", "kickoff"} => devConfig \in Version
  BY DEF OneNodeInv, DrainInv, Progress
<1>8. SnapshotInUpgrade'
  BY <1>3, <1>5, <1>7 DEF OneNodeInv, SnapshotInUpgrade, InUpgrade
<1>9. SnapshotUpgraded'
  BY <1>2, <1>3, <1>4 DEF OneNodeInv, SnapshotUpgraded, Known, Present, Touched, Settled
<1> QED
  BY <1>6, <1>8, <1>9 DEF OneNode

\* GetTargetedNodes of a fresh cache has every node in upgrade on its list.
LEMMA OneNodeListed ==
  ASSUME OneNodeInv, FreshReads, GetTargetedNodes
  PROVE  OneNode'
<1>1. Api' = Api /\ Cache = Api /\ UNCHANGED devConfig /\ pc' = "uncordon"
  BY DEF GetTargetedNodes, Api, Cache
<1>2. Present' = Present /\ \A v : InUpgrade(v)' = InUpgrade(v)
  BY <1>1 DEF Present, InUpgrade
<1>3. devConfig \in Version
  BY DEF GetTargetedNodes, OneNodeInv, DrainInv, TypeOK
<1>4. \A n \in Present \cap Targeted : targeted'[n] = Api[n] /\ Api[n] # Absent
  BY <1>1 DEF GetTargetedNodes, Present
<1>5. OneNodePerVersion'
  BY <1>2 DEF OneNodeInv, OneNodePerVersion
<1>6. SnapshotInUpgrade'
  <2>1. ASSUME NEW n \in InUpgrade(devConfig)
        PROVE  /\ targeted'[n] # Absent
               /\ getNodeUpgradeState(targeted'[n], devConfig) = "nodeInUpgrade"
    BY <1>3, <1>4, <2>1 DEF InUpgrade, OneNodeInv, DrainInv, LabelledAreTargeted, getNodeUpgradeState
  <2> QED
    BY <1>1, <1>2, <2>1 DEF SnapshotInUpgrade, InUpgrade, Present
<1>7. SnapshotUpgraded'
  BY <1>1, <1>4 DEF GetTargetedNodes, SnapshotUpgraded, Known, Present
<1> QED
  BY <1>5, <1>6, <1>7 DEF OneNode

\* Patches of the taints change neither label.
LEMMA OneNodeTaints ==
  ASSUME OneNodeInv, NEW n \in Node, n \in Present,
         NEW taints \in SUBSET (ForeignTaint \cup {UpgradeTaint}),
         Api' = [Api EXCEPT ![n].taints = taints]
  PROVE  /\ Present' = Present
         /\ \A m \in Present : Api'[m].version = Api[m].version /\ Api'[m].ready = Api[m].ready
<1>1. Api \in [Node -> NodeOrAbsent] /\ Api[n] \in NodeObject
  BY ApiType DEF OneNodeInv, DrainInv, Present, NodeOrAbsent
<1>2. /\ \A m \in Node \ {n} : Api'[m] = Api[m]
      /\ Api'[n] \in NodeObject
      /\ Api'[n].version = Api[n].version /\ Api'[n].ready = Api[n].ready
  BY <1>1 DEF NodeObject
<1> QED
  BY <1>2, AbsentIsNoObject DEF Present

\* UncordonUpgradedNode writes taints only.
LEMMA OneNodeUncordoned ==
  ASSUME OneNodeInv, UncordonUpgradedNode
  PROVE  OneNode'
<1>1. pc = "uncordon" /\ pc' = "cordon" /\ UNCHANGED <<devConfig, targeted>>
  BY DEF UncordonUpgradedNode
<1>2. /\ Present' = Present
      /\ \A m \in Present : Api'[m].version = Api[m].version /\ Api'[m].ready = Api[m].ready
  <2>1. CASE Api' = Api
    BY <2>1 DEF Present
  <2>2. ASSUME NEW n \in Node, n \in Present, targeted[n] # Absent,
               Api' = [Api EXCEPT ![n].taints = uncordonedTaints(targeted[n])]
        PROVE  /\ Present' = Present
               /\ \A m \in Present : Api'[m].version = Api[m].version /\ Api'[m].ready = Api[m].ready
    <3>1. targeted[n] \in NodeObject
      BY <2>2 DEF OneNodeInv, DrainInv, TypeOK, NodeOrAbsent
    <3>2. uncordonedTaints(targeted[n]) \in SUBSET (ForeignTaint \cup {UpgradeTaint})
      BY <3>1 DEF NodeObject, uncordonedTaints
    <3> QED
      BY <2>2, <3>2, OneNodeTaints
  <2> QED
    BY <2>1, <2>2, UncordonEffect DEF OneNodeInv, DrainInv
<1>3. (\A v : InUpgrade(v)' = InUpgrade(v)) /\ Known' = Known
  BY <1>1, <1>2 DEF InUpgrade, Known
<1> QED
  BY <1>1, <1>2, <1>3 DEF OneNodeInv, OneNode, OneNodePerVersion, SnapshotInUpgrade,
     SnapshotUpgraded, Known

\* GetNodeForUpgrade found no node in upgrade, and SnapshotInUpgrade says that
\* there is none now either.
LEMMA OneNodeCordoned ==
  ASSUME OneNodeInv, CordonNodeForUpgrade
  PROVE  OneNode'
<1>1. pc = "cordon" /\ pc' = "kickoff" /\ UNCHANGED <<devConfig, targeted>>
  BY DEF CordonNodeForUpgrade
<1>2. /\ Present' = Present
      /\ \A m \in Present : Api'[m].version = Api[m].version /\ Api'[m].ready = Api[m].ready
  <2>1. CASE Api' = Api
    BY <2>1 DEF Present
  <2>2. CASE /\ upgradeNode' # NoNode /\ upgradeNode' \in Present
             /\ Api' = [Api EXCEPT ![upgradeNode'].taints = cordonedTaints(targeted[upgradeNode'])]
    <3>1. upgradeNode' \in Node
      BY <2>2 DEF Present
    <3>2. cordonedTaints(targeted[upgradeNode']) \in SUBSET (ForeignTaint \cup {UpgradeTaint})
      BY <2>2, CordonEffect, NodeForUpgradeFacts DEF OneNodeInv, DrainInv
    <3> QED
      BY <2>2, <3>1, <3>2, OneNodeTaints
  <2> QED
    BY <2>1, <2>2, CordonEffect DEF OneNodeInv, DrainInv
<1>3. (\A v : InUpgrade(v)' = InUpgrade(v)) /\ Known' = Known
  BY <1>1, <1>2 DEF InUpgrade, Known
<1>4. upgradeNode' # NoNode => InUpgrade(devConfig) = {}
  <2> SUFFICES ASSUME upgradeNode' # NoNode, NEW n \in InUpgrade(devConfig) PROVE FALSE
    OBVIOUS
  <2>1. n \in Listed(targeted) /\ getNodeUpgradeState(targeted[n], devConfig) = "nodeInUpgrade"
    BY <1>1 DEF OneNodeInv, SnapshotInUpgrade, Listed, InUpgrade, Present
  <2> QED
    BY <2>1, CordonEffect, NodeForUpgradeFacts DEF OneNodeInv, DrainInv
<1> QED
  BY <1>1, <1>2, <1>3, <1>4 DEF OneNodeInv, OneNode, OneNodePerVersion, SnapshotInUpgrade,
     SnapshotUpgraded, Known

\* KickoffUpgrade labels a node when no other is in upgrade for that version.
LEMMA OneNodeKickedOff ==
  ASSUME OneNodeInv, KickoffUpgrade
  PROVE  OneNode'
<1>1. pc = "kickoff" /\ pc' = "rest"
  BY DEF KickoffUpgrade
<1>2. CASE Api' = Api
  BY <1>1, <1>2, OneNodeReturned
<1>3. CASE /\ upgradeNode # NoNode /\ upgradeNode \in Present
           /\ Api' = [Api EXCEPT ![upgradeNode].version = devConfig]
  <2>1. Api \in [Node -> NodeOrAbsent] /\ upgradeNode \in Node /\ devConfig \in Version
    BY <1>1, <1>3, ApiType DEF OneNodeInv, DrainInv, Progress, Present
  <2>2. /\ \A m \in Node \ {upgradeNode} : Api'[m] = Api[m]
        /\ Api'[upgradeNode].version = devConfig
    BY <1>3, <2>1 DEF NodeObject, NodeOrAbsent, Present
  <2>3. InUpgrade(devConfig) = {}
    BY <1>1, <1>3 DEF OneNodeInv, SnapshotInUpgrade
  <2>4. \A v \in Version : InUpgrade(v)' \subseteq IF v = devConfig THEN {upgradeNode} ELSE InUpgrade(v)
    BY <2>2, <2>3 DEF InUpgrade, Present
  <2>5. OneNodePerVersion'
    BY <2>4 DEF OneNodeInv, OneNodePerVersion
  <2> QED
    BY <1>1, <2>5 DEF OneNode, SnapshotInUpgrade, SnapshotUpgraded, Known
<1> QED
  BY <1>2, <1>3, KickoffEffect DEF OneNodeInv, DrainInv

\* At the start no node is in upgrade.
LEMMA OneNodeInit == Init => OneNodeInv
<1> SUFFICES ASSUME Init PROVE OneNodeInv
  OBVIOUS
<1>1. PICK nodes \in [Node -> {Absent, FreshNode}
                                \cup [version : Version, ready : Version, taints : {{}}]] :
        /\ \A n \in Listed(nodes) : nodes[n].version = nodes[n].ready
        /\ stream = <<nodes>>
  BY DEF Init
<1>2. Api = nodes /\ Present = Listed(nodes)
  BY <1>1 DEF Api, Present, Listed
<1>3. \A v : InUpgrade(v) = {}
  BY <1>1, <1>2 DEF InUpgrade
<1> QED
  BY <1>3, DrainInit DEF Init, OneNodeInv, OneNodePerVersion, SnapshotInUpgrade,
     SnapshotUpgraded, Known

\* OneNodeInv is inductive when lists are fresh and no node reboots.
LEMMA OneNodeStep ==
  ASSUME FreshReads, "reboot" \notin Faults, OneNodeInv, [Next]_vars
  PROVE  OneNodeInv'
<1>a. DrainInv /\ TypeOK
  BY DEF OneNodeInv, DrainInv
<1>1. DrainInv'
  BY <1>a, DrainStep
<1>2. OneNode'
  <2>1. CASE Reconcile
    BY <2>1, OneNodeReturned DEF Reconcile, Api
  <2>2. CASE handleKMMModule
    BY <2>2, OneNodeReturned DEF handleKMMModule, Api
  <2>3. CASE NoRollingUpgrade
    BY <2>3, OneNodeReturned DEF NoRollingUpgrade, Api
  <2>4. CASE GetTargetedNodes
    BY <2>4, OneNodeListed
  <2>5. CASE UncordonUpgradedNode
    BY <2>5, OneNodeUncordoned
  <2>6. CASE CordonNodeForUpgrade
    BY <2>6, OneNodeCordoned
  <2>7. CASE KickoffUpgrade
    BY <2>7, OneNodeKickedOff
  <2>8. CASE ReturnNil
    BY <2>8, OneNodeReturned DEF ReturnNil, Return, Api
  <2>9. CASE PatchNotFound
    BY <2>9, OneNodeReturned DEF PatchNotFound, Return, Api
  <2>10. CASE ReturnError
    BY <2>10, OneNodeReturned DEF ReturnError, Return, Api
  <2>11. CASE Crash
    <3>1. Api' = Api
      BY <2>11 DEF Crash, Api
    <3> QED
      BY <2>11, <3>1, OneNodeReturned DEF Crash, Return
  <2>12. CASE FindDeviceConfigForNodeChange
    BY <1>a, <2>12, WatchKeepsApi, OneNodeUnmoved DEF FindDeviceConfigForNodeChange
  <2>13. CASE DroppedEvent
    BY <1>a, <2>13, WatchKeepsApi, OneNodeUnmoved DEF DroppedEvent
  <2>14. CASE Resync
    BY <2>14, OneNodeUnmoved DEF Resync, Api
  <2>15. CASE ChangeVersion
    BY <2>15, OneNodeUnmoved DEF ChangeVersion, Api
  <2>16. ASSUME NEW n \in Node, KMMStep(n) \/ EnvironmentStep(n) PROVE OneNode'
    BY <1>a, <2>16, OthersTouch, OneNodeTouched
  <2>17. CASE UNCHANGED vars
    BY <2>17, OneNodeUnmoved DEF vars, Api
  <2> QED
    BY <2>1, <2>2, <2>3, <2>4, <2>5, <2>6, <2>7, <2>8, <2>9, <2>10, <2>11, <2>12, <2>13,
       <2>14, <2>15, <2>16, <2>17 DEF Next, ReconcileStep
<1> QED
  BY <1>1, <1>2 DEF OneNodeInv, OneNode

\* The invariant for that: no node enters the upgrade behind Reconcile's back.
THEOREM NobodyElseUpgrades ==
  ASSUME FreshReads, "reboot" \notin Faults
  PROVE  Spec => []OneNodeInv
<1>1. Init => OneNodeInv
  BY OneNodeInit
<1>2. OneNodeInv /\ [Next]_vars => OneNodeInv'
  BY OneNodeStep
<1> QED
  BY <1>1, <1>2, PTL DEF Spec

\* With fresh lists, and drivers that are not lost to a reboot, at most one node
\* at a time is without the driver of a version it is labelled for.
THEOREM UpgradeIsRolling ==
  ASSUME FreshReads, "reboot" \notin Faults
  PROVE  Spec => []OneNodePerVersion
<1>1. OneNodeInv => OneNodePerVersion
  BY DEF OneNodeInv
<1> QED
  BY <1>1, NobodyElseUpgrades, PTL

\* Only UncordonUpgradedNode removes the upgrade taint, and from a node that was listed as
\* upgraded.
LEMMA UncordonRemoves ==
  ASSUME TypeOK, Next, NEW n \in Drained, Api'[n] # Absent, UpgradeTaint \notin Api'[n].taints
  PROVE  /\ pc = "uncordon"
         /\ n \in Known
         /\ targeted[n].version = devConfig
         /\ targeted[n].ready = devConfig
<1>a. Api \in [Node -> NodeOrAbsent] /\ n \in Node /\ n \in Present
  BY ApiType DEF Drained, Present
<1>b. Api' # Api
  BY DEF Drained
<1>1. CASE UncordonUpgradedNode
  <2>1. PICK m \in Node :
          /\ m \in Present /\ targeted[m] # Absent
          /\ targeted[m].version = devConfig /\ targeted[m].ready = devConfig
          /\ Api' = [Api EXCEPT ![m].taints = uncordonedTaints(targeted[m])]
    BY <1>a, <1>b, <1>1, UncordonEffect
  <2>2. m = n
    BY <1>a, <2>1 DEF Drained
  <2>3. n \in Known
    BY <1>a, <1>1, <2>1, <2>2 DEF Known, UncordonUpgradedNode
  <2> QED
    BY <1>1, <2>1, <2>2, <2>3 DEF UncordonUpgradedNode
<1>2. CASE CordonNodeForUpgrade
  <2>1. upgradeNode' \in Node /\ Api' = [Api EXCEPT ![upgradeNode'].taints = cordonedTaints(targeted[upgradeNode'])]
    BY <1>a, <1>b, <1>2, CordonEffect DEF Present
  <2>2. Api[upgradeNode'] \in NodeObject
    BY <1>a, <1>b, <1>2, CordonEffect DEF Present, NodeOrAbsent
  <2>3. UpgradeTaint \in Api'[upgradeNode'].taints
    BY <1>a, <2>1, <2>2 DEF cordonedTaints, NodeObject
  <2> QED
    BY <1>a, <2>1, <2>3 DEF Drained
<1>3. CASE KickoffUpgrade
  <2>1. upgradeNode \in Node /\ Api' = [Api EXCEPT ![upgradeNode].version = devConfig]
    BY <1>a, <1>b, <1>3, KickoffEffect DEF Present
  <2>2. Api[upgradeNode] \in NodeObject
    BY <1>a, <1>b, <1>3, KickoffEffect DEF Present, NodeOrAbsent
  <2>3. Api'[upgradeNode].taints = Api[upgradeNode].taints
    BY <1>a, <2>1, <2>2 DEF NodeObject
  <2> QED
    BY <1>a, <2>1, <2>3 DEF Drained
<1>4. ASSUME NEW m \in Node, KMMStep(m) \/ EnvironmentStep(m) PROVE FALSE
  <2>1. PICK object \in NodeOrAbsent : Touched(Api[m], object) /\ Api' = [Api EXCEPT ![m] = object]
    BY <1>a, <1>4, OthersTouch
  <2> QED
    BY <1>a, <2>1 DEF Touched, Drained, Present
<1>5. CASE UNCHANGED stream
  BY <1>b, <1>5 DEF Api
<1>6. CASE Crash
  BY <1>b, <1>6 DEF Crash, Api
<1>7. CASE FindDeviceConfigForNodeChange \/ DroppedEvent
  BY <1>a, <1>b, <1>7, WatchKeepsApi DEF FindDeviceConfigForNodeChange, DroppedEvent
<1> QED
  BY <1>1, <1>2, <1>3, <1>4, <1>5, <1>6, <1>7
     DEF Next, ReconcileStep, Reconcile, handleKMMModule, NoRollingUpgrade, GetTargetedNodes,
         ReturnNil, PatchNotFound, ReturnError, Resync, ChangeVersion

\* The taint a step removes was on a node whose driver is the one its label asks
\* for.
LEMMA UncordonStep ==
  ASSUME OneNodeInv, Next, NEW n \in Drained, Api'[n] # Absent, UpgradeTaint \notin Api'[n].taints
  PROVE  Api[n].ready = Api[n].version
BY UncordonRemoves DEF OneNodeInv, DrainInv, SnapshotUpgraded

\* Under the same conditions the workloads come back to a node only when it runs
\* the driver its label asks for.
THEOREM NodesReturnReady ==
  ASSUME FreshReads, "reboot" \notin Faults
  PROVE  Spec => UncordonOnlyWhenReady
<1> DEFINE Step == \A n \in Drained : Api'[n] # Absent /\ UpgradeTaint \notin Api'[n].taints
                                        => Api[n].ready = Api[n].version
<1>1. Init => OneNodeInv
  BY OneNodeInit
<1>2. OneNodeInv /\ [Next]_vars => OneNodeInv'
  BY OneNodeStep
<1>3. OneNodeInv /\ [Next]_vars => [Step]_vars
  BY UncordonStep
<1> QED
  BY <1>1, <1>2, <1>3, PTL DEF Spec, UncordonOnlyWhenReady

=============================================================================
