------------------------- MODULE StaleLists_proofs -------------------------
(***************************************************************************)
(* RollingUpgrade with lists of any age, while driverVersion stays as it   *)
(* is: for every set of nodes, every selector, every bound on the lag and  *)
(* every mixture of the other faults.                                      *)
(***************************************************************************)
EXTENDS RollingUpgrade_proofs

\* The conjuncts of StaleInv but for the type.
Stale == /\ SwapOnlyDrained
         /\ UnlabelledIsUnloaded
         /\ OneVersionAsked
         /\ WatchInOrder
         /\ ListInOrder
         /\ PickedIsDrained

LEMMA LaterIsReflexive == \A object : Later(object, object)
BY DEF Later

LEMMA LaterIsTransitive ==
  ASSUME NEW old, NEW between, NEW new, Later(old, between), Later(between, new)
  PROVE  Later(old, new)
BY DEF Later

\* The cache and the API server are the ends of the watch.
LEMMA WatchEnds ==
  ASSUME TypeOK
  PROVE  Cache \in Watched /\ Api \in Watched
<1>1. Len(stream) \in Nat /\ 1 <= Len(stream)
  BY DEF TypeOK
<1> QED
  BY <1>1 DEF Cache, Api, Watched

\* However a step moves the watch, it has what it had, and what the API server has now.
LEMMA WatchGrows ==
  ASSUME TypeOK, \/ UNCHANGED stream
                 \/ Len(stream) > 1 /\ stream' = Tail(stream)
                 \/ stream' = <<Api>>
                 \/ \E nodes : stream' = Append(stream, nodes)
  PROVE  Watched' \subseteq Watched \cup {Api'}
<1>1. Len(stream) \in Nat /\ stream \in Seq([Node -> NodeOrAbsent]) /\ 1 <= Len(stream)
  BY DEF TypeOK
<1>2. CASE UNCHANGED stream
  BY <1>2 DEF Watched
<1>3. CASE Len(stream) > 1 /\ stream' = Tail(stream)
  <2>1. Len(stream') = Len(stream) - 1 /\ \A i \in 1 .. Len(stream') : stream'[i] = stream[i + 1]
    BY <1>1, <1>3
  <2> QED
    BY <1>1, <2>1 DEF Watched
<1>4. CASE stream' = <<Api>>
  BY <1>4 DEF Watched, Api
<1>5. ASSUME NEW nodes, stream' = Append(stream, nodes) PROVE Watched' \subseteq Watched \cup {Api'}
  <2>1. /\ Len(stream') = Len(stream) + 1
        /\ stream'[Len(stream) + 1] = nodes
        /\ \A i \in 1 .. Len(stream) : stream'[i] = stream[i]
    BY <1>1, <1>5
  <2>2. Api' = nodes
    BY <2>1 DEF Api
  <2> QED
    BY <1>1, <2>1, <2>2 DEF Watched
<1> QED
  BY <1>2, <1>3, <1>4, <1>5

LEMMA WatchMoves ==
  ASSUME TypeOK, [Next]_vars
  PROVE  Watched' \subseteq Watched \cup {Api'}
<1>1. ASSUME NEW n, NEW object, Write(n, object) PROVE Watched' \subseteq Watched \cup {Api'}
  BY <1>1, WatchGrows DEF Write
<1>2. CASE UNCHANGED stream
  BY <1>2, WatchGrows
<1>3. CASE UncordonUpgradedNode \/ CordonNodeForUpgrade \/ KickoffUpgrade
  BY <1>1, <1>2, <1>3 DEF UncordonUpgradedNode, CordonNodeForUpgrade, KickoffUpgrade, Patch
<1>4. CASE FindDeviceConfigForNodeChange \/ DroppedEvent \/ Crash
  BY <1>4, WatchGrows DEF FindDeviceConfigForNodeChange, DroppedEvent, Crash
<1>5. ASSUME NEW n \in Node, KMMStep(n) \/ EnvironmentStep(n)
      PROVE  Watched' \subseteq Watched \cup {Api'}
  BY <1>1, <1>5 DEF KMMStep, EnvironmentStep, KMMUnload, KMMLoad, ChangeForeignTaint, NodeJoin,
                    NodeLeave, NodeReboot
<1>6. CASE \/ Reconcile \/ handleKMMModule \/ NoRollingUpgrade \/ GetTargetedNodes \/ ReturnNil
           \/ PatchNotFound \/ ReturnError \/ Resync \/ ChangeVersion \/ UNCHANGED vars
  BY <1>2, <1>6 DEF Reconcile, handleKMMModule, NoRollingUpgrade, GetTargetedNodes, ReturnNil,
                    PatchNotFound, ReturnError, Resync, ChangeVersion, vars
<1> QED
  BY <1>3, <1>4, <1>5, <1>6 DEF Next, ReconcileStep

-----------------------------------------------------------------------------
\* A step that moves the API server's objects only forward in the order keeps every
\* older state where it was.
LEMMA OrderKept ==
  ASSUME StaleInv, Watched' \subseteq Watched \cup {Api'}, UNCHANGED driverVersion,
         \A n \in Node : Later(Api[n], Api'[n])
  PROVE  /\ WatchInOrder'
         /\ targeted' \in {targeted, NothingListed} => ListInOrder'
<1>1. \A old, new : Later(old, new)' <=> Later(old, new)
  BY DEF Later, Harmless
<1>2. \A nodes \in Watched, n \in Node : Later(nodes[n], Api'[n])
  BY LaterIsTransitive DEF StaleInv, WatchInOrder
<1>3. WatchInOrder'
  BY <1>1, <1>2, LaterIsReflexive DEF WatchInOrder
<1>4. \A n \in Listed(targeted) : Later(targeted[n], Api'[n])
  BY LaterIsTransitive DEF StaleInv, ListInOrder, Listed
<1>5. ASSUME targeted' \in {targeted, NothingListed} PROVE ListInOrder'
  BY <1>1, <1>4, <1>5 DEF ListInOrder, Listed, NothingListed
<1> QED
  BY <1>3, <1>5
\* Such a step keeps the node that was picked drained, too.
LEMMA PickKept ==
  ASSUME StaleInv, UNCHANGED driverVersion, \A n \in Node : Later(Api[n], Api'[n]),
         pc' # "kickoff" \/ UNCHANGED <<pc, upgradeNode>>
  PROVE  PickedIsDrained'
<1>1. \A object : Harmless(object)' <=> Harmless(object)
  BY DEF Harmless
<1> SUFFICES ASSUME pc' = "kickoff", UNCHANGED <<pc, upgradeNode>>, upgradeNode \in Present'
             PROVE  Harmless(Api'[upgradeNode]) \/ UpgradeTaint \in Api'[upgradeNode].taints
  BY <1>1 DEF PickedIsDrained
<1>2. upgradeNode \in Node /\ Later(Api[upgradeNode], Api'[upgradeNode])
  BY DEF Present
<1>3. CASE upgradeNode \in Present
  BY <1>2, <1>3 DEF StaleInv, PickedIsDrained, Later
<1>4. CASE upgradeNode \notin Present
  BY <1>2, <1>4 DEF Present, Later, Harmless
<1> QED
  BY <1>3, <1>4

\* Steps that write no Node object and list none.
LEMMA StaleUnmoved ==
  ASSUME StaleInv, Watched' \subseteq Watched \cup {Api'}, Api' = Api, UNCHANGED driverVersion,
         targeted' \in {targeted, NothingListed}, pc' # "idle" => devConfig' = driverVersion,
         pc' # "kickoff" \/ UNCHANGED <<pc, upgradeNode>>
  PROVE  Stale'
<1>1. \A n \in Node : Later(Api[n], Api'[n])
  BY LaterIsReflexive
<1>2. WatchInOrder' /\ ListInOrder' /\ PickedIsDrained'
  BY <1>1, OrderKept, PickKept
<1>3. SwapOnlyDrained' /\ UnlabelledIsUnloaded' /\ OneVersionAsked'
  BY DEF StaleInv, SwapOnlyDrained, UnlabelledIsUnloaded, OneVersionAsked, Present
<1> QED
  BY <1>2, <1>3 DEF Stale

\* What may be written to a node: a later state, that loses no workloads.
Fits(old, new) ==
  /\ Later(old, new)
  /\ new # Absent =>
       /\ new.version = NoVersion => new.ready = NoVersion
       /\ new.ready \notin {NoVersion, new.version} => UpgradeTaint \in new.taints

\* Steps that write such a state to one Node object.
LEMMA StaleWritten ==
  ASSUME StaleInv, Watched' \subseteq Watched \cup {Api'}, UNCHANGED <<driverVersion, targeted>>,
         NEW n \in Node, NEW object, Api' = [Api EXCEPT ![n] = object], Fits(Api[n], object),
         pc' # "idle" => devConfig' = driverVersion
  PROVE  /\ \A m \in Node : Later(Api[m], Api'[m])
         /\ pc' # "kickoff" \/ UNCHANGED <<pc, upgradeNode>> => Stale'
         /\ PickedIsDrained' => Stale'
<1>1. Api \in [Node -> NodeOrAbsent]
  BY ApiType DEF StaleInv
<1>2. Api'[n] = object /\ \A m \in Node \ {n} : Api'[m] = Api[m]
  BY <1>1
<1>3. \A m \in Node : Later(Api[m], Api'[m])
  BY <1>2, LaterIsReflexive DEF Fits
<1>4. WatchInOrder' /\ ListInOrder'
  BY <1>3, OrderKept
<1>5. SwapOnlyDrained' /\ UnlabelledIsUnloaded' /\ OneVersionAsked'
  BY <1>2 DEF StaleInv, SwapOnlyDrained, UnlabelledIsUnloaded, OneVersionAsked, Present, Fits
<1> QED
  BY <1>3, <1>4, <1>5, PickKept DEF Stale

-----------------------------------------------------------------------------
\* A list of any age has states that the API server's are later than.
LEMMA StaleListed ==
  ASSUME StaleInv, GetTargetedNodes
  PROVE  Stale'
<1>1. Api' = Api /\ Watched' = Watched
  BY DEF GetTargetedNodes, Api, Watched
<1>2. \A old, new : Later(old, new)' <=> Later(old, new)
  BY DEF GetTargetedNodes, Later, Harmless
<1>3. \A n \in Listed(targeted') : n \in Node /\ targeted'[n] = Cache[n]
  BY DEF GetTargetedNodes, Listed
<1>4. \A n \in Node : Later(Cache[n], Api[n])
  BY WatchEnds DEF StaleInv, WatchInOrder
<1>5. ListInOrder'
  BY <1>1, <1>2, <1>3, <1>4 DEF ListInOrder
<1>6. WatchInOrder'
  BY <1>1, <1>2 DEF StaleInv, WatchInOrder
<1>7. SwapOnlyDrained' /\ UnlabelledIsUnloaded' /\ OneVersionAsked' /\ PickedIsDrained'
  BY <1>1 DEF GetTargetedNodes, StaleInv, SwapOnlyDrained, UnlabelledIsUnloaded, OneVersionAsked,
              PickedIsDrained, Present
<1> QED
  BY <1>5, <1>6, <1>7 DEF Stale

\* UncordonUpgradedNode writes to nodes that were upgraded once.
LEMMA StaleUncordoned ==
  ASSUME StaleInv, Watched' \subseteq Watched \cup {Api'}, UncordonUpgradedNode
  PROVE  Stale'
<1>1. /\ pc = "uncordon" /\ pc' = "cordon"
      /\ UNCHANGED <<driverVersion, targeted, devConfig>> /\ devConfig = driverVersion
  BY DEF UncordonUpgradedNode, StaleInv, OneVersionAsked
<1>2. CASE Api' = Api
  BY <1>1, <1>2, StaleUnmoved
<1>3. ASSUME NEW n \in Node, n \in Present, targeted[n] # Absent,
             targeted[n].version = devConfig, targeted[n].ready = devConfig,
             Api' = [Api EXCEPT ![n].taints = uncordonedTaints(targeted[n])]
      PROVE  Stale'
  <2> DEFINE object == [Api[n] EXCEPT !.taints = uncordonedTaints(targeted[n])]
  <2>1. Api[n] \in NodeObject /\ Api[n] # Absent
    BY <1>3, ApiType DEF StaleInv, Present, NodeOrAbsent
  <2>2. Harmless(targeted[n]) /\ Later(targeted[n], Api[n])
    BY <1>1, <1>3 DEF Harmless, StaleInv, ListInOrder, Listed
  <2>3. Harmless(Api[n])
    BY <2>2 DEF Later
  <2>4. object.version = Api[n].version /\ object.ready = Api[n].ready
    BY <2>1 DEF NodeObject
  <2>5. Api[n].version = NoVersion => Api[n].ready = NoVersion
    BY <1>3 DEF StaleInv, UnlabelledIsUnloaded
  <2>6. Api' = [Api EXCEPT ![n] = object]
    BY <1>3
  <2> HIDE DEF object
  <2>7. Fits(Api[n], object)
    BY <2>1, <2>3, <2>4, <2>5 DEF Fits, Later, Harmless
  <2> QED
    BY <1>1, <2>6, <2>7, StaleWritten
<1> QED
  BY <1>2, <1>3, UncordonEffect DEF StaleInv

\* CordonNodeForUpgrade picks nodes that were not labelled for this version when they
\* were listed: one that is new is harmless, another is drained, by it or before.
LEMMA StaleCordoned ==
  ASSUME StaleInv, Watched' \subseteq Watched \cup {Api'}, CordonNodeForUpgrade
  PROVE  Stale'
<1>1. /\ pc = "cordon" /\ pc' = "kickoff"
      /\ UNCHANGED <<driverVersion, targeted, devConfig>> /\ devConfig = driverVersion
  BY DEF CordonNodeForUpgrade, StaleInv, OneVersionAsked
<1>2. \A object : Harmless(object)' <=> Harmless(object)
  BY <1>1 DEF Harmless
<1>3. CASE Api' = Api /\ (upgradeNode' # NoNode => ~needsCordon(targeted[upgradeNode']))
  <2>1. ASSUME upgradeNode' \in Present
        PROVE  Harmless(Api[upgradeNode']) \/ UpgradeTaint \in Api[upgradeNode'].taints
    <3>1. /\ upgradeNode' # NoNode
          /\ upgradeNode' \in Listed(targeted)
      BY <2>1, CordonEffect, NodeForUpgradeFacts, NodeAssumption DEF Present, Listed, StaleInv
    <3>2. Later(targeted[upgradeNode'], Api[upgradeNode'])
      BY <3>1 DEF StaleInv, ListInOrder
    <3> QED
      BY <1>3, <3>1, <3>2 DEF needsCordon, isNewNodeForUpgrade, Harmless, Later
  <2>2. PickedIsDrained'
    BY <1>2, <1>3, <2>1 DEF PickedIsDrained, Present
  <2>3. \A m \in Node : Later(Api[m], Api'[m])
    BY <1>3, LaterIsReflexive
  <2>4. WatchInOrder' /\ ListInOrder'
    BY <1>1, <2>3, OrderKept
  <2>5. SwapOnlyDrained' /\ UnlabelledIsUnloaded' /\ OneVersionAsked'
    BY <1>1, <1>3 DEF StaleInv, SwapOnlyDrained, UnlabelledIsUnloaded, OneVersionAsked, Present
  <2> QED
    BY <2>2, <2>4, <2>5 DEF Stale
<1>4. CASE /\ upgradeNode' # NoNode /\ upgradeNode' \in Present
           /\ Api' = [Api EXCEPT ![upgradeNode'].taints = cordonedTaints(targeted[upgradeNode'])]
  <2> DEFINE n == upgradeNode'
             object == [Api[n] EXCEPT !.taints = cordonedTaints(targeted[n])]
  <2>1. n \in Node /\ Api[n] \in NodeObject /\ Api \in [Node -> NodeOrAbsent]
    BY <1>4, ApiType DEF StaleInv, Present, NodeOrAbsent
  <2>2. /\ object.version = Api[n].version /\ object.ready = Api[n].ready
        /\ UpgradeTaint \in object.taints /\ object # Absent /\ Api[n] # Absent
    BY <2>1, AbsentIsNoObject DEF NodeObject, cordonedTaints, Absent
  <2>3. Api' = [Api EXCEPT ![n] = object]
    BY <1>4
  <2>4. Api[n].version = NoVersion => Api[n].ready = NoVersion
    BY <1>4 DEF StaleInv, UnlabelledIsUnloaded
  <2> HIDE DEF object, n
  <2>5. Fits(Api[n], object)
    BY <2>2, <2>4 DEF Fits, Later, Harmless
  <2>6. PickedIsDrained' => Stale'
    BY <1>1, <2>1, <2>3, <2>5, StaleWritten
  <2>7. UpgradeTaint \in Api'[n].taints
    BY <2>1, <2>2, <2>3
  <2>8. PickedIsDrained'
    BY <2>7 DEF PickedIsDrained, n
  <2> QED
    BY <2>6, <2>8
<1> QED
  BY <1>3, <1>4, CordonEffect DEF StaleInv

\* KickoffUpgrade writes to the node that was picked: PickedIsDrained.
LEMMA StaleKickedOff ==
  ASSUME StaleInv, Watched' \subseteq Watched \cup {Api'}, KickoffUpgrade
  PROVE  Stale'
<1>1. /\ pc = "kickoff" /\ pc' = "rest"
      /\ UNCHANGED <<driverVersion, targeted, devConfig>> /\ devConfig = driverVersion
      /\ driverVersion \in Version
  BY DEF KickoffUpgrade, StaleInv, OneVersionAsked
<1>2. CASE Api' = Api
  BY <1>1, <1>2, StaleUnmoved
<1>3. CASE /\ upgradeNode # NoNode /\ upgradeNode \in Present
           /\ Api' = [Api EXCEPT ![upgradeNode].version = devConfig]
  <2> DEFINE n == upgradeNode
             object == [Api[n] EXCEPT !.version = devConfig]
  <2>1. n \in Node /\ Api[n] \in NodeObject /\ Api \in [Node -> NodeOrAbsent]
    BY <1>3, ApiType DEF StaleInv, Present, NodeOrAbsent
  <2>2. /\ object.version = driverVersion /\ object.ready = Api[n].ready
        /\ object.taints = Api[n].taints /\ object # Absent /\ Api[n] # Absent
    BY <1>1, <2>1, AbsentIsNoObject DEF NodeObject, Absent
  <2>3. Api' = [Api EXCEPT ![n] = object]
    BY <1>3
  <2>4. /\ Api[n].version = NoVersion => Api[n].ready = NoVersion
        /\ Harmless(Api[n]) \/ UpgradeTaint \in Api[n].taints
    BY <1>1, <1>3 DEF StaleInv, UnlabelledIsUnloaded, PickedIsDrained
  <2> HIDE DEF object, n
  <2>5. Fits(Api[n], object)
    BY <1>1, <2>2, <2>4, VersionAssumption DEF Fits, Later, Harmless
  <2> QED
    BY <1>1, <2>1, <2>3, <2>5, StaleWritten
<1> QED
  BY <1>2, <1>3, KickoffEffect DEF StaleInv

-----------------------------------------------------------------------------
\* What the others do to a node moves it forward in the order, too.
LEMMA TouchedFits ==
  ASSUME NEW old, NEW new, Touched(old, new),
         old # Absent => /\ old.version = NoVersion => old.ready = NoVersion
                         /\ old.ready \notin {NoVersion, old.version} => UpgradeTaint \in old.taints
  PROVE  Fits(old, new)
<1>1. CASE new = Absent
  BY <1>1 DEF Fits, Later, Harmless
<1>2. CASE old = Absent /\ new = FreshNode
  BY <1>2 DEF Fits, Later, Harmless, FreshNode, Absent
<1>3. CASE /\ old # Absent /\ new \in NodeObject
           /\ new.version = old.version
           /\ UpgradeTaint \in new.taints <=> UpgradeTaint \in old.taints
           /\ new.ready \in {old.ready, old.version, NoVersion}
  BY <1>3, AbsentIsNoObject DEF Fits, Later, Harmless
<1> QED
  BY <1>1, <1>2, <1>3 DEF Touched

\* Steps of KMM, of the nodes and of the other taint writers.
LEMMA StaleTouched ==
  ASSUME StaleInv, Watched' \subseteq Watched \cup {Api'},
         NEW n \in Node, KMMStep(n) \/ EnvironmentStep(n)
  PROVE  Stale'
<1>1. UNCHANGED <<driverVersion, pc, devConfig, targeted, upgradeNode>>
  BY OthersTouch DEF StaleInv, operator
<1>2. UNCHANGED targeted /\ (pc' # "idle" => devConfig' = driverVersion)
  BY <1>1 DEF StaleInv, OneVersionAsked
<1>3. PICK object : Touched(Api[n], object) /\ Api' = [Api EXCEPT ![n] = object]
  BY OthersTouch DEF StaleInv
<1>4. Fits(Api[n], object)
  BY <1>3, TouchedFits DEF StaleInv, SwapOnlyDrained, UnlabelledIsUnloaded, Present
<1> QED
  BY <1>1, <1>2, <1>3, <1>4, StaleWritten

\* StaleInv is inductive while nobody edits driverVersion: one step per action of Next.
LEMMA StaleStep ==
  ASSUME "change" \notin Faults, StaleInv, [Next]_vars
  PROVE  StaleInv'
<1>a. TypeOK /\ (pc # "idle" => devConfig = driverVersion)
  BY DEF StaleInv, OneVersionAsked
<1>b. Watched' \subseteq Watched \cup {Api'}
  BY <1>a, WatchMoves
<1>1. TypeOK'
  BY <1>a, TypeStep
<1>2. Stale'
  <2>1. CASE Reconcile
    BY <1>b, <2>1, StaleUnmoved DEF Reconcile, Api
  <2>2. CASE handleKMMModule
    BY <1>a, <1>b, <2>2, StaleUnmoved DEF handleKMMModule, Api
  <2>3. CASE NoRollingUpgrade
    BY <1>a, <1>b, <2>3, StaleUnmoved DEF NoRollingUpgrade, Api
  <2>4. CASE GetTargetedNodes
    BY <2>4, StaleListed
  <2>5. CASE UncordonUpgradedNode
    BY <1>b, <2>5, StaleUncordoned
  <2>6. CASE CordonNodeForUpgrade
    BY <1>b, <2>6, StaleCordoned
  <2>7. CASE KickoffUpgrade
    BY <1>b, <2>7, StaleKickedOff
  <2>8. CASE ReturnNil \/ PatchNotFound \/ ReturnError
    BY <1>b, <2>8, StaleUnmoved DEF ReturnNil, PatchNotFound, ReturnError, Return, Api
  <2>9. CASE Crash
    <3>1. Api' = Api
      BY <2>9 DEF Crash, Api
    <3> QED
      BY <1>b, <2>9, <3>1, StaleUnmoved DEF Crash, Return
  <2>10. CASE FindDeviceConfigForNodeChange \/ DroppedEvent
    BY <1>a, <1>b, <2>10, WatchKeepsApi, StaleUnmoved
       DEF FindDeviceConfigForNodeChange, DroppedEvent, operator
  <2>11. CASE Resync
    BY <1>a, <1>b, <2>11, StaleUnmoved DEF Resync, operator, Api
  <2>12. CASE ChangeVersion
    BY <2>12 DEF ChangeVersion, Disturb
  <2>13. ASSUME NEW n \in Node, KMMStep(n) \/ EnvironmentStep(n) PROVE Stale'
    BY <1>b, <2>13, StaleTouched
  <2>14. CASE UNCHANGED vars
    BY <1>a, <1>b, <2>14, StaleUnmoved DEF vars, operator, Api
  <2> QED
    BY <2>1, <2>2, <2>3, <2>4, <2>5, <2>6, <2>7, <2>8, <2>9, <2>10, <2>11, <2>12, <2>13, <2>14
       DEF Next, ReconcileStep
<1> QED
  BY <1>1, <1>2 DEF StaleInv, Stale

\* At the start the watch has one state, and Reconcile has no list.
LEMMA StaleInit == Init => StaleInv
<1> SUFFICES ASSUME Init PROVE StaleInv
  OBVIOUS
<1>1. TypeOK /\ SwapOnlyDrained /\ UnlabelledIsUnloaded
  BY DrainInit DEF DrainInv
<1>2. Watched = {Api}
  BY DEF Init, Watched, Api
<1>3. WatchInOrder
  BY <1>2, LaterIsReflexive DEF WatchInOrder
<1>4. OneVersionAsked /\ ListInOrder /\ PickedIsDrained
  BY DEF Init, OneVersionAsked, ListInOrder, PickedIsDrained, Listed, NothingListed
<1> QED
  BY <1>1, <1>3, <1>4 DEF StaleInv

\* The invariant: with one version asked for, a list that is any number of writes old
\* tells the nodes that still wait for the upgrade from those that had it.
THEOREM OldListsTellNodesApart ==
  ASSUME "change" \notin Faults
  PROVE  Spec => []StaleInv
<1>1. Init => StaleInv
  BY StaleInit
<1>2. StaleInv /\ [Next]_vars => StaleInv'
  BY StaleStep
<1> QED
  BY <1>1, <1>2, PTL DEF Spec

\* However old the lists are, and whatever else goes wrong (errors, crashes, reboots,
\* nodes that come and go, other taint writers, lost events), CordonNodeForUpgrade,
\* KickoffUpgrade and UncordonUpgradedNode swap no driver under the workloads of a node
\* that is not drained, as long as the user does not edit driverVersion meanwhile.
THEOREM StaleListsSwapDrained ==
  ASSUME "change" \notin Faults
  PROVE  Spec => []SwapOnlyDrained
<1>1. StaleInv => SwapOnlyDrained
  BY DEF StaleInv
<1> QED
  BY <1>1, OldListsTellNodesApart, PTL

-----------------------------------------------------------------------------
(* Nodes that were upgraded *)

Upgraded(object) ==
  object # Absent /\ object.version = driverVersion /\ object.ready = driverVersion

\* Without reboots, and with nodes that stay, a node that was upgraded is upgraded.
UpgradedStays ==
  /\ \A nodes \in Watched, n \in Node : Upgraded(nodes[n]) => Upgraded(Api[n])
  /\ \A n \in Node : Upgraded(targeted[n]) => Upgraded(Api[n])

\* A step that takes no upgraded node's driver or label keeps what older states say of it.
LEMMA UpgradedKept ==
  ASSUME UpgradedStays, Watched' \subseteq Watched \cup {Api'}, UNCHANGED driverVersion,
         targeted' \in {targeted, NothingListed},
         \A n \in Node : Upgraded(Api[n]) => Upgraded(Api'[n])
  PROVE  UpgradedStays'
<1>1. \A object : Upgraded(object)' <=> Upgraded(object)
  BY DEF Upgraded
<1>2. \A nodes \in Watched, n \in Node : Upgraded(nodes[n]) => Upgraded(Api'[n])
  BY DEF UpgradedStays
<1>3. \A n \in Node : Upgraded(targeted'[n]) => Upgraded(Api'[n])
  BY DEF UpgradedStays, NothingListed, Upgraded
<1> QED
  BY <1>1, <1>2, <1>3 DEF UpgradedStays

\* The patches of the taints write neither label, and KickoffUpgrade none but
\* driverVersion.
LEMMA UpgradedPatched ==
  ASSUME StaleInv, UncordonUpgradedNode \/ CordonNodeForUpgrade \/ KickoffUpgrade
  PROVE  \A n \in Node : Upgraded(Api[n]) => Upgraded(Api'[n])
<1>a. Api \in [Node -> NodeOrAbsent] /\ devConfig = driverVersion
  BY ApiType DEF StaleInv, OneVersionAsked, UncordonUpgradedNode, CordonNodeForUpgrade, KickoffUpgrade
<1>1. ASSUME NEW m \in Node, m \in Present, NEW taints, Api' = [Api EXCEPT ![m].taints = taints]
      PROVE  \A n \in Node : Upgraded(Api[n]) => Upgraded(Api'[n])
  <2>1. /\ \A n \in Node \ {m} : Api'[n] = Api[n]
        /\ Api'[m] # Absent
        /\ Api'[m].version = Api[m].version /\ Api'[m].ready = Api[m].ready
    BY <1>a, <1>1 DEF Present, NodeOrAbsent, NodeObject, Absent
  <2> QED
    BY <2>1 DEF Upgraded
<1>2. CASE /\ upgradeNode # NoNode /\ upgradeNode \in Present
           /\ Api' = [Api EXCEPT ![upgradeNode].version = devConfig]
  <2>1. /\ \A n \in Node \ {upgradeNode} : Api'[n] = Api[n]
        /\ Api'[upgradeNode] # Absent
        /\ Api'[upgradeNode].version = driverVersion
        /\ Api'[upgradeNode].ready = Api[upgradeNode].ready
    BY <1>a, <1>2 DEF Present, NodeOrAbsent, NodeObject, Absent
  <2> QED
    BY <2>1 DEF Upgraded
<1>3. CASE Api' = Api
  BY <1>3
<1>4. CASE UncordonUpgradedNode
  BY <1>1, <1>3, <1>4, UncordonEffect DEF StaleInv
<1>5. CASE CordonNodeForUpgrade
  BY <1>1, <1>3, <1>5, CordonEffect DEF StaleInv, Present
<1>6. CASE KickoffUpgrade
  BY <1>2, <1>3, <1>6, KickoffEffect DEF StaleInv
<1> QED
  BY <1>4, <1>5, <1>6

\* Nothing takes the driver or the label of an upgraded node: KMM keeps the driver that
\* the label asks for.
LEMMA UpgradedMoves ==
  ASSUME {"change", "reboot", "churn"} \cap Faults = {}, StaleInv, [Next]_vars
  PROVE  \A n \in Node : Upgraded(Api[n]) => Upgraded(Api'[n])
<1>a. TypeOK
  BY DEF StaleInv
<1>1. CASE UncordonUpgradedNode \/ CordonNodeForUpgrade \/ KickoffUpgrade
  BY <1>1, UpgradedPatched
<1>2. ASSUME NEW m \in Node, KMMStep(m) \/ EnvironmentStep(m)
      PROVE  \A n \in Node : Upgraded(Api[n]) => Upgraded(Api'[n])
  <2>1. PICK object \in NodeOrAbsent : /\ Touched(Api[m], object) /\ Settled(Api[m], object)
                                       /\ object # Absent
                                       /\ Api' = [Api EXCEPT ![m] = object]
    BY <1>a, <1>2, OthersTouch
  <2>2. Api'[m] = object /\ \A n \in Node \ {m} : Api'[n] = Api[n]
    BY <1>a, <2>1, ApiType
  <2> QED
    BY <2>1, <2>2 DEF Touched, Settled, Upgraded
<1>3. CASE Crash \/ UNCHANGED stream
  BY <1>3 DEF Crash, Api
<1>4. CASE FindDeviceConfigForNodeChange \/ DroppedEvent
  BY <1>a, <1>4, WatchKeepsApi DEF FindDeviceConfigForNodeChange, DroppedEvent
<1> QED
  BY <1>1, <1>2, <1>3, <1>4
     DEF Next, ReconcileStep, Reconcile, handleKMMModule, NoRollingUpgrade, GetTargetedNodes,
         ReturnNil, PatchNotFound, ReturnError, Resync, ChangeVersion, vars

\* UpgradedStays is inductive with StaleInv.
LEMMA UpgradedStep ==
  ASSUME {"change", "reboot", "churn"} \cap Faults = {}, StaleInv, UpgradedStays, [Next]_vars
  PROVE  UpgradedStays'
<1>1. Watched' \subseteq Watched \cup {Api'}
  BY WatchMoves DEF StaleInv
<1>2. \A n \in Node : Upgraded(Api[n]) => Upgraded(Api'[n])
  BY UpgradedMoves
<1>3. UNCHANGED driverVersion
  BY OthersTouch
     DEF StaleInv, Next, ReconcileStep, Reconcile, handleKMMModule, NoRollingUpgrade, GetTargetedNodes,
         UncordonUpgradedNode, CordonNodeForUpgrade, KickoffUpgrade, ReturnNil, PatchNotFound,
         ReturnError, Crash, FindDeviceConfigForNodeChange, DroppedEvent, Resync, ChangeVersion,
         Disturb, vars
<1>4. CASE GetTargetedNodes
  <2>1. Api' = Api /\ Watched' = Watched
    BY <1>4 DEF GetTargetedNodes, Api, Watched
  <2>2. \A object : Upgraded(object)' <=> Upgraded(object)
    BY <1>3 DEF Upgraded
  <2>3. \A n \in Node : Upgraded(targeted'[n]) => Upgraded(Cache[n])
    BY <1>4 DEF GetTargetedNodes, Upgraded
  <2> QED
    BY <2>1, <2>2, <2>3, WatchEnds DEF UpgradedStays, StaleInv
<1>5. CASE ~GetTargetedNodes
  <2>1. targeted' \in {targeted, NothingListed}
    BY <1>5, OthersTouch
       DEF StaleInv, Next, ReconcileStep, Reconcile, handleKMMModule, NoRollingUpgrade,
           UncordonUpgradedNode, CordonNodeForUpgrade, KickoffUpgrade, ReturnNil, PatchNotFound,
           ReturnError, Crash, Return, FindDeviceConfigForNodeChange, DroppedEvent, Resync,
           ChangeVersion, operator, vars
  <2> QED
    BY <1>1, <1>2, <1>3, <2>1, UpgradedKept
<1> QED
  BY <1>4, <1>5

\* Workloads come back to a node only when it runs the driver its label asks for, however
\* old the list is that UncordonUpgradedNode found it in, as long as drivers are lost to no
\* reboot, nodes are not replaced under their names and driverVersion is not edited.
THEOREM StaleListsReturnReady ==
  ASSUME {"change", "reboot", "churn"} \cap Faults = {}
  PROVE  Spec => UncordonOnlyWhenReady
<1> DEFINE Step == \A n \in Drained : Api'[n] # Absent /\ UpgradeTaint \notin Api'[n].taints
                                        => Api[n].ready = Api[n].version
<1>1. Init => StaleInv /\ UpgradedStays
  <2> SUFFICES ASSUME Init PROVE StaleInv /\ UpgradedStays
    OBVIOUS
  <2>1. Watched = {Api}
    BY DEF Init, Watched, Api
  <2> QED
    BY <2>1, StaleInit DEF Init, UpgradedStays, Upgraded, NothingListed
<1>2. StaleInv /\ UpgradedStays /\ [Next]_vars => (StaleInv /\ UpgradedStays)'
  BY StaleStep, UpgradedStep
<1>3. StaleInv /\ UpgradedStays /\ [Next]_vars => [Step]_vars
  <2> SUFFICES ASSUME StaleInv, UpgradedStays, Next, NEW n \in Drained,
                      Api'[n] # Absent, UpgradeTaint \notin Api'[n].taints
               PROVE  Api[n].ready = Api[n].version
    OBVIOUS
  <2>1. /\ pc = "uncordon" /\ n \in Known
        /\ targeted[n].version = devConfig /\ targeted[n].ready = devConfig
    BY UncordonRemoves DEF StaleInv
  <2>2. Upgraded(targeted[n]) /\ n \in Node
    BY <2>1 DEF StaleInv, OneVersionAsked, Known, Present, Upgraded
  <2> QED
    BY <2>2 DEF UpgradedStays, Upgraded
<1> QED
  BY <1>1, <1>2, <1>3, PTL DEF Spec, UncordonOnlyWhenReady

=============================================================================
