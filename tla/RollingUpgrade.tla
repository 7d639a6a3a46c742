--------------------------- MODULE RollingUpgrade ---------------------------
(***************************************************************************)
(* The rolling upgrade of one DeviceConfig: handleModuleVersionUpgrade and *)
(* the part of Reconcile around it, run by a controller-runtime worker,    *)
(* against a cluster that changes underneath.                              *)
(*                                                                         *)
(* The reconciler lists Node objects from an informer cache and writes     *)
(* them with merge patches that carry no resourceVersion.  stream is the   *)
(* watch between the two: its first element is what the cache holds, its   *)
(* last what the API server holds, and those in between are writes the     *)
(* informer has yet to see, in order.                                      *)
(*                                                                         *)
(* KMM, the users, the other taint writers and the nodes themselves are    *)
(* external; what they do is taken from how the operator uses them.        *)
(***************************************************************************)
EXTENDS NodeUpgrade, Naturals, Sequences, FiniteSets

CONSTANTS Selector,         \* nodes that spec.selector matches, or nilSelector
          nilSelector,      \* spec.selector is omitted
          PciNode,          \* nodes with feature.node.kubernetes.io/pci-1d0f.present
          MayEmpty,         \* may the user clear spec.driverVersion?
          FreshReads,       \* does GetTargetedNodes see every write made so far?
          MaxLag,           \* bound on the writes the cache is behind
          Faults,           \* which disturbances of FaultKind happen
          MaxDisturbances   \* bound on how many

FaultKind == {"error", "crash", "reboot", "change", "churn", "taint", "dropped"}

ASSUME SelectorAssumption == /\ Selector # nilSelector => Selector \subseteq Node
                             /\ PciNode \subseteq Node
ASSUME ScopeAssumption == /\ MayEmpty \in BOOLEAN
                          /\ FreshReads \in BOOLEAN
                          /\ MaxLag \in Nat \ {0}
                          /\ Faults \subseteq FaultKind
                          /\ MaxDisturbances \in Nat
ASSUME NodeAssumption == NoNode \notin Node /\ IsFiniteSet(Node)

VARIABLES stream,         \* Seq([Node -> NodeOrAbsent]): cache first, API server last
          queued,         \* is the DeviceConfig's key in the workqueue?
          pc,             \* where Reconcile is
          driverVersion,  \* spec.driverVersion in the DeviceConfig cache
          devConfig,      \* spec.driverVersion that this Reconcile works on
          module,         \* spec.moduleLoader.container.version of the KMM Module
          targeted,       \* the list GetTargetedNodes returned
          upgradeNode,    \* the node GetNodeForUpgrade returned
          disturbances    \* faults so far

operator == <<pc, devConfig, targeted, upgradeNode>>
vars == <<stream, queued, operator, driverVersion, module, disturbances>>

PC == {"idle", "module", "list", "uncordon", "cordon", "kickoff", "rest"}

Cache == stream[1]
Api == stream[Len(stream)]

\* client.MatchingLabels(nil) selects every node.
Targeted == IF Selector = nilSelector THEN Node ELSE Selector

\* The Module's selector has a default.
getNodeSelector == IF Selector = nilSelector THEN PciNode ELSE Selector

NothingListed == [n \in Node |-> Absent]

TypeOK ==
  /\ stream \in Seq([Node -> NodeOrAbsent])
  /\ Len(stream) \in 1 .. MaxLag + 1
  /\ queued \in BOOLEAN
  /\ pc \in PC
  /\ driverVersion \in Version \cup {NoVersion}
  /\ devConfig \in Version \cup {NoVersion}
  /\ module \in Version \cup {NoVersion}
  /\ targeted \in [Node -> NodeOrAbsent]
  /\ upgradeNode \in Node \cup {NoNode}
  /\ disturbances \in 0 .. MaxDisturbances

\* The operator has just started (queued) on a cluster where a rollout is
\* complete, has not begun, or is somewhere in between with no node under way.
Init ==
  /\ \E nodes \in [Node -> {Absent, FreshNode}
                             \cup [version : Version, ready : Version, taints : {{}}]] :
       /\ \A n \in Listed(nodes) : nodes[n].version = nodes[n].ready
       /\ \A n \in Listed(nodes) \ (Targeted \cap getNodeSelector) : nodes[n] = FreshNode
       /\ stream = <<nodes>>
  /\ queued = TRUE
  /\ pc = "idle"
  /\ driverVersion \in Version
  /\ devConfig = NoVersion
  /\ module \in Version \cup {NoVersion}
  /\ targeted = NothingListed
  /\ upgradeNode = NoNode
  /\ disturbances = 0

-----------------------------------------------------------------------------
\* A write to Node object n: the API server takes it and the watch carries it,
\* unless it changes nothing.
Write(n, object) ==
  /\ Len(stream) <= MaxLag
  /\ stream' = IF object = Api[n] THEN stream
               ELSE Append(stream, [Api EXCEPT ![n] = object])

\* A patch of an object that is gone fails.
Patch(n, object) == Api[n] # Absent /\ Write(n, object)

Disturb(kind) ==
  /\ kind \in Faults
  /\ disturbances < MaxDisturbances
  /\ disturbances' = disturbances + 1

\* Reconcile is over: what it held in memory is gone.
Return ==
  /\ pc' = "idle"
  /\ devConfig' = NoVersion
  /\ targeted' = NothingListed
  /\ upgradeNode' = NoNode

\* A worker takes the key off the queue and reads the DeviceConfig.
Reconcile ==
  /\ pc = "idle" /\ queued
  /\ queued' = FALSE
  /\ pc' = "module"
  /\ devConfig' = driverVersion
  /\ UNCHANGED <<stream, driverVersion, module, targeted, upgradeNode, disturbances>>

\* CreateOrPatch of the Module, ModuleLoader.Container.Version included.
handleKMMModule ==
  /\ pc = "module"
  /\ pc' = "list"
  /\ module' = devConfig
  /\ UNCHANGED <<stream, queued, devConfig, driverVersion, targeted, upgradeNode, disturbances>>

\* handleModuleVersionUpgrade returns early when no version is asked for.
NoRollingUpgrade ==
  /\ pc = "list" /\ devConfig = NoVersion
  /\ pc' = "rest"
  /\ UNCHANGED <<stream, queued, devConfig, driverVersion, module, targeted, upgradeNode, disturbances>>

GetTargetedNodes ==
  /\ pc = "list" /\ devConfig # NoVersion
  /\ FreshReads => Len(stream) = 1
  /\ pc' = "uncordon"
  /\ targeted' = [n \in Node |-> IF n \in Targeted THEN Cache[n] ELSE Absent]
  /\ UNCHANGED <<stream, queued, devConfig, driverVersion, module, upgradeNode, disturbances>>

\* The patch replaces the taints of the API object by those listed, less one.
UncordonUpgradedNode ==
  /\ pc = "uncordon"
  /\ pc' = "cordon"
  /\ \E n \in GetUpgradedNode(targeted, devConfig) :
       \/ /\ n = NoNode
          /\ UNCHANGED stream
       \/ /\ n # NoNode
          /\ Patch(n, IF uncordonedTaints(targeted[n]) = targeted[n].taints THEN Api[n]
                      ELSE [Api[n] EXCEPT !.taints = uncordonedTaints(targeted[n])])
  /\ UNCHANGED <<queued, devConfig, driverVersion, module, targeted, upgradeNode, disturbances>>

CordonNodeForUpgrade ==
  /\ pc = "cordon"
  /\ pc' = "kickoff"
  /\ \E n \in GetNodeForUpgrade(targeted, devConfig) :
       /\ upgradeNode' = n
       /\ \/ /\ n # NoNode => ~needsCordon(targeted[n])
             /\ UNCHANGED stream
          \/ /\ n # NoNode /\ needsCordon(targeted[n])
             /\ Patch(n, [Api[n] EXCEPT !.taints = cordonedTaints(targeted[n])])
  /\ UNCHANGED <<queued, devConfig, driverVersion, module, targeted, disturbances>>

KickoffUpgrade ==
  /\ pc = "kickoff"
  /\ pc' = "rest"
  /\ \/ /\ upgradeNode = NoNode
        /\ UNCHANGED stream
     \/ /\ upgradeNode # NoNode
        /\ Patch(upgradeNode, [Api[upgradeNode] EXCEPT !.version = devConfig])
  /\ UNCHANGED <<queued, devConfig, driverVersion, module, targeted, upgradeNode, disturbances>>

\* handleCustomScheduler and handleNodeMetrics, then Reconcile returns nil.
ReturnNil ==
  /\ pc = "rest"
  /\ Return
  /\ UNCHANGED <<stream, queued, driverVersion, module, disturbances>>

\* A call fails, or its answer is lost after it took effect: Reconcile returns
\* the error and the key is queued again.
ReturnError ==
  /\ pc # "idle"
  /\ Disturb("error")
  /\ Return
  /\ queued' = TRUE
  /\ UNCHANGED <<stream, driverVersion, module>>

\* The patch finds no such node.
PatchNotFound ==
  /\ \/ pc = "uncordon" /\ \E n \in GetUpgradedNode(targeted, devConfig) \cap Node :
                             Api[n] = Absent
     \/ pc = "cordon" /\ \E n \in GetNodeForUpgrade(targeted, devConfig) \cap Node :
                             needsCordon(targeted[n]) /\ Api[n] = Absent
     \/ pc = "kickoff" /\ upgradeNode # NoNode /\ Api[upgradeNode] = Absent
  /\ Return
  /\ queued' = TRUE
  /\ UNCHANGED <<stream, driverVersion, module, disturbances>>

\* The process dies and another one takes over: its cache starts from a list of
\* the API server's objects, and every object in it is a create event.
Crash ==
  /\ Disturb("crash")
  /\ Return
  /\ queued' = TRUE
  /\ stream' = <<Api>>
  /\ UNCHANGED <<driverVersion, module>>

-----------------------------------------------------------------------------
\* A mistake to try in GetNodePredicate's place: the ready label is forgotten.
versionLabelPredicate(old, new) ==
  \/ (old = Absent) # (new = Absent)
  \/ old # Absent /\ new # Absent /\ old.version # new.version

\* GetNodePredicate: creations, deletions and label changes pass, an update of
\* the taints alone does not.
GetNodePredicate(old, new) ==
  \/ (old = Absent) # (new = Absent)
  \/ old # Absent /\ new # Absent /\ <<old.version, old.ready>> # <<new.version, new.ready>>

\* The informer applies the next watch event; FindDeviceConfigForNodeChange
\* enqueues the DeviceConfig when its selector matches the node.
FindDeviceConfigForNodeChange ==
  /\ Len(stream) > 1
  /\ stream' = Tail(stream)
  /\ queued' = (queued \/ \E n \in Targeted : GetNodePredicate(Cache[n], stream[2][n]))
  /\ UNCHANGED <<operator, driverVersion, module, disturbances>>

\* Its List of DeviceConfigs fails: the error is logged and the event is gone.
DroppedEvent ==
  /\ Len(stream) > 1
  /\ Disturb("dropped")
  /\ stream' = Tail(stream)
  /\ UNCHANGED <<operator, queued, driverVersion, module>>

\* The periodic resync, or an event of an owned object, queues the key.
Resync ==
  /\ ~queued
  /\ queued' = TRUE
  /\ UNCHANGED <<stream, operator, driverVersion, module, disturbances>>

\* KMM unloads a driver that is not the version the label asks for.  A Module
\* without a version is none of the rolling upgrade's, and not looked at here.
KMMUnload(n) ==
  /\ module # NoVersion
  /\ Api[n] # Absent
  /\ Api[n].ready \notin {NoVersion, Api[n].version}
  /\ Write(n, [Api[n] EXCEPT !.ready = NoVersion])
  /\ UNCHANGED <<queued, operator, driverVersion, module, disturbances>>

\* KMM loads the Module's version on a node that is selected and labelled for it.
KMMLoad(n) ==
  /\ n \in getNodeSelector
  /\ module # NoVersion
  /\ Api[n] # Absent
  /\ Api[n].version = module /\ Api[n].ready = NoVersion
  /\ Write(n, [Api[n] EXCEPT !.ready = module])
  /\ UNCHANGED <<queued, operator, driverVersion, module, disturbances>>

\* The user edits spec.driverVersion and the DeviceConfig cache sees it.
ChangeVersion ==
  /\ Disturb("change")
  /\ \E v \in Version \cup (IF MayEmpty THEN {NoVersion} ELSE {}) :
       /\ v # driverVersion
       /\ driverVersion' = v
  /\ queued' = TRUE
  /\ UNCHANGED <<stream, operator, module>>

\* Another writer adds or removes a taint of its own.
ChangeForeignTaint(n) ==
  /\ Disturb("taint")
  /\ Api[n] # Absent
  /\ \E t \in ForeignTaint :
       Write(n, [Api[n] EXCEPT !.taints = IF t \in @ THEN @ \ {t} ELSE @ \cup {t}])
  /\ UNCHANGED <<queued, operator, driverVersion, module>>

NodeJoin(n) ==
  /\ Disturb("churn")
  /\ Api[n] = Absent
  /\ Write(n, FreshNode)
  /\ UNCHANGED <<queued, operator, driverVersion, module>>

NodeLeave(n) ==
  /\ Disturb("churn")
  /\ Api[n] # Absent
  /\ Write(n, Absent)
  /\ UNCHANGED <<queued, operator, driverVersion, module>>

\* A reboot takes the loaded driver away and KMM takes the ready label away.
NodeReboot(n) ==
  /\ Disturb("reboot")
  /\ Api[n] # Absent /\ Api[n].ready # NoVersion
  /\ Write(n, [Api[n] EXCEPT !.ready = NoVersion])
  /\ UNCHANGED <<queued, operator, driverVersion, module>>

-----------------------------------------------------------------------------
ReconcileStep ==
  \/ Reconcile \/ handleKMMModule \/ NoRollingUpgrade \/ GetTargetedNodes
  \/ UncordonUpgradedNode \/ CordonNodeForUpgrade \/ KickoffUpgrade
  \/ ReturnNil \/ PatchNotFound

KMMStep(n) == KMMUnload(n) \/ KMMLoad(n)

EnvironmentStep(n) ==
  ChangeForeignTaint(n) \/ NodeJoin(n) \/ NodeLeave(n) \/ NodeReboot(n)

Next ==
  \/ ReconcileStep \/ ReturnError \/ Crash
  \/ FindDeviceConfigForNodeChange \/ DroppedEvent \/ Resync
  \/ ChangeVersion
  \/ \E n \in Node : KMMStep(n) \/ EnvironmentStep(n)

Spec == Init /\ [][Next]_vars

\* The worker runs, the watch delivers and KMM acts.
EventFairness == /\ WF_vars(ReconcileStep)
                 /\ WF_vars(FindDeviceConfigForNodeChange)
                 /\ \A n \in Node : WF_vars(KMMStep(n))

\* The same without counting on the periodic resync, and with it.
EventSpec == Spec /\ EventFairness
FairSpec == Spec /\ EventFairness /\ WF_vars(Resync)

-----------------------------------------------------------------------------
(* Properties *)

Present == {n \in Node : Api[n] # Absent}
Drained == {n \in Present : UpgradeTaint \in Api[n].taints}
InUpgrade(v) == {n \in Present : Api[n].version = v /\ Api[n].ready # v}

\* A driver is about to be replaced, and its workloads with it, only on a node
\* that the upgrade taint has drained: CordonNodeForUpgrade precedes
\* KickoffUpgrade, and UncordonUpgradedNode waits for the ready label.
SwapOnlyDrained ==
  \A n \in Present : Api[n].ready \notin {NoVersion, Api[n].version}
                      => UpgradeTaint \in Api[n].taints

\* The upgrade is rolling: GetNodeForUpgrade returns nil while one node is in
\* upgrade, so no two nodes are without their driver for the same version.
OneNodePerVersion ==
  \A v \in Version : \A m, n \in InUpgrade(v) : m = n

\* handleModuleVersionUpgrade uncordons the node that is done before it cordons
\* the next: it takes a fault to have more than one node drained, and one fault
\* drains no more than one node more.  That is without a KeyTaint, which makes
\* GetUpgradedNode return the same node again and again.
ExtraDrainsNeedFaults == Cardinality(Drained) <= 1 + disturbances

\* UncordonUpgradedNode gives a node back to the workloads only when it runs the
\* driver its label asks for.
UncordonOnlyWhenReady ==
  [][\A n \in Drained : Api'[n] # Absent /\ UpgradeTaint \notin Api'[n].taints
                          => Api[n].ready = Api[n].version]_vars

\* Only UncordonUpgradedNode and CordonNodeForUpgrade write taints, and they are
\* there for one of them: what another writer put on a node or took from it stays
\* that way whatever the operator patches.
ForeignTaintsKept ==
  [][UncordonUpgradedNode \/ CordonNodeForUpgrade =>
       \A n \in Present : Api'[n].taints \ {UpgradeTaint} = Api[n].taints \ {UpgradeTaint}]_vars

\* The fleet as the user wants it: every selected node runs driverVersion, if there is
\* one, and takes workloads.
Converged ==
  driverVersion # NoVersion =>
    \A n \in Present \cap Targeted : /\ Api[n].version = driverVersion
                                      /\ Api[n].ready = driverVersion
                                      /\ UpgradeTaint \notin Api[n].taints

\* Whatever happened before, once it stops happening the rollout completes and
\* no node stays drained.
RolloutConverges == <>[]Converged

\* With nothing going wrong the watch events alone complete it: no update that
\* GetNodePredicate drops, and none that meets a Reconcile at work, is one it needed.
EventsSuffice == [](disturbances = 0) => RolloutConverges

\* The rollout completes on the nodes that the Module selects, whether the user
\* gives a selector or leaves GetTargetedNodes and getNodeSelector to their defaults.
SelectedNodesConverge ==
  <>[](\A n \in Present \cap getNodeSelector : /\ Api[n].ready = driverVersion
                                              /\ UpgradeTaint \notin Api[n].taints)

\* What NodeRollout sees of a Node object.
asRolloutNode(object) ==
  IF object = Absent THEN [gone |-> TRUE]
  ELSE [target  |-> object.version,
        driver  |-> object.ready,
        service |-> IF UpgradeTaint \in object.taints THEN "drained" ELSE "open"]

rolloutNode == [n \in Node |-> asRolloutNode(Api[n])]

Rollout == INSTANCE NodeRollout WITH node <- rolloutNode

\* Whatever Reconcile remembers, forgets, or tries again, the nodes are drained,
\* sent to a version, reloaded and given back as NodeRollout allows, one of them at
\* a time: of lists that are fresh, and with no reboot.
ImplementsRollout == Rollout!Spec

-----------------------------------------------------------------------------
(* The invariants the proofs rest on.  They hold of fresh lists: between the *)
(* list and the last patch the API server moves on, and these say how far.   *)

\* The nodes the list and the API server both have, while the list is in use.
Known == IF pc \in {"uncordon", "cordon", "kickoff"}
         THEN {n \in Present : targeted[n] # Absent} ELSE {}

\* A driver is loaded only on a node that was labelled for it.
UnlabelledIsUnloaded ==
  \A n \in Present : Api[n].version = NoVersion => Api[n].ready = NoVersion

\* Only targeted nodes are labelled.
LabelledAreTargeted ==
  \A n \in Present : Api[n].version # NoVersion => n \in Targeted

\* So is what the list has.
ListedAreTargeted == \A n \in Node : targeted[n] # Absent => n \in Targeted

\* Nobody else writes the version label; a node can only have been replaced.
SnapshotVersion ==
  \A n \in Known : Api[n].version \in {targeted[n].version, NoVersion}

\* A driver that was the right one is still that one, or gone.
SnapshotReady ==
  \A n \in Known : targeted[n].ready = targeted[n].version
                    => Api[n].ready \in {NoVersion, Api[n].version}

\* A node that has yet to be upgraded stays drained if it was.
SnapshotTaint ==
  \A n \in Known : targeted[n].version # devConfig /\ UpgradeTaint \in targeted[n].taints
                    => UpgradeTaint \in Api[n].taints \/ Api[n].version = NoVersion

\* What Reconcile is doing makes sense of what it remembers.
Progress ==
  /\ pc \in {"uncordon", "cordon", "kickoff"} => devConfig \in Version
  /\ pc = "kickoff" /\ upgradeNode # NoNode =>
       /\ upgradeNode \in Targeted
       /\ upgradeNode \in Present =>
            \/ UpgradeTaint \in Api[upgradeNode].taints
            \/ Api[upgradeNode].version = NoVersion

DrainInv == /\ TypeOK
            /\ SwapOnlyDrained
            /\ UnlabelledIsUnloaded
            /\ LabelledAreTargeted
            /\ ListedAreTargeted
            /\ SnapshotVersion
            /\ SnapshotReady
            /\ SnapshotTaint
            /\ Progress

\* Without reboots: no node enters the upgrade behind Reconcile's back.
SnapshotInUpgrade ==
  /\ pc \in {"uncordon", "cordon"} =>
       \A n \in InUpgrade(devConfig) :
         targeted[n] # Absent /\ getNodeUpgradeState(targeted[n], devConfig) = "nodeInUpgrade"
  /\ pc = "kickoff" /\ upgradeNode # NoNode => InUpgrade(devConfig) = {}

\* Without reboots: a node that the list has as upgraded is still.
SnapshotUpgraded ==
  \A n \in Known : targeted[n].ready = targeted[n].version => Api[n].ready = Api[n].version

OneNodeInv == DrainInv /\ OneNodePerVersion /\ SnapshotInUpgrade /\ SnapshotUpgraded

One(condition) == IF condition THEN 1 ELSE 0

ListedDrained == {n \in Listed(targeted) : UpgradeTaint \in targeted[n].taints}

DrainedAreTargeted == Drained \subseteq Targeted

DrainedWereListed == pc = "uncordon" => Drained \subseteq ListedDrained

\* The drained node that is on its way to v, and the one that the list has.
OnItsWay(v) == \E n \in Drained : Api[n].version = v
ListedOnItsWay == \E n \in ListedDrained : targeted[n].version = devConfig

\* An edit of driverVersion that this Reconcile has not seen, so that the node it
\* upgrades will not count as the one on its way.
Overtaken == devConfig # driverVersion

\* Every drained node but the one on its way has cost a disturbance.
DrainsPaidFor ==
  /\ pc \in {"idle", "rest"} =>
       Cardinality(Drained) <= disturbances + One(OnItsWay(driverVersion))
  /\ pc \in {"module", "list", "uncordon", "cordon"} \/ (pc = "kickoff" /\ upgradeNode = NoNode) =>
       Cardinality(Drained) + One(Overtaken) <= disturbances + One(OnItsWay(devConfig))
  /\ pc = "kickoff" /\ upgradeNode # NoNode =>
       Cardinality(Drained) + One(Overtaken) <= disturbances + One(upgradeNode \in Drained)

\* The list has not lost count, and a node is picked only when none is on its way.
ListPaidFor ==
  /\ pc = "uncordon" =>
       Cardinality(ListedDrained) + One(Overtaken) <= disturbances + One(ListedOnItsWay)
  /\ pc = "cordon" /\ GetNodeForUpgrade(targeted, devConfig) # {NoNode} =>
       Cardinality(Drained) + One(Overtaken) <= disturbances

ExtraDrainsInv == DrainInv /\ DrainedAreTargeted /\ DrainedWereListed /\ DrainsPaidFor /\ ListPaidFor

-----------------------------------------------------------------------------
(* The invariants the proofs about stale lists rest on: one version is asked *)
(* for, and what the watch has yet to deliver is of the same upgrade.        *)

\* States of the API server that the informer has yet to get past.
Watched == {stream[i] : i \in 1 .. Len(stream)}

OneVersionAsked ==
  driverVersion \in Version /\ (pc # "idle" => devConfig = driverVersion)

\* A node that has no label yet, or is labelled for the version asked for and is rid of
\* the driver it had before.
Harmless(object) ==
  \/ object = Absent
  \/ object.version = NoVersion
  \/ object.version = driverVersion /\ object.ready \in {NoVersion, driverVersion}

\* From old to new, a node does not lose its upgrade taint before it is harmless,
\* and then it stays so.
Later(old, new) ==
  /\ Harmless(old) => Harmless(new)
  /\ ~Harmless(new) /\ UpgradeTaint \in old.taints => UpgradeTaint \in new.taints

\* However old a list is, the API server is later in that order.
WatchInOrder == \A nodes \in Watched, n \in Node : Later(nodes[n], Api[n])
ListInOrder == \A n \in Listed(targeted) : Later(targeted[n], Api[n])

PickedIsDrained ==
  pc = "kickoff" /\ upgradeNode \in Present =>
    Harmless(Api[upgradeNode]) \/ UpgradeTaint \in Api[upgradeNode].taints

\* CordonNodeForUpgrade drains nodes that still wait for the upgrade, and
\* UncordonUpgradedNode gives back nodes that had it: with one version asked for a list
\* of any age tells the two apart.
StaleInv == /\ TypeOK
            /\ SwapOnlyDrained
            /\ UnlabelledIsUnloaded
            /\ OneVersionAsked
            /\ WatchInOrder
            /\ ListInOrder
            /\ PickedIsDrained
=============================================================================
