# A TLA+ model of the AWS Neuron operator

The repository is a Kubernetes operator. For each `DeviceConfig` object it makes
the Kernel Module Management operator (KMM) load the Neuron driver on the
selected nodes, moves the nodes to a new driver version one after the other, and
runs what belongs to the driver: a device plugin or a DRA driver, a scheduler
with an extension, a metrics DaemonSet. This directory holds the TLA+ modules
that model it, the TLC configurations that check them, and proofs for TLAPS.

## The system

| part | state | operations | talks to |
|---|---|---|---|
| DeviceConfig controller, `internal/controllers/device_config_reconciler.go` | none of its own; the in-hand `DeviceConfig` of one `Reconcile` | `Reconcile`, `setFinalizer`, `handleBuildConfigMap`, `handleKMMModule`, `handleModuleVersionUpgrade`, `handleCustomScheduler`, `handleNodeMetrics`, `finalizeDeviceConfig` | all the others; reads through informer caches, writes to the API server |
| rolling upgrade, `internal/upgrade/upgrade.go` | labels and taints of Node objects | `GetTargetedNodes`, `GetUpgradedNode`, `UncordonUpgradedNode`, `GetNodeForUpgrade`, `CordonNodeForUpgrade`, `KickoffUpgrade`, `RemoveUpgradeLabels` | Node cache, API server; KMM reacts to the labels |
| event filter, `internal/filter/filter.go` | none | `GetNodePredicate`, `FindDeviceConfigForNodeChange` | Node events in, workqueue keys out |
| KMM Module, `internal/kmmmodule` | the Module object | `SetKMMModuleAsDesired`, `getNodeSelector` | KMM |
| build ConfigMap and CA bundle, `internal/configmap` | ConfigMaps | `SetBuildConfigMapAsDesired`, `CreateKubeletKubeRootCAConfigMap` | API server |
| custom scheduler, `internal/customscheduler` | two Deployments | `SetCustomSchedulerAsDesired`, `SetCustomSchedulerExtensionAsDesired` | API server |
| node metrics, `internal/nodemetrics` | a DaemonSet | `SetNodeMetricsAsDesired` | API server |
| API, `api/v1beta1` | the DeviceConfig object | CRD validation: DRA excludes the device plugin | users |
| start-up, `cmd`, `internal/config`, `internal/cmd`, `internal/client` | flags, configuration, the CA ConfigMap, the lease | build the manager, `CreateKubeletKubeRootCAConfigMap`, `mgr.Start`, `FatalError` | API server, kubelet |
| generated code, manifests, packaging, CI, docs | | | |

All state that outlives a `Reconcile` is in the API server. The controller is one
worker (controller-runtime never runs two for one key). It reads informer caches,
one for each kind, which follow the API server each at its own pace; it writes
merge patches without a `resourceVersion`, so the API server takes them however
old the read was. What makes it hard:

* the decisions of one `Reconcile` are all made on one list of nodes, while KMM,
  users, other writers of taints and the nodes go on;
* a patch may fail, or succeed with the answer lost; the process may die between
  any two calls; the next `Reconcile` starts over from labels and taints alone;
* the version asked for may change in the middle of a rollout;
* the next step is taken only if an event queues the key, and the predicate lets
  few events through (no taint changes);
* finalization is a conversation with KMM and the garbage collector, one object
  per `Reconcile`, carried on by the events of the deleted objects;
* a Node event is mapped to DeviceConfigs by what another informer has cached at
  some other time, and a DeviceConfig's selection changes by edits as well;
* DeviceConfigs may share nodes, always share the taint, and may be deleted,
  emptied or turned elsewhere while a node is drained for them;
* two processes of the operator overlap when it is replaced, and each writes the
  CA ConfigMap before it has the lease.

What makes each part correct:

* rolling upgrade: no driver is replaced under running workloads; one node at a
  time; a node comes back only with its driver; a fault costs at most one more
  drained node; other writers' taints are kept; the rollout ends;
* controller: nothing is created before the finalizer is set; finalization goes
  in order and leaves nothing behind; every deletion ends; the objects come to
  be what the DeviceConfig asks for;
* filter: no change of a selection goes unnoticed, and its events are enough for
  the other two to make progress;
* several DeviceConfigs: what one leaves behind the next one settles, they do not
  wedge each other, and if they never share a node, each deletion, edit or failure leaves
  at most one node drained;
* start-up: no leader without the CA ConfigMap, a restart brings it up to date,
  and somebody comes to lead.

## The modules

| module | what it models |
|---|---|
| `NodeUpgrade` | the decisions of `upgrade.go` as operators: state of a node, which node a list yields, which taints a patch writes |
| `RollingUpgrade` (extends `NodeUpgrade`) | `Reconcile` around `handleModuleVersionUpgrade`, Node cache and watch, KMM, users, nodes, faults; the properties and the invariants of the proofs |
| `NodeRollout` | the abstract specification: what a rolling upgrade promises, said of the nodes alone; `RollingUpgrade` implements it |
| `DeviceConfigController` | the life of a DeviceConfig: creation, edits, deletion, the owned objects, with an informer for each kind |
| `DeviceConfigLife` | the abstract specification: the life of a DeviceConfig, without informers, queue and `Reconcile`; `DeviceConfigController` implements it |
| `NodeFilter` | which DeviceConfigs a change of a Node wakes up: two informers, two handlers, the queue, one worker, selectors that change |
| `Fleet` (extends `NodeUpgrade`) | several DeviceConfigs on one set of nodes: shared nodes and taint, nodes that change selection, deletion and emptied versions in mid-upgrade |
| `StartUp` | `main` up to the lease: the CA ConfigMap, overlapping and failing starts, rotations |
| `MCRollingUpgrade`, `MCDeviceConfigController`, `MCNodeFilter`, `MCFleet`, `MCStartUp` | instances for TLC |
| `RollingUpgrade_proofs`, `StaleLists_proofs`, `NodeRollout_proofs`, `ExtraDrains_proofs`, `DeviceConfigController_proofs`, `NodeFilter_proofs`, `Fleet_proofs`, `StartUp_proofs` | the theorems |

How they divide the system. One `Reconcile` is too long to be followed call by
call for several DeviceConfigs, caches and faults at once, so each module takes
one question in full detail and the others coarsely: `RollingUpgrade` the calls on
nodes, `DeviceConfigController` the calls on all other objects (the node part is
one action), `NodeFilter` what comes before a `Reconcile`, `Fleet` what several of
them do to each other (a `Reconcile` is one action, or a prefix of its calls),
`StartUp` what comes before all of it. `RollingUpgrade` and `Fleet` share the
decisions in `NodeUpgrade`.

The modules each hold a few *plausible mistakes*, operators that nothing uses: put
in the place of the definition they imitate, they make a property fail, which is
how it is known that the property says something of that definition.
`PROJECT.json` pairs them.

### State and actions of RollingUpgrade

A Node object is `[version, ready, taints]`: the label
`kmm.node.kubernetes.io/version-module...` the operator writes, the version-ready
label KMM writes, the taints. `stream` is the Node watch: first element the
cache, last element the API server, between them the writes the informer has yet
to apply, in order; the informer of one kind keeps the order. `queued` is the
workqueue, which holds a key once. `pc` is the call `Reconcile` is at:

| pc | action | code |
|---|---|---|
| `idle` | `Reconcile` | a worker takes the key, reads the DeviceConfig |
| `module` | `handleKMMModule` | Module patched with the version |
| `list` | `NoRollingUpgrade`, `GetTargetedNodes` | early return without a version; the list |
| `uncordon` | `UncordonUpgradedNode` | pick and patch |
| `cordon` | `CordonNodeForUpgrade` | pick and patch |
| `kickoff` | `KickoffUpgrade` | patch the version label |
| `rest` | `ReturnNil` | scheduler and metrics, see the other module |

Picking and patching are one action: picking reads only the list in memory.
Every patch reads `targeted` (the list) and writes `Api`, field by field as the
merge patch does: the taints as a whole, one label. `ReturnError` is any call
that fails or whose answer is lost (the effect of the call before it is there);
`PatchNotFound` a patch of a node that is gone; `Crash` a restart at any point,
which also refreshes the cache and queues every object.

The list's order is that of the informer's map, so `GetUpgradedNode` and
`GetNodeForUpgrade` may return any node that qualifies.

`FreshReads` says what is assumed of the list: with TRUE, `GetTargetedNodes` waits
until the cache has everything written so far, which is what a cluster at rest
between two steps of a rollout looks like; with FALSE the cache may be `MaxLag`
writes behind. Even a fresh list is old by the time the patches are sent.

External, taken from how the operator uses them: KMM unloads a driver that is not
the version of the label, and loads the Module's version on a node it selects
whose label is that version; a reboot takes driver and ready label; users edit
`driverVersion`; other writers add and remove taints; nodes join, leave and come
back under the same name.

With `MayEmpty` the user may also clear `driverVersion`; the Module then has no
version and nothing is upgraded until there is one again.

### NodeRollout and how RollingUpgrade implements it

`NodeRollout` has one variable: for each node the version it is told to run, the
driver it runs, and whether it is open to workloads. There is no list, cache,
queue or `Reconcile`; any node may take a step at any time that it is ready for:
drain, be assigned a version (drained or new, and nobody else on the way to that
version), unload (drained only), load, be given back (with the right driver only),
join, leave. `asRolloutNode` in `RollingUpgrade` is the mapping: version label,
ready label, upgrade taint, read from the API server; `stream`'s older states and
everything `Reconcile` remembers are left out. So the refinement says that however
`Reconcile` is interrupted and started over, its patches are steps of that
specification. It needs fresh lists and no reboots, like `OneNodePerVersion`.

### State and actions of DeviceConfigController

`api` and `cache` map each kind to its object or to `Nothing`; `label` and
`cachedLabel` are the version labels; `unseen` names the informers that have
something to catch up with. `Lagging` names the informers that may ever be
behind. `pc` names the handler that runs next; each handler is one action with
its `CreateOrPatch`: create what the cache does not show (AlreadyExists if it is
there), patch the difference between the cached and the wanted object (NotFound
if it is gone), or nothing. `finalizeDeviceConfig` is split at its calls:
`deleteNodeMetrics`, `deleteModule`, `RemoveUpgradeLabels` (one patch each step),
`removeFinalizer`. A DeviceConfig that is deleted and created again has a new
`uid`; objects of an older one are adopted (controller-runtime compares the
owner by name) or collected. There are three modes: device plugin, DRA, and none
of the images, which the CRD's rules allow too; they allow no other mixture
(deviceconfig_types.go:48). `image` is the release of whatever images the mode has; the metrics image is set in every mode. The version is optional, at
creation too.

Of each owned object the model has what changes during its life: its owner, the images,
the Module's version, the scheduler's feature gate. The gate is `draSupport`, which the
process finds out when it starts (main.go:100) by one call to the API server, any error of
which it takes for a cluster without DRA; so each restart may find something else
(`Discovered`). The patch of a Deployment or DaemonSet always carries its list of
containers, because the wanted one lacks the defaults the API server has filled in:
`MergeFrom` writes `image` and `gate` even when the informer already shows them. A
container without an image is `Refused`.

`handleModuleVersionUpgrade` gives some node the version label, or none:
`RollingUpgrade` has the rest, and its guards only remove behaviours.

An informer that is behind catches up in one jump to the present; the objects
between are skipped, their event is not.

### DeviceConfigLife and how DeviceConfigController implements it

`DeviceConfigLife` knows how far the DeviceConfig of the name has come (`phase`: none,
new, held by the finalizer, deleted and not noticed yet, finalizing), which of
Module and metrics DaemonSet are there (`objects`) and which nodes have a version
label (`labelled`). Things are made and nodes labelled while it is held or its
deletion is unnoticed, and no longer; an object may go at any time; a label goes only
when the objects are gone and the DeviceConfig is not held or about to be deleted, and
the finalizer only when the objects are gone. A label of another version may outlive the
DeviceConfig; when none does is what `LabelsRemoved` says. In `DeviceConfigController` the
last phase begins when the informer has the deletion and no `Reconcile` is under way
that took the DeviceConfig up before (`phase`). The refinement says that errors,
crashes, restarts, adopted objects and a DeviceConfig informer that is a whole
DeviceConfig behind change nothing of that life.

### State and actions of NodeFilter

`nodes` and `configs` are the labels and selectors in the API server,
`cachedNodes` and `cachedConfigs` what the two informers have. An informer changes
its cache in one step (`NodeInformer`, `DeviceConfigInformer`) and its handler gets
the event in a later one (`FindDeviceConfigForNodeChange`, `DeviceConfigEvent`), so
the handler of a Node event reads DeviceConfigs of some other time. Events are
sets: merged where equal and handled in any order, which is more than the
informers' queues do. `queue` is the workqueue with its one worker; `Reconcile`,
`GetTargetedNodes` and `ReturnNil` are the points where it reads the DeviceConfig,
lists, and ends, and `seen` keeps the last list. `isObjectSelectedByLabels` is the
filter's own matching, with requirements that `labels` validates, and
`MatchingLabels` the API machinery's, which does not: a `Malformed` selector is an
error for the one and matches nothing for the other. A List that fails in the
handler loses its event; that is `DroppedEvent` in `RollingUpgrade`, and nothing
here would survive it.

### State and actions of Fleet

Each node is in one `pool`, the label that selectors ask for, and has the one
upgrade taint; each DeviceConfig has its own two labels on each node, a Module and
a phase. `Reconcile` is one action, since one worker serves all keys and what
happens between its calls is in `RollingUpgrade`; `ReconcileFails` makes the calls
up to one that fails. Reads see all writes. `finalizeDeviceConfig` is
`deleteModule`, KMM's finalizer, then labels and finalizer, or some of the labels
and an error. Users create, edit (selector and version, to nothing as well) and
delete; nodes are relabelled. KMM unloads where the Module stops selecting a node
or another version is asked for, and on deletion.

### State and actions of StartUp

`pc` of a process goes `down`, `kubelet`, `root` (the reads of the two
authorities), `get`, `write` (the two calls of `CreateOrUpdate`), `wait`,
`leading`. The write carries the `resourceVersion` of the Get: `got` becomes
`changed` when somebody else wrote meanwhile, and the write fails. Every error is
`FatalError`: the process is down and is started again. `lease` outlives its
process and expires. Authorities are counted rotations, missing at first or not.

## What is checked

| run | question | result |
|---|---|---|
| `rolling_fresh` | drain before swap, any two faults of all seven kinds, an emptied version included; 2 nodes, 2 versions, watch 2 behind while patches go out | holds, 201 thousand states |
| `rolling_one_at_a_time` | one node per version in upgrade, drained nodes against faults, nodes return ready, `NodeRollout` implemented, and without a fault the rollout ends by watch events alone; 3 nodes, two of error, crash, edit, churn | holds, 527 thousand |
| `rolling_stale` | drain before swap with lists 3 writes old, one version asked for, and any two of error, crash, reboot, lost event, churn; the invariant of the proof | holds, 392 thousand |
| `rolling_faults` | the rollout ends after any two faults with stale lists, an emptied version included, 2 nodes | holds, 1.25 million |
| `controller_synced` | finalizer, order of finalization, labels, `DeviceConfigLife` implemented, objects become what is asked, with the DeviceConfig informer behind; 1 node, 2 versions, three modes, a cluster with DRA, 2 DeviceConfigs in a row, one error, crash, edit or deletion by hand | holds, 740 thousand |
| `controller_lagging` | deletions end and objects become what is asked, with the DeviceConfig, Module and Node informers behind; 1 node, 1 version or none, 2 DeviceConfigs in a row, one error, crash, edit of the version or deletion by hand | holds, 435 thousand |
| `node_filter` | no change of a selection is missed, and without a resync every list becomes right; 2 DeviceConfigs, 1 node, 2 labels, 2 edits, errors or crashes | holds, 996 thousand |
| `fleet` | all nodes settle, and abandoned drains against events if no node is shared; 2 DeviceConfigs, 2 nodes, 2 versions, 2 pools, 2 events | holds, 770 thousand |
| `start_up` | no leader without the bundle, restarts refresh it, somebody leads; 2 processes, 3 crashes, each authority rotated up to its third | holds, 155 thousand |
| `rolling_foreign_taint` | other writers' taints are kept | violated |
| `rolling_no_selector` | the rollout ends when the selector is omitted | violated |
| `controller_modes` | no scheduler is left when the DeviceConfig is edited from the device plugin to DRA | violated |

The last three are findings, disagreements of the code with what the repository
says of it; `PROJECT.json` quotes both sides. In short: merge patches of the
taints carry no `resourceVersion`, so what others write between the list and the
patch is lost (upgrade.go:105, 151); an omitted selector means all nodes to the
rollout and the accelerator's nodes to the Module (upgrade.go:62,
kmmmodule.go:271); in DRA mode `handleCustomScheduler` is skipped, which creates no
scheduler, but leaves the two Deployments of an earlier device-plugin mode where they
are, while `test_data/dra-smoke-tests.md` expects none (device_config_reconciler.go:136).

Limits of what holds, found with the same modules; the constants reproduce them:

* `SwapOnlyDrained` needs fresh lists or one version. `FreshReads = FALSE`,
  `MaxLag = 2`, `Faults = {"change"}`, `MaxDisturbances = 1`: an uncordon decided
  on a list of before the edit reaches a node that is drained for the new version
  (upgrade.go:98).
* `OneNodePerVersion` needs fresh lists. With `FreshReads = FALSE`, `MaxLag = 3`
  and no fault, the second `Reconcile` picks a node from a list that lacks the
  label of the first.
* `ExtraDrainsNeedFaults` needs taints whose key is not the upgrade key. With four
  nodes, `FreshReads = TRUE`, `KeyTaint = ForeignTaint = {f}`, `Faults = {"taint"}`
  and `MaxDisturbances = 1`, an upgraded node with a taint of that key and another
  effect is what `GetUpgradedNode` may return each time, while nodes that are done
  stay drained, one more with every node (upgrade.go:217).
* `FinalizerOutlivesModule` needs up-to-date Module and DaemonSet caches. With
  `Lagging = {"module"}` a Module just created is not found and is skipped; the
  garbage collector gets it, as `EventuallyAsAsked` shows.
* `LabelsRemoved` needs an up-to-date Node cache: with `Lagging = {"node"}`
  a node labelled a moment before the deletion is not on the list.
* `LabelsRemoved` needs its premise, `[]DeletedWhenRolledOut`: no label of another
  version is there, and no edit of the version comes, once the DeviceConfig is being
  deleted. Without it (one node, one version, `Lagging` and `Drift` empty, `MaxUid` and
  `MaxEvents` 1) an edit to no version and a deletion leave a node its label
  (upgrade.go:177). Edits before that are free: a DeviceConfig that has been through any
  number of upgrades leaves none. `Settled` shows that the next DeviceConfig of the name
  is not held up by the labels that do stay.
* In mode none `Reconcile` gets no further than the scheduler: its Deployment has a
  container without an image, which the API server refuses
  (device_config_reconciler.go:136, customscheduler.go:97). `AsAsked` then promises the
  ConfigMap and the Module only (`Promised`); the metrics DaemonSet, and the Deployments
  of an earlier mode, stay as they were.
* In the device-plugin mode `AsAsked` says nothing of the Module's DRA part: an
  edit from DRA to the device plugin leaves `spec.dra` set (kmmmodule.go:65), although
  the images are mutually exclusive in a DeviceConfig (deviceconfig_types.go:73). The
  model does the same (`SetKMMModuleAsDesired`).
* The drain promises are for nodes of one DeviceConfig. Where two share a node, the
  one that is done uncordons it while the other has it under way, and each may give
  back the other's nodes instead of its own, so that drained nodes pile up:
  without its premise `[]SelectionsApart`, `AbandonedDrainsNeedEvents` is violated with
  four nodes, one pool, two versions, two DeviceConfigs and `MaxEvents = 2`. `Settled`
  is what holds of shared nodes.
* A process may run with a bundle older than what it read itself, when another
  start that read before a rotation writes after it; `RestartRefreshes` says what
  gets it right.
* The taint of a second drained node (after a fault) is removed only when the key
  is queued once more, and no event need do so before the resync.

### Bounds

Two versions are what an upgrade is about; edits go back and forth between them.
Two nodes are enough for a pick to go to the wrong one; `rolling_one_at_a_time`
has three, so that one may be done, one under way and one waiting. `MaxLag` of 3 lets
the cache lack a whole uncordon, cordon and kickoff.
`MaxDisturbances` is the number of faults in a behaviour: two let a fault hit the
recovery from another. A cordon whose kickoff fails, the case `ExtraDrainsNeedFaults`
is about, takes one. `MaxUid` of 2 has a DeviceConfig created over what another
one left; `MaxEvents` bounds edits, drifts, errors and crashes. The writes that
are not faults need no bound, they end by themselves.

In the controller runs one event may hit any step of any of the two lives, creation and
deletion of both DeviceConfigs being no events; that is enough for a call that fails half
way, for a process that restarts, for a mode, or a version, that is edited under a
`Reconcile` or before a deletion, and for an object that is deleted by hand under a cache
that still has it. Nodes only carry labels there, so one is
enough for what is checked; that a removal of labels may fail between one node and the next
is in the proof of `LabelsAreRemoved`, for any number of nodes. There is one release
of the images, so that the edits are of mode and version: two releases make liveness
take too long. `controller_synced` with two releases, one version and `Drift` of the
Module alone (1.5 million states), and `controller_lagging` with two releases, DRA and
`MaxUid = 1` (187 thousand), hold as well. For safety the theorems below have no bound.

`NodeFilter` treats nodes independently, so one is enough; two DeviceConfigs let
one be malformed and the other not, and two labels tell "all of the selector" from
"one of it". `Asked` has the empty selector, one of both labels, and `Malformed`.
Init has every labelling and every set of selectors; two changes let an edit of the
node meet an edit of the selector, or a crash. In `fleet`, two events are a failure
or a deletion on top of a move of the node, or an edit of either DeviceConfig on
top of the other's; Init has every mixture of new nodes and nodes of
another version. The names of versions and pools are
interchangeable, and a symmetry set is not sound for liveness: `MCFleet` (`FirstSpec`)
lets `d1` ask for `v1` in `p1`, and puts all nodes there at first, none of them at
`v1`, so that there is a rollout to disturb from its beginning; they and the selectors
move from there. The invariant of the proof, `FleetInv`, was checked with three nodes
and three pools as well, under symmetry and with selections kept apart, before it was
proved. In `start_up`, three rotations and three crashes let each of two overlapping starts
read before and write after a rotation, and fail.

Nodes are a symmetry set in `rolling_fresh`, `rolling_stale` and
`rolling_foreign_taint`, where all of them are selected and only safety is asked for.
The other runs check liveness, and have no symmetry.

Init of `RollingUpgrade` is a cluster where a rollout is complete, has not begun,
or is between two nodes: every mixture of fresh nodes and nodes that run a
version. `DeviceConfigController` starts with nothing.

`CHECK_DEADLOCK` is off for `DeviceConfigController`, which stops when the last
DeviceConfig is gone and all is collected; for `NodeFilter` and `Fleet`, which stop
when everything is handled and no events are left; and for `StartUp`, which stops
with a leader.

### Fairness

`EventSpec`: weak fairness of the worker (controller-runtime runs a queued key),
of the watch, and of KMM. It has no resync, and `EventsSuffice` asks for the end of the
rollout only if no fault ever happens. `FairSpec` adds the resync, which controller-runtime
does about every ten hours and which any event of an owned object stands in for.
There is none for faults, users and nodes. `FairSpec` of `DeviceConfigController`
has the worker, the informers, KMM's finalizer and the garbage collector, and not
the resync, which that module does not have at all: deletion and repair come to
an end by events. `NodeFilter` likewise: worker, informers, handlers, no resync.
`Fleet` asks that each key is reconciled now and then, which the resync does and
which no event need do for a drain that another DeviceConfig left, and that KMM
acts on each node. `StartUp`: a process that can take a step does (the kubelet
restarts it), and the lease of one that is gone ends.

## What is proved

For every value of the constants (sets of nodes, versions, DeviceConfigs, labels
and processes, every bound, every set of faults):

| theorem | assumes | states |
|---|---|---|
| `RollingUpgrade_proofs!TypeCorrect` | | `Spec => []TypeOK` |
| `ListsAreGoodEnough` | `FreshReads` | `Spec => []DrainInv` |
| `DriversAreSwappedDrained` | `FreshReads` | `Spec => []SwapOnlyDrained` |
| `NobodyElseUpgrades` | `FreshReads`, no reboots | `Spec => []OneNodeInv` |
| `UpgradeIsRolling` | `FreshReads`, no reboots | `Spec => []OneNodePerVersion` |
| `NodesReturnReady` | `FreshReads`, no reboots | `Spec => UncordonOnlyWhenReady` |
| `StaleLists_proofs!OldListsTellNodesApart` | no edits of the version | `Spec => []StaleInv` |
| `StaleListsSwapDrained` | no edits of the version | `Spec => []SwapOnlyDrained` |
| `StaleListsReturnReady` | no edits, reboots or churn | `Spec => UncordonOnlyWhenReady` |
| `ExtraDrains_proofs!DrainsArePaidFor` | `FreshReads`, `KeyTaint = {}` | `Spec => []ExtraDrainsInv` |
| `OneDrainPerFault` | `FreshReads`, `KeyTaint = {}` | `Spec => []ExtraDrainsNeedFaults` |
| `NodeRollout_proofs!RollingUpgradeImplementsRollout` | `FreshReads`, no reboots | `Spec => ImplementsRollout`, that is `Rollout!Spec` |
| `RolloutPromises` | | `Rollout!Spec => []Promised`: one node at a time, drained |
| `DeviceConfigController_proofs!TypeCorrect` | | `Spec => []TypeOK` |
| `ReconcileHoldsDeviceConfig` | | `Spec => []HoldInv` |
| `FinalizerComesFirst` | Module and DaemonSet informers current | `Spec => []FinalizerOutlivesModule` |
| `FinalizationIsOrdered` | the same | `Spec => FinalizeInOrder` |
| `LabelsAreRemoved` | Node informer current | `Spec => LabelsRemoved`, whose premise is `[]DeletedWhenRolledOut` |
| `ReconcileImplementsLife` | Module and DaemonSet informers current | `Spec => ImplementsLife`, that is `Life!Spec` |
| `NodeFilter_proofs!TypeCorrect` | | `Spec => []TypeOK` |
| `NoSelectionChangeIsMissed` | | `Spec => []NothingMissed` |
| `Fleet_proofs!TypeCorrect` | | `Spec => []TypeOK` |
| `OneAbandonedPerEvent` | | `Spec => AbandonedDrainsNeedEvents`, whose premise is `[]SelectionsApart` |
| `StartUp_proofs!TypeCorrect` | | `Spec => []TypeOK` |
| `BundleBeforeLeader` | | `Spec => []LeaderHasBundle` |
| `RestartsRefreshBundle` | | `Spec => []RestartRefreshes` |

The assumptions are needed: the limits above show what happens without fresh
lists, with informers that lag, with an edited version, or with a deletion in mid-rollout; a reboot between the
list and the uncordon takes the driver from a node that is about to be given back;
DeviceConfigs that share nodes take each other's for their own, which is the premise of
`AbandonedDrainsNeedEvents`. The set of
DeviceConfigs is finite (`FleetAssumption`), since they are counted.

**RollingUpgrade.** `SwapOnlyDrained` is not inductive: whether a patch keeps it
depends on what `Reconcile` remembers. `DrainInv` adds how far the API server may
have moved from the list while it is in use: the version label has not changed
(`SnapshotVersion`: only the operator writes it, but a node may have been
replaced), a driver that was the right one still is or is gone (`SnapshotReady`,
so that an uncordon from the list is harmless), a drained node that is to be
upgraded still is (`SnapshotTaint`, so that not patching it is harmless), and
between cordon and kickoff the picked node is drained or new (`Progress`).
`OneNodeInv` adds, without reboots, that every node in upgrade is in upgrade on
the list too (`SnapshotInUpgrade`), so that `GetNodeForUpgrade` returns nil when
it must, and that a node upgraded on the list is upgraded (`SnapshotUpgraded`).
TLC checks both invariants (`rolling_fresh`, `rolling_one_at_a_time`).

`ExtraDrainsInv` is an account of the drained nodes. Every one has cost a
disturbance, but for one on its way: labelled for the version asked for, or just
picked (`DrainsPaidFor`). A node is picked only when none is on its way
(`ListPaidFor`): `GetNodeForUpgrade` returns nil while one is in upgrade, and
`UncordonUpgradedNode` takes the one that is done first. That needs a fresh list
(`DrainedWereListed`). When `Reconcile` fails, the drain it has made becomes one that
the failure pays for; when the version is edited, the edit pays for the node on its
way to the old one, now or, if a `Reconcile` still works for the old version
(`Overtaken`), in advance. The proof has a lemma for each of these, and TLC checks the
invariant in `rolling_one_at_a_time`.

The proof of a step goes through what it does to `Api`. The actions of KMM, nodes
and other writers change one object in a way (`Touched`, `Settled`) that the
invariants survive: one lemma for all of them. The three patches have each a
lemma on their effect and a lemma on the invariants. Everything else leaves `Api`
and the list alone, or drops the list.

`StaleInv` is for lists of any age. Between an old state of a node and a later one
there is an order (`Later`): once nothing is to be swapped on the node any more
(`Harmless`: gone, not labelled yet, or labelled for the version asked for and not
running another) it stays so, and before that it keeps its upgrade taint. The
states of the watch are in that order (`WatchInOrder`), so what a list of any age says
of a drained or a finished node is true enough of the node now (`ListInOrder`): a cordon
that the list makes superfluous may be skipped, and an uncordon decided on it reaches
a harmless node. An edit of `driverVersion` is what breaks the order, see the limits. No
bound on the lag enters the proof.

**NodeRollout.** Each action of `RollingUpgrade` changes at most one node, and
`OneNodeInv` says enough of that node for the change to be a step of
`NodeRollout`: a cordon is `Drain` (or a stutter), a kickoff `Assign`, an uncordon
`GiveBack`, KMM's two are `Unload` and `Load`; all others are stutters. What the abstract
specification promises in turn (`RolloutPromises`) is proved of it alone.

**DeviceConfigController.** The types go with what each handler writes: an object
of its kind, and nothing else (`CreateOrPatchEffect`, one lemma for all handlers,
with what comes next as a parameter). Every step is then one of a dozen kinds (`Moves`: takes the
DeviceConfig up, holds it, handles an object, labels, deletes, finds nothing, lets
go, ...), and the invariants are proved by kind. `HoldInv` is inductive with no
assumption on the informers: a `Reconcile` past `setFinalizer` has its DeviceConfig by
a finalizer that only `removeFinalizer` takes off; what the informer shows may be a
DeviceConfig ago, but then the one there is now has no finalizer yet and nobody has
deleted it. `FinalizerInv` adds that what `finalizeDeviceConfig` found gone stays gone
(`FinalizedSoFar`), for which the two informers it looks into must be current.
These two map every step to one of `DeviceConfigLife` or none (`LifeStep`). `LabelInv` is
about the labels, whatever their versions: a labelled node has a DeviceConfig that is
held; while that one is being finalized the version in hand is the version it asks for;
at `RemoveUpgradeLabels` every labelled node is on the list, and at `removeFinalizer`
there is none. It says nothing of labels and versions before the deletion, so that
upgrades are free. The premise enters once, where the list is made: the labels of a
DeviceConfig that is being deleted are of its version, and the informer, from which the
one in hand comes, has that version too. TLC checks `HoldInv`, the refinement and
`LabelsRemoved` in `controller_synced`.

**NodeFilter.** `FilterInv` is `NothingMissed` with the types and what the worker
has in hand: a selector that is current, or a key that is queued again
(`ReadIsCurrent`). The core is `MatchingsAgree` (the filter and the list match the
same nodes) and `SelectionChangesWake` (a node cannot change sides without an event
that passes the predicate and that `isWoken` accepts).

**Fleet.** That the abandoned nodes are no more than the events is not inductive: a
deletion abandons a node that the DeviceConfig has under way, which must not have cost
an event before. `DrainsPaidFor` says it of whatever DeviceConfigs may go: for every
set of them that stays, the drained nodes that are not on the way of one of those
(`LeftBehind`) are at most the events and one for each other DeviceConfig that has a
node on its way (`BusyBut`). A `Reconcile` drains one more node only when its DeviceConfig
has none on its way, or gives one back first (`PaidReconciled`, `PaidFailed`); an edit,
a deletion or the move of a node takes nodes off the way of one DeviceConfig at most
and is an event. Both need that a node is on the way of one DeviceConfig only,
`SelectionsApart`.

**StartUp.** Past its start every process has found the ConfigMap
(`RunningHasBundle`), and of processes that are all past it one was the last to
write or to find nothing to write (`SomebodyWroteLast`): when all have read the
same, that is what is there.

Only model-checked: liveness under fairness, which the prover does not reach
(`RolloutConverges`, `EventsSuffice`, `DeletionCompletes`, `EventuallyAsAsked`, `EventuallySeen`,
`Settled`, `EventuallyLed`).

## What is not modelled

* What is in pod templates but the images and the scheduler's feature gate: mounts,
  arguments, tolerations. They are functions of the DeviceConfig without state.
* Flags and configuration file, health probes: read once, no choices that the rest
  depends on. A failure there is a failed start.
* Finalizers and labels of others; the status of a DeviceConfig, which the code never
  writes.
* In `RollingUpgrade` a Module cache that is behind (`DeviceConfigController` has it),
  and what KMM does under a Module without a version there (`Fleet` has it). KMM's
  own delay in seeing a Module or a label: it reacts to the API server's state, at
  any later time.
* In `Fleet`, caches that are behind and interleavings of other writers with the
  calls of one `Reconcile` (`RollingUpgrade` has both).
* Two leaders at once: `mgr.Start` ends the process that loses its lease, and the
  models have one worker.
* Generated code, manifests, packaging: no behaviour of their own; CRD validation is
  an assumption (`Mode`).

`PROJECT.json` lists the hazards of each part, with the property that covers it or
the reason that none does.

## Plan

Done: the core (`NodeUpgrade`, `RollingUpgrade`, `DeviceConfigController`) with its
proofs; the abstract specification `NodeRollout` with its refinement checked and
proved; the event filter with several DeviceConfigs and its proof; several
DeviceConfigs on shared nodes, deletion and emptied versions in mid-upgrade, with the proof of
what they leave behind; start-up with its proofs; the proofs about finalization;
the proof about stale lists; the abstract specification `DeviceConfigLife` with its
refinement checked and proved.

Left: an abstract specification of one other owned object (absent, as asked, adopted)
that `CreateOrPatch` implements; the promises of `Fleet` for DeviceConfigs that share
nodes, as far as there are any but `Settled`.
