----------------------- MODULE DeviceConfigController -----------------------
(***************************************************************************)
(* The life of one DeviceConfig: setFinalizer, the objects Reconcile       *)
(* creates and repairs, and finalizeDeviceConfig.                          *)
(*                                                                         *)
(* Every kind has an informer of its own: api is what the API server has,  *)
(* cache what the informers have, and nothing orders the catching up of    *)
(* one kind and another.  Lagging says which informers are ever behind;    *)
(* the others see a write and enqueue its event in the same step.          *)
(*                                                                         *)
(* What handleModuleVersionUpgrade does with the nodes is RollingUpgrade;  *)
(* here it is one thing, to give the version label to some node.           *)
(***************************************************************************)
EXTENDS Naturals

CONSTANTS Node, Version, NoVersion,
          Image, NoImage,  \* the releases of the operands' images
          ClusterDRA,      \* does the cluster serve resource.k8s.io/v1?
          Lagging,         \* the kinds (or "node") whose informer may be behind
          Modes,           \* modes that the user may ask for, of Mode
          Drift,           \* owned kinds whose object somebody may delete
          MaxUid,          \* bound on the DeviceConfigs created under this name
          MaxEvents        \* bound on edits, drifts, errors and crashes together

\* DRADriverImage, the three images of the device-plugin mode, or none of them: the
\* CRD's rules leave no other mixture.
Mode == {"plugin", "dra", "none"}

Owned == {"configMap", "module", "scheduler", "extension", "nodeMetrics"}
Kind == Owned \cup {"deviceConfig"}

ASSUME VersionAssumption == NoVersion \notin Version
ASSUME ImageAssumption == NoImage \notin Image
ASSUME BoundAssumption == /\ Lagging \subseteq Kind \cup {"node"}
                          /\ ClusterDRA \in BOOLEAN
                          /\ Modes \subseteq Mode
                          /\ Drift \subseteq Owned
                          /\ MaxUid \in Nat
                          /\ MaxEvents \in Nat

VARIABLES api,          \* [Kind -> object], the API server
          cache,        \* [Kind -> object], the informers
          label,        \* [Node -> Version \cup {NoVersion}]: kmm...version-module labels
          cachedLabel,  \* the same in the Node informer
          unseen,       \* the kinds and nodes whose informer has events to come
          queued,       \* is the key in the workqueue?
          pc,           \* the call Reconcile is about to make
          devConfig,    \* the DeviceConfig Reconcile holds
          toUnlabel,    \* the nodes RemoveUpgradeLabels has left to patch
          draSupport,   \* what the process found out about DRA when it started
          uid,          \* uid of the latest DeviceConfig
          events        \* edits, drifts, errors and crashes so far

reconciler == <<pc, devConfig, toUnlabel>>
objectStore == <<api, cache, unseen>>
labelStore == <<label, cachedLabel>>
vars == <<objectStore, labelStore, queued, reconciler, draSupport, uid, events>>

Nothing == [kind |-> "nothing"]

\* The mode says which images are set, image of which release they are.  The metrics
\* have an image in every mode (the CRD requires one).
DeviceConfig == [uid : 1 .. MaxUid, finalizer : BOOLEAN, deleting : BOOLEAN,
                 mode : Mode, image : Image, version : Version \cup {NoVersion}]

\* Of the owned objects what depends on the DeviceConfig or the process: the images, the
\* version, the feature gate of the scheduler.  The rest of a spec is constant.
Module == [owner : 1 .. MaxUid, deleting : BOOLEAN,
           plugin : Image \cup {NoImage}, dra : Image \cup {NoImage},
           version : Version \cup {NoVersion}]
ConfigMap == [owner : 1 .. MaxUid]
Scheduler == [owner : 1 .. MaxUid, image : Image, gate : BOOLEAN]
Workload == [owner : 1 .. MaxUid, image : Image]
Object(kind) == CASE kind = "deviceConfig" -> DeviceConfig
                  [] kind = "module"       -> Module
                  [] kind = "configMap"    -> ConfigMap
                  [] kind = "scheduler"    -> Scheduler
                  [] OTHER                 -> Workload

Objects == [Kind -> {Nothing} \cup UNION {Object(kind) : kind \in Kind}]

PC == {"idle", "setFinalizer", "handleBuildConfigMap", "handleKMMModule",
       "handleModuleVersionUpgrade", "handleScheduler", "handleExtension", "handleNodeMetrics",
       "deleteNodeMetrics", "deleteModule", "RemoveUpgradeLabels", "removeFinalizer"}

TypeOK ==
  /\ {api, cache} \subseteq Objects
  /\ \A kind \in Kind : {api[kind], cache[kind]} \subseteq Object(kind) \cup {Nothing}
  /\ {label, cachedLabel} \subseteq [Node -> Version \cup {NoVersion}]
  /\ unseen \subseteq Kind \cup Node
  /\ queued \in BOOLEAN
  /\ pc \in PC
  /\ devConfig \in DeviceConfig \cup {Nothing}
  /\ toUnlabel \subseteq Node
  /\ draSupport \in BOOLEAN
  /\ uid \in 0 .. MaxUid
  /\ events \in 0 .. MaxEvents

\* Any error of the discovery call is taken for a cluster without DRA.
Discovered == {FALSE, ClusterDRA}

Init ==
  /\ api = [kind \in Kind |-> Nothing] /\ cache = api
  /\ label = [n \in Node |-> NoVersion] /\ cachedLabel = label
  /\ unseen = {}
  /\ queued = FALSE
  /\ pc = "idle"
  /\ devConfig = Nothing
  /\ toUnlabel = {}
  /\ draSupport \in Discovered
  /\ uid = 0 /\ events = 0

Present(kind) == api[kind] # Nothing
DC == api["deviceConfig"]

-----------------------------------------------------------------------------
(* Plausible mistakes, to try in the place of the definition each one names; *)
(* nothing uses them.                                                        *)

\* Watched without Owns(Module).
moduleNotWatched == {"deviceConfig", "nodeMetrics", "scheduler", "extension"}

\* setFinalizer, not called.
finalizerForgotten ==
  /\ pc = "setFinalizer"
  /\ pc' = "handleBuildConfigMap"
  /\ UNCHANGED <<objectStore, labelStore, queued, devConfig, toUnlabel, draSupport, uid, events>>

\* SetKMMModuleAsDesired without SetControllerReference.
ownerForgotten(mod, d) ==
  [owner    |-> IF mod = Nothing THEN 0 ELSE mod.owner,
   deleting |-> mod # Nothing /\ mod.deleting,
   plugin   |-> IF d.mode = "plugin" THEN d.image ELSE NoImage,
   dra      |-> IF d.mode = "dra" THEN d.image ELSE NoImage,
   version  |-> d.version]

\* SetKMMModuleAsDesired without `mod.Spec.DevicePlugin = nil'.
pluginKept(mod, d) ==
  [owner    |-> d.uid,
   deleting |-> mod # Nothing /\ mod.deleting,
   plugin   |-> IF d.mode = "plugin" THEN d.image ELSE IF mod = Nothing THEN NoImage ELSE mod.plugin,
   dra      |-> IF d.mode = "dra" THEN d.image ELSE IF mod = Nothing THEN NoImage ELSE mod.dra,
   version  |-> d.version]

\* deleteNodeMetrics takes any error of Get for NotFound.
metricsOverlooked ==
  /\ pc = "deleteNodeMetrics"
  /\ pc' = "deleteModule"
  /\ UNCHANGED <<objectStore, labelStore, queued, devConfig, toUnlabel, draSupport, uid, events>>

\* SetCustomSchedulerAsDesired never turns the feature gate off.
gateOpen(d) == [owner |-> d.uid, image |-> IF d.mode = "plugin" THEN d.image ELSE NoImage, gate |-> TRUE]

\* upgradeLabelled by != for =.
otherVersionsLabelled(d) == {n \in Node : cachedLabel[n] \notin {NoVersion, d.version}}

\* DeletionTimestamp is not looked at before the handlers.
deletionOverlooked ==
  /\ pc = "idle" /\ queued
  /\ queued' = FALSE
  /\ devConfig' = cache["deviceConfig"]
  /\ pc' = IF devConfig' = Nothing THEN "idle" ELSE "setFinalizer"
  /\ UNCHANGED <<objectStore, labelStore, toUnlabel, draSupport, uid, events>>

-----------------------------------------------------------------------------
(* Reconcile *)

\* For(DeviceConfig), Owns(Module), Owns(DaemonSet), Owns(Deployment): the build
\* ConfigMap is owned, but not watched.
Watched == {"deviceConfig", "module", "nodeMetrics", "scheduler", "extension"}

\* A write to the API server, with the key queued already or not.
Store(objects, enqueued) ==
  /\ api' = objects
  /\ cache' = [kind \in Kind |-> IF kind \in Lagging THEN cache[kind] ELSE objects[kind]]
  /\ unseen' = unseen \cup {kind \in Lagging : kind \in Kind /\ objects[kind] # api[kind]}
  /\ queued' = (enqueued \/ \E kind \in Watched \ Lagging : objects[kind] # api[kind])

\* FindDeviceConfigForNodeChange finds the DeviceConfigs its informer knows.
StoreLabel(labels) ==
  /\ label' = labels
  /\ cachedLabel' = IF "node" \in Lagging THEN cachedLabel ELSE labels
  /\ unseen' = unseen \cup {n \in Node : "node" \in Lagging /\ labels[n] # label[n]}
  /\ queued' = (queued \/ ("node" \notin Lagging /\ labels # label
                          /\ cache["deviceConfig"] # Nothing))

\* The same object with another value of its own.
Replaced(kind, object) == [api EXCEPT ![kind] = object]

Goto(step) == pc' = step /\ UNCHANGED <<devConfig, toUnlabel>>

Return == /\ pc' = "idle"
          /\ devConfig' = Nothing
          /\ toUnlabel' = {}

\* The error is returned and the key is queued again.
ReturnErr == Return /\ queued' = TRUE /\ UNCHANGED objectStore

\* A worker takes the key; Get of a DeviceConfig that is gone ends it at once.
Reconcile ==
  /\ pc = "idle" /\ queued
  /\ queued' = FALSE
  /\ devConfig' = cache["deviceConfig"]
  /\ pc' = CASE devConfig' = Nothing -> "idle"
             [] devConfig' # Nothing /\ devConfig'.deleting -> "deleteNodeMetrics"
             [] OTHER -> "setFinalizer"
  /\ UNCHANGED <<objectStore, labelStore, toUnlabel, draSupport, uid, events>>

\* The patch's answer replaces the DeviceConfig in hand.
setFinalizer ==
  /\ pc = "setFinalizer"
  /\ \/ /\ devConfig.finalizer
        /\ Goto("handleBuildConfigMap")
        /\ UNCHANGED <<objectStore, queued>>
     \/ /\ ~devConfig.finalizer /\ Present("deviceConfig")
        /\ Store([api EXCEPT !["deviceConfig"].finalizer = TRUE], queued)
        /\ devConfig' = api'["deviceConfig"]
        /\ pc' = "handleBuildConfigMap"
        /\ UNCHANGED toUnlabel
     \/ /\ ~devConfig.finalizer /\ ~Present("deviceConfig")
        /\ ReturnErr
  /\ UNCHANGED <<labelStore, draSupport, uid, events>>

DRADriverImage(d) == IF d.mode = "dra" THEN d.image ELSE NoImage
DevicePluginImage(d) == IF d.mode = "plugin" THEN d.image ELSE NoImage
CustomSchedulerImage(d) == DevicePluginImage(d)
SchedulerExtensionImage(d) == DevicePluginImage(d)

\* DRA clears the device plugin; the device plugin leaves DRA as it finds it; without
\* images both stay as they are.
SetKMMModuleAsDesired(mod, d) ==
  LET found == IF mod = Nothing THEN [deleting |-> FALSE, plugin |-> NoImage, dra |-> NoImage]
                                ELSE mod
  IN  [owner    |-> d.uid,
       deleting |-> found.deleting,
       plugin   |-> CASE DRADriverImage(d) # NoImage    -> NoImage
                      [] DevicePluginImage(d) # NoImage -> DevicePluginImage(d)
                      [] OTHER                          -> found.plugin,
       dra      |-> IF DRADriverImage(d) # NoImage THEN DRADriverImage(d) ELSE found.dra,
       version  |-> d.version]

SetBuildConfigMapAsDesired(d) == [owner |-> d.uid]
SetCustomSchedulerAsDesired(d) ==
  [owner |-> d.uid, image |-> CustomSchedulerImage(d), gate |-> draSupport]
SetCustomSchedulerExtensionAsDesired(d) == [owner |-> d.uid, image |-> SchedulerExtensionImage(d)]
SetNodeMetricsAsDesired(d) == [owner |-> d.uid, image |-> d.image]

AsDesired(kind, object, d) ==
  CASE kind = "module"      -> SetKMMModuleAsDesired(object, d)
    [] kind = "configMap"   -> SetBuildConfigMapAsDesired(d)
    [] kind = "scheduler"   -> SetCustomSchedulerAsDesired(d)
    [] kind = "extension"   -> SetCustomSchedulerExtensionAsDesired(d)
    [] kind = "nodeMetrics" -> SetNodeMetricsAsDesired(d)

\* The API server takes no container without an image, to create or to patch.
Refused(object) == "image" \in DOMAIN object /\ object.image = NoImage

\* A merge patch carries the fields that differ from what was read, and a list as a whole:
\* that of the containers always differs, since it lacks the API server's defaults.
MergeFrom(current, old, new) ==
  [field \in DOMAIN current |->
     IF new[field] # old[field] \/ field \in {"image", "gate"} THEN new[field] ELSE current[field]]

\* CreateOrPatch of one object, by what the informer says is there.  A spec that
\* is written anew lacks the API server's defaults, so that the patch is never
\* empty, though it may change nothing; that of a Module may be empty or not.
CreateOrPatch(kind, next) ==
  LET old == cache[kind]
      new == AsDesired(kind, old, devConfig)
  IN  \/ /\ ~Refused(new) /\ old = new
         /\ kind \in {"configMap", "module"} \/ Present(kind)
         /\ next /\ UNCHANGED <<objectStore, queued>>
      \/ /\ ~Refused(new) /\ old = Nothing /\ ~Present(kind)
         /\ next /\ Store(Replaced(kind, new), queued)
      \/ /\ ~Refused(new) /\ old \notin {Nothing, new} /\ Present(kind)
         /\ next /\ Store(Replaced(kind, MergeFrom(api[kind], old, new)), queued)
      \/ old = Nothing /\ Present(kind) /\ ReturnErr       \* AlreadyExists
      \/ /\ old # Nothing /\ ~Present(kind)                \* NotFound
         /\ old # new \/ kind # "configMap"
         /\ ReturnErr
      \/ Refused(new) /\ ReturnErr                         \* Invalid

Handle(step, kind, next) ==
  /\ pc = step
  /\ CreateOrPatch(kind, next)
  /\ UNCHANGED <<labelStore, draSupport, uid, events>>

handleBuildConfigMap == Handle("handleBuildConfigMap", "configMap", Goto("handleKMMModule"))
handleKMMModule == Handle("handleKMMModule", "module", Goto("handleModuleVersionUpgrade"))

\* KickoffUpgrade labels one node at most; DRA has no use for the scheduler.
handleModuleVersionUpgrade ==
  /\ pc = "handleModuleVersionUpgrade"
  /\ Goto(IF DRADriverImage(devConfig) # NoImage THEN "handleNodeMetrics" ELSE "handleScheduler")
  /\ \/ UNCHANGED <<labelStore, unseen, queued>>
     \/ /\ devConfig.version # NoVersion
        /\ \E n \in Node : StoreLabel([label EXCEPT ![n] = devConfig.version])
  /\ UNCHANGED <<api, cache, draSupport, uid, events>>

handleCustomScheduler ==
  \/ Handle("handleScheduler", "scheduler", Goto("handleExtension"))
  \/ Handle("handleExtension", "extension", Goto("handleNodeMetrics"))

handleNodeMetrics == Handle("handleNodeMetrics", "nodeMetrics", Return)

-----------------------------------------------------------------------------
(* finalizeDeviceConfig *)

\* A Module waits for KMM's finalizer, the other objects go at once.
Deleted(kind) ==
  Replaced(kind, IF kind = "module" THEN [api[kind] EXCEPT !.deleting = TRUE] ELSE Nothing)

deleteNodeMetrics ==
  /\ pc = "deleteNodeMetrics"
  /\ \/ /\ cache["nodeMetrics"] = Nothing
        /\ Goto("deleteModule") /\ UNCHANGED <<objectStore, queued>>
     \/ /\ cache["nodeMetrics"] # Nothing /\ Present("nodeMetrics")
        /\ Return /\ Store(Deleted("nodeMetrics"), queued)
     \/ /\ cache["nodeMetrics"] # Nothing /\ ~Present("nodeMetrics")
        /\ ReturnErr
  /\ UNCHANGED <<labelStore, draSupport, uid, events>>

\* The label value RemoveUpgradeLabels lists by is the version asked for now.
upgradeLabelled(d) == {n \in Node : cachedLabel[n] = d.version /\ d.version # NoVersion}

\* A Module that is gone already is no error here.
deleteModule ==
  /\ pc = "deleteModule"
  /\ \/ /\ cache["module"] = Nothing
        /\ pc' = "RemoveUpgradeLabels"
        /\ toUnlabel' = upgradeLabelled(devConfig)
        /\ UNCHANGED <<objectStore, queued, devConfig>>
     \/ /\ cache["module"] # Nothing
        /\ Return
        /\ Store(IF Present("module") THEN Deleted("module") ELSE api, queued)
  /\ UNCHANGED <<labelStore, draSupport, uid, events>>

RemoveUpgradeLabels ==
  /\ pc = "RemoveUpgradeLabels"
  /\ \/ /\ toUnlabel = {}
        /\ Goto("removeFinalizer") /\ UNCHANGED <<labelStore, unseen, queued>>
     \/ \E n \in toUnlabel :
          /\ StoreLabel([label EXCEPT ![n] = NoVersion])
          /\ toUnlabel' = toUnlabel \ {n}
          /\ UNCHANGED <<pc, devConfig>>
  /\ UNCHANGED <<api, cache, draSupport, uid, events>>

\* Without its last finalizer an object that is being deleted is gone.
removeFinalizer ==
  /\ pc = "removeFinalizer"
  /\ \/ /\ Present("deviceConfig")
        /\ Return
        /\ Store(Replaced("deviceConfig",
                          IF DC.deleting THEN Nothing ELSE [DC EXCEPT !.finalizer = FALSE]), queued)
     \/ /\ ~Present("deviceConfig")
        /\ ReturnErr
  /\ UNCHANGED <<labelStore, draSupport, uid, events>>

ReconcileStep ==
  \/ Reconcile
  \/ setFinalizer \/ handleBuildConfigMap \/ handleKMMModule
  \/ handleModuleVersionUpgrade \/ handleCustomScheduler \/ handleNodeMetrics
  \/ deleteNodeMetrics \/ deleteModule \/ RemoveUpgradeLabels \/ removeFinalizer

-----------------------------------------------------------------------------
(* Failures, events and the others *)

Happen == events < MaxEvents /\ events' = events + 1

\* Any call fails, or its answer is lost.
CallFails ==
  /\ pc # "idle"
  /\ Happen /\ ReturnErr
  /\ UNCHANGED <<labelStore, draSupport, uid>>

\* The process dies; the next one lists everything and enqueues every DeviceConfig.
Crash ==
  /\ Happen /\ Return
  /\ queued' = TRUE
  /\ cache' = api /\ cachedLabel' = label /\ unseen' = {}
  /\ draSupport' \in Discovered
  /\ UNCHANGED <<api, label, uid>>

\* An informer catches up with one kind, and with one node: an object that was
\* created and deleted meanwhile leaves no trace in the cache, but had its events.
ObjectEvent(kind) ==
  /\ kind \in unseen
  /\ unseen' = unseen \ {kind}
  /\ cache' = [cache EXCEPT ![kind] = api[kind]]
  /\ queued' = (queued \/ kind \in Watched)
  /\ UNCHANGED <<api, labelStore, reconciler, draSupport, uid, events>>

NodeEvent(n) ==
  /\ n \in unseen
  /\ unseen' = unseen \ {n}
  /\ cachedLabel' = [cachedLabel EXCEPT ![n] = label[n]]
  /\ queued' = (queued \/ cache["deviceConfig"] # Nothing)
  /\ UNCHANGED <<api, cache, label, reconciler, draSupport, uid, events>>

Others == UNCHANGED <<labelStore, reconciler, draSupport>>

\* KMM has unloaded the driver and lets the Module go.
KMMFinalize ==
  /\ Present("module") /\ api["module"].deleting
  /\ Store(Replaced("module", Nothing), queued)
  /\ UNCHANGED <<uid, events>> /\ Others

\* The garbage collector deletes what a DeviceConfig owned that is gone.
GarbageCollect(kind) ==
  /\ Present(kind)
  /\ Present("deviceConfig") => api[kind].owner # DC.uid
  /\ Deleted(kind) # api
  /\ Store(Deleted(kind), queued)
  /\ UNCHANGED <<uid, events>> /\ Others

CreateDeviceConfig ==
  /\ uid < MaxUid /\ ~Present("deviceConfig")
  /\ \E mode \in Modes, image \in Image, version \in Version \cup {NoVersion} :
       Store(Replaced("deviceConfig", [uid |-> uid + 1, finalizer |-> FALSE, deleting |-> FALSE,
                                       mode |-> mode, image |-> image, version |-> version]), queued)
  /\ uid' = uid + 1
  /\ UNCHANGED events /\ Others

EditDeviceConfig ==
  /\ Happen /\ Present("deviceConfig")
  /\ \E mode \in Modes, image \in Image, version \in Version \cup {NoVersion} :
       /\ <<mode, image, version>> # <<DC.mode, DC.image, DC.version>>
       /\ Store(Replaced("deviceConfig",
                         [DC EXCEPT !.mode = mode, !.image = image, !.version = version]), queued)
  /\ UNCHANGED uid /\ Others

DeleteDeviceConfig ==
  /\ Present("deviceConfig") /\ ~DC.deleting
  /\ Store(Replaced("deviceConfig",
                    IF DC.finalizer THEN [DC EXCEPT !.deleting = TRUE] ELSE Nothing), queued)
  /\ UNCHANGED <<uid, events>> /\ Others

\* Somebody deletes an object that the operator owns.
DeleteOwned(kind) ==
  /\ kind \in Drift
  /\ Happen /\ Present(kind)
  /\ Store(Deleted(kind), queued)
  /\ UNCHANGED uid /\ Others

Next ==
  \/ ReconcileStep \/ CallFails \/ Crash
  \/ \E kind \in Kind : ObjectEvent(kind)
  \/ \E n \in Node : NodeEvent(n)
  \/ KMMFinalize
  \/ \E kind \in Owned : GarbageCollect(kind) \/ DeleteOwned(kind)
  \/ CreateDeviceConfig \/ EditDeviceConfig \/ DeleteDeviceConfig

Spec == Init /\ [][Next]_vars

\* The worker runs, the informers catch up, KMM and the garbage collector do
\* their part.  Nobody has to delete or to create a DeviceConfig, and the
\* periodic resync is not counted on.
FairSpec == /\ Spec
            /\ WF_vars(ReconcileStep)
            /\ \A kind \in Kind : WF_vars(ObjectEvent(kind))
            /\ \A n \in Node : WF_vars(NodeEvent(n))
            /\ WF_vars(KMMFinalize)
            /\ \A kind \in Owned : WF_vars(GarbageCollect(kind))

-----------------------------------------------------------------------------
(* Properties *)

\* setFinalizer comes before anything is created and the finalizer goes after
\* everything is gone: no Module and no metrics DaemonSet without a DeviceConfig
\* that still has to be finalized.
FinalizerOutlivesModule ==
  \A kind \in {"module", "nodeMetrics"} :
    Present(kind) => Present("deviceConfig") /\ DC.finalizer

\* finalizeDeviceConfig takes the labels off only when the Module is gone, so KMM
\* never sees a labelled node lose its label under a Module it still serves, and it
\* deletes the Module only when the metrics DaemonSet that uses the driver is gone.
FinalizeInOrder ==
  /\ [][RemoveUpgradeLabels /\ label' # label => ~Present("module")]_vars
  /\ [][deleteModule /\ api' # api => ~Present("nodeMetrics")]_vars

\* Every deletion comes to its end, whatever the informers have yet to see and
\* whatever fails on the way.
DeletionCompletes ==
  \A u \in 1 .. MaxUid :
    (Present("deviceConfig") /\ DC.uid = u /\ DC.deleting)
      ~> ~(Present("deviceConfig") /\ DC.uid = u)

\* What Reconcile gets to with no more images than the mode has: without any, the API
\* server refuses the scheduler, and what comes after it is never reached.
Promised(mode) == CASE mode = "plugin" -> Owned
                    [] mode = "dra"    -> {"configMap", "module", "nodeMetrics"}
                    [] mode = "none"   -> {"configMap", "module"}

\* The objects are as the DeviceConfig asks: there, its own, in its mode, version and
\* images, with the scheduler's gate as the process found it; and none is left when the
\* DeviceConfig is gone.
AsAsked ==
  IF Present("deviceConfig") THEN
    ~DC.deleting =>
      /\ \A kind \in Promised(DC.mode) : Present(kind) /\ api[kind].owner = DC.uid
      /\ \A kind \in Promised(DC.mode) \cap {"scheduler", "extension", "nodeMetrics"} :
           api[kind].image = DC.image
      /\ api["module"].version = DC.version
      /\ DC.mode = "dra" => api["module"].dra = DC.image /\ api["module"].plugin = NoImage
      /\ DC.mode = "plugin" => /\ api["module"].plugin = DC.image
                               /\ api["scheduler"].gate = draSupport
  ELSE \A kind \in Owned : ~Present(kind)

\* Events alone, without the resync, bring the cluster to what the user asked for
\* last.
EventuallyAsAsked == <>[]AsAsked

\* Once the user has changed from the device plugin to DRA there is an end to the custom
\* scheduler: "No `*-custom-scheduler` or `*-custom-scheduler-extension` deployments"
\* (src/test_data/dra-smoke-tests.md).
NoSchedulerInDRAMode ==
  <>[](Present("deviceConfig") /\ ~DC.deleting /\ DC.mode = "dra"
         => ~Present("scheduler") /\ ~Present("extension"))

-----------------------------------------------------------------------------
(* The invariants the proofs rest on *)

\* Between two Reconciles there is no DeviceConfig in hand, and only then.
HasDeviceConfig == pc = "idle" <=> devConfig = Nothing

Finalizing == {"deleteNodeMetrics", "deleteModule", "RemoveUpgradeLabels", "removeFinalizer"}
Handling == PC \ (Finalizing \cup {"idle", "setFinalizer"})

\* setFinalizer is over, or has nothing to do.
FinalizerSeen == pc \in Handling \/ (pc = "setFinalizer" /\ devConfig.finalizer)

KnownDC == cache["deviceConfig"]
Held == Present("deviceConfig") /\ DC.finalizer
Known(deleting) == KnownDC # Nothing /\ KnownDC.deleting = deleting

\* Reconcile has the DeviceConfig by its finalizer, which nobody else takes off.  The
\* informer may be any number of DeviceConfigs behind, but what it has seen of a
\* finalizer or a deletion is true of the one there is now, or that one has neither.
HoldInv ==
  /\ Present("deviceConfig") /\ DC.deleting => DC.finalizer
  /\ FinalizerSeen => Held
  /\ pc \in Finalizing /\ Held => DC.deleting /\ Known(TRUE)
  /\ Known(FALSE) /\ KnownDC.finalizer => Held /\ pc \notin Finalizing
  /\ Known(TRUE) => /\ Held => DC.deleting
                    /\ pc \in Handling \cup {"setFinalizer"} => Held

\* What finalizeDeviceConfig has done stays done, if the two informers by which it
\* tells are never behind.
FinalizedSoFar ==
  /\ \A kind \in {"module", "nodeMetrics"} : cache[kind] = api[kind]
  /\ pc \in Finalizing \ {"deleteNodeMetrics"} => ~Present("nodeMetrics")
  /\ pc \in {"RemoveUpgradeLabels", "removeFinalizer"} => ~Present("module")

FinalizerInv == HoldInv /\ FinalizedSoFar /\ FinalizerOutlivesModule

\* The DeviceConfig is deleted when the rollout of its version is done, no label of an
\* older one being left, and it is the version that the informer has, too.
DeletedWhenRolledOut ==
  Held /\ DC.deleting => /\ \A n \in Node : label[n] \in {NoVersion, DC.version}
                         /\ Known(TRUE) => KnownDC.version = DC.version

\* "module and upgrade labels already deleted, removing finalizer": what
\* finalizeDeviceConfig says when it lets the DeviceConfig go.
NoLabelsLeft ==
  \A n \in Node : label[n] # NoVersion => Present("deviceConfig")

\* RemoveUpgradeLabels, which lists the nodes by the version it is asked for, leaves no
\* label behind, however often the version was edited before: so long as no edit and
\* no label of another version comes between the deletion and the listing.
LabelsRemoved == []DeletedWhenRolledOut => []NoLabelsLeft

\* With a Node informer that is never behind: a label has a DeviceConfig to remove it, by
\* the version it is of, and RemoveUpgradeLabels has all of them on its list.
LabelInv ==
  /\ cachedLabel = label
  /\ \A n \in Node : label[n] # NoVersion => Held
  /\ pc \in Finalizing /\ Held /\ (\E n \in Node : label[n] # NoVersion)
       => devConfig.version = DC.version
  /\ pc = "RemoveUpgradeLabels" => \A n \in Node : label[n] # NoVersion => n \in toUnlabel
  /\ pc = "removeFinalizer" => \A n \in Node : label[n] = NoVersion

-----------------------------------------------------------------------------
(* The life of a DeviceConfig *)

\* The deletion is noticed when the informer has it and nothing is at work that took the
\* DeviceConfig up before.
phase ==
  CASE ~Present("deviceConfig") -> "none"
    [] Present("deviceConfig") /\ ~DC.finalizer -> "new"
    [] Held /\ ~DC.deleting -> "held"
    [] Held /\ DC.deleting ->
         IF Known(TRUE) /\ pc \notin Handling \cup {"setFinalizer"} THEN "finalizing" ELSE "deleting"

installed == {kind \in {"module", "nodeMetrics"} : Present(kind)}
labelled == {n \in Node : label[n] # NoVersion}

Life == INSTANCE DeviceConfigLife WITH objects <- installed

\* Reconcile, with all that it does not see, can go wrong on or is interrupted by, is such
\* a life: nothing is made once the deletion is noticed, and what is made goes in order
\* before the DeviceConfig does.
ImplementsLife == Life!Spec
=============================================================================
