------------------- MODULE DeviceConfigController_proofs -------------------
(***************************************************************************)
(* The types and the hold on the DeviceConfig for any informers, and the   *)
(* finalizer's promises for those that the promise is told by.             *)
(***************************************************************************)
EXTENDS DeviceConfigController, TLAPS

USE BoundAssumption

TypedStore(objects) ==
  objects \in Objects /\ \A kind \in Kind : objects[kind] \in Object(kind) \cup {Nothing}

\* What Store writes, and queued.
StoreTypes == /\ TypedStore(api) /\ TypedStore(cache)
              /\ unseen \subseteq Kind \cup Node
              /\ queued \in BOOLEAN

LEMMA NothingIsNoObject ==
  /\ Nothing \notin DeviceConfig /\ Nothing \notin Module
  /\ \A kind \in Kind : Nothing \notin Object(kind)
<1>1. Nothing \notin DeviceConfig
  BY DEF Nothing, DeviceConfig
<1>2. Nothing \notin Module
  BY DEF Nothing, Module
<1>3. Nothing \notin ConfigMap /\ Nothing \notin Scheduler /\ Nothing \notin Workload
  BY DEF Nothing, ConfigMap, Scheduler, Workload
<1> QED BY <1>1, <1>2, <1>3 DEF Object

LEMMA TypedObjects ==
  ASSUME NEW objects, TypedStore(objects)
  PROVE  /\ objects["deviceConfig"] \in DeviceConfig \cup {Nothing}
         /\ objects["module"] \in Module \cup {Nothing}
BY DEF TypedStore, Kind, Owned, Object

LEMMA ReplacedEffect ==
  ASSUME TypedStore(api), NEW kind \in Kind, NEW object \in Object(kind) \cup {Nothing}
  PROVE  /\ TypedStore(Replaced(kind, object))
         /\ Replaced(kind, object)[kind] = object
         /\ \A other \in Kind \ {kind} : Replaced(kind, object)[other] = api[other]
<1>1. object \in {Nothing} \cup UNION {Object(k) : k \in Kind}
  OBVIOUS
<1> QED BY <1>1 DEF TypedStore, Replaced, Objects

\* An informer goes nowhere but to what the API server has, and one that is never behind
\* goes there at once.
InformersFollow ==
  \A kind \in Kind : /\ cache'[kind] \in {cache[kind], api'[kind]}
                     /\ kind \notin Lagging /\ cache[kind] = api[kind] => cache'[kind] = api'[kind]

LEMMA StoreEffect ==
  ASSUME StoreTypes, NEW objects, TypedStore(objects), NEW enqueued \in BOOLEAN,
         Store(objects, enqueued)
  PROVE  /\ StoreTypes'
         /\ api' = objects
         /\ InformersFollow
<1>1. api' = objects
  BY DEF Store
<1>2. TypedStore(cache')
  BY DEF Store, StoreTypes, TypedStore, Objects
<1>3. unseen' \subseteq Kind \cup Node
  BY DEF Store, StoreTypes
<1>4. queued' \in BOOLEAN
  BY DEF Store
<1>5. InformersFollow
  BY <1>1 DEF Store, InformersFollow
<1> QED BY <1>1, <1>2, <1>3, <1>4, <1>5 DEF StoreTypes, TypedStore

-----------------------------------------------------------------------------
(* What the handlers write *)

LEMMA DesiredTypes ==
  ASSUME NEW kind \in Owned, NEW object \in Object(kind) \cup {Nothing}, NEW d \in DeviceConfig,
         draSupport \in BOOLEAN, ~Refused(AsDesired(kind, object, d))
  PROVE  AsDesired(kind, object, d) \in Object(kind)
<1>0. /\ d.uid \in 1 .. MaxUid /\ d.image \in Image /\ d.version \in Version \cup {NoVersion}
      /\ DRADriverImage(d) \in Image \cup {NoImage}
      /\ DevicePluginImage(d) \in Image \cup {NoImage}
  BY DEF DeviceConfig, DRADriverImage, DevicePluginImage
<1>1. CASE kind = "module"
  <2> DEFINE found == IF object = Nothing
                        THEN [deleting |-> FALSE, plugin |-> NoImage, dra |-> NoImage] ELSE object
  <2>1. /\ found.deleting \in BOOLEAN
        /\ found.plugin \in Image \cup {NoImage} /\ found.dra \in Image \cup {NoImage}
    BY <1>1 DEF Object, Module
  <2> HIDE DEF found
  <2> DEFINE plugin == CASE DRADriverImage(d) # NoImage    -> NoImage
                         [] DevicePluginImage(d) # NoImage -> DevicePluginImage(d)
                         [] OTHER                          -> found.plugin
             dra == IF DRADriverImage(d) # NoImage THEN DRADriverImage(d) ELSE found.dra
  <2>2. plugin \in Image \cup {NoImage} /\ dra \in Image \cup {NoImage}
    BY <1>0, <2>1
  <2>3. AsDesired(kind, object, d) = [owner |-> d.uid, deleting |-> found.deleting,
                                      plugin |-> plugin, dra |-> dra, version |-> d.version]
    BY <1>1 DEF AsDesired, SetKMMModuleAsDesired, found
  <2> HIDE DEF plugin, dra
  <2> QED BY <1>0, <1>1, <2>1, <2>2, <2>3 DEF Object, Module
<1>2. CASE kind = "configMap"
  BY <1>0, <1>2 DEF AsDesired, SetBuildConfigMapAsDesired, Object, ConfigMap
<1>3. CASE kind = "scheduler"
  <2>1. AsDesired(kind, object, d) =
          [owner |-> d.uid, image |-> DevicePluginImage(d), gate |-> draSupport]
    BY <1>3 DEF AsDesired, SetCustomSchedulerAsDesired, CustomSchedulerImage
  <2>2. DevicePluginImage(d) \in Image
    BY <1>0, <2>1 DEF Refused
  <2> QED BY <1>0, <1>3, <2>1, <2>2 DEF Object, Scheduler
<1>4. CASE kind = "extension"
  <2>1. AsDesired(kind, object, d) = [owner |-> d.uid, image |-> DevicePluginImage(d)]
    BY <1>4 DEF AsDesired, SetCustomSchedulerExtensionAsDesired, SchedulerExtensionImage
  <2>2. DevicePluginImage(d) \in Image
    BY <1>0, <2>1 DEF Refused
  <2> QED BY <1>0, <1>4, <2>1, <2>2 DEF Object, Workload
<1>5. CASE kind = "nodeMetrics"
  BY <1>0, <1>5 DEF AsDesired, SetNodeMetricsAsDesired, Object, Workload
<1> QED BY <1>1, <1>2, <1>3, <1>4, <1>5 DEF Owned

LEMMA MergeTypes ==
  ASSUME NEW kind \in Owned,
         NEW current \in Object(kind), NEW old \in Object(kind), NEW new \in Object(kind)
  PROVE  MergeFrom(current, old, new) \in Object(kind)
<1>1. CASE kind = "module"
  BY <1>1 DEF MergeFrom, Object, Module
<1>2. CASE kind = "configMap"
  BY <1>2 DEF MergeFrom, Object, ConfigMap
<1>3. CASE kind = "scheduler"
  BY <1>3 DEF MergeFrom, Object, Scheduler
<1>4. CASE kind \in {"extension", "nodeMetrics"}
  BY <1>4 DEF MergeFrom, Object, Workload
<1> QED BY <1>1, <1>2, <1>3, <1>4 DEF Owned

\* CreateOrPatch fails, or goes on with nothing written but the one object.
LEMMA CreateOrPatchEffect ==
  ASSUME StoreTypes, NEW kind \in Owned, devConfig \in DeviceConfig, draSupport \in BOOLEAN,
         NEW ACTION next, CreateOrPatch(kind, next)
  PROVE  \/ ReturnErr
         \/ /\ next /\ StoreTypes'
            /\ \A other \in Kind \ {kind} : api'[other] = api[other]
            /\ InformersFollow
<1> DEFINE old == cache[kind]
           new == AsDesired(kind, old, devConfig)
<1> kind \in Kind
  BY DEF Kind
<1>0. old \in Object(kind) \cup {Nothing} /\ api[kind] \in Object(kind) \cup {Nothing}
  BY DEF StoreTypes, TypedStore
<1>1. ~Refused(new) => new \in Object(kind)
  BY <1>0, DesiredTypes
<1> HIDE DEF new
<1>2. CASE next /\ UNCHANGED <<objectStore, queued>>
  BY <1>2 DEF objectStore, StoreTypes, TypedStore, InformersFollow
<1>3. CASE ~Refused(new) /\ next /\ Store(Replaced(kind, new), queued)
  BY <1>1, <1>3, ReplacedEffect, StoreEffect DEF StoreTypes
<1>4. CASE /\ ~Refused(new) /\ old # Nothing /\ Present(kind)
           /\ next /\ Store(Replaced(kind, MergeFrom(api[kind], old, new)), queued)
  <2>1. MergeFrom(api[kind], old, new) \in Object(kind)
    BY <1>0, <1>1, <1>4, MergeTypes DEF Present
  <2> QED BY <1>4, <2>1, ReplacedEffect, StoreEffect DEF StoreTypes
<1> QED BY <1>2, <1>3, <1>4 DEF CreateOrPatch, new

-----------------------------------------------------------------------------
(* Types *)

\* What TypeOK says of the rest.
ReconcilerTypes ==
  /\ pc \in PC
  /\ devConfig \in DeviceConfig \cup {Nothing}
  /\ toUnlabel \subseteq Node
  /\ HasDeviceConfig

ControllerTypes == TypeOK /\ HasDeviceConfig

LEMMA TypesSplit ==
  ControllerTypes <=> /\ StoreTypes /\ ReconcilerTypes
                      /\ {label, cachedLabel} \subseteq [Node -> Version \cup {NoVersion}]
                      /\ draSupport \in BOOLEAN
                      /\ uid \in 0 .. MaxUid /\ events \in 0 .. MaxEvents
BY DEF ControllerTypes, TypeOK, StoreTypes, TypedStore, ReconcilerTypes

LEMMA DiscoveredTypes == Discovered \subseteq BOOLEAN
BY Zenon DEF Discovered

LEMMA ControllerInit == Init => ControllerTypes
<1> SUFFICES ASSUME Init PROVE ControllerTypes
  OBVIOUS
<1>1. api \in Objects /\ cache \in Objects
  BY DEF Init, Objects
<1>2. \A kind \in Kind : {api[kind], cache[kind]} \subseteq Object(kind) \cup {Nothing}
  BY DEF Init
<1>3. {label, cachedLabel} \subseteq [Node -> Version \cup {NoVersion}]
  BY DEF Init
<1>4. draSupport \in BOOLEAN
  BY DiscoveredTypes, Zenon DEF Init
<1>6. uid \in 0 .. MaxUid /\ events \in 0 .. MaxEvents
  BY DEF Init
<1>5. unseen = {} /\ queued = FALSE /\ pc = "idle" /\ devConfig = Nothing /\ toUnlabel = {}
  BY DEF Init
<1> QED BY <1>1, <1>2, <1>3, <1>4, <1>5, <1>6 DEF ControllerTypes, TypeOK, HasDeviceConfig, PC

\* Reconcile ends.
LEMMA ReturnTypes == Return => ReconcilerTypes'
BY DEF Return, ReconcilerTypes, HasDeviceConfig, PC

LEMMA GotoTypes ==
  ASSUME ReconcilerTypes, pc # "idle", NEW step \in PC \ {"idle"}, Goto(step)
  PROVE  ReconcilerTypes'
BY DEF Goto, ReconcilerTypes, HasDeviceConfig

LEMMA ReturnErrTypes == StoreTypes /\ ReturnErr => StoreTypes' /\ ReconcilerTypes'
BY ReturnTypes DEF ReturnErr, objectStore, StoreTypes, TypedStore

LEMMA StoreLabelTypes ==
  ASSUME ControllerTypes, NEW labels \in [Node -> Version \cup {NoVersion}], StoreLabel(labels),
         UNCHANGED <<api, cache>>
  PROVE  /\ StoreTypes'
         /\ {label, cachedLabel}' \subseteq [Node -> Version \cup {NoVersion}]
<1>1. unseen' \subseteq Kind \cup Node
  BY DEF ControllerTypes, TypeOK, StoreLabel
<1> QED BY <1>1, TypesSplit DEF StoreLabel, StoreTypes, TypedStore

LEMMA HandleTypes ==
  ASSUME ControllerTypes, NEW kind \in Owned, NEW step \in PC \ {"idle"}, NEW ACTION next,
         next => ReconcilerTypes', Handle(step, kind, next)
  PROVE  ControllerTypes'
<1>1. devConfig \in DeviceConfig
  BY DEF Handle, ControllerTypes, TypeOK, HasDeviceConfig
<1>2. StoreTypes /\ draSupport \in BOOLEAN
  BY TypesSplit
<1>3. StoreTypes' /\ ReconcilerTypes'
  BY <1>1, <1>2, CreateOrPatchEffect, ReturnErrTypes DEF Handle
<1> QED BY <1>3 DEF Handle, labelStore, ControllerTypes, TypeOK, StoreTypes, TypedStore, ReconcilerTypes

LEMMA HandlersTypes ==
  ASSUME ControllerTypes,
         handleBuildConfigMap \/ handleKMMModule \/ handleCustomScheduler \/ handleNodeMetrics
  PROVE  ControllerTypes'
<1> DEFINE steps == {"handleKMMModule", "handleModuleVersionUpgrade", "handleExtension", "handleNodeMetrics"}
<1>1. ASSUME NEW step \in steps, Goto(step), pc # "idle" PROVE ReconcilerTypes'
  BY <1>1, TypesSplit, GotoTypes DEF PC
<1>2. ASSUME handleBuildConfigMap PROVE ControllerTypes'
  <2>1. pc # "idle"
    BY <1>2 DEF handleBuildConfigMap, Handle
  <2> QED BY <1>1, <1>2, <2>1, HandleTypes DEF handleBuildConfigMap, PC, Owned
<1>3. ASSUME handleKMMModule PROVE ControllerTypes'
  <2>1. pc # "idle"
    BY <1>3 DEF handleKMMModule, Handle
  <2> QED BY <1>1, <1>3, <2>1, HandleTypes DEF handleKMMModule, PC, Owned
<1>4. ASSUME handleCustomScheduler PROVE ControllerTypes'
  <2>1. pc # "idle"
    BY <1>4 DEF handleCustomScheduler, Handle
  <2> QED BY <1>1, <1>4, <2>1, HandleTypes DEF handleCustomScheduler, PC, Owned
<1>5. ASSUME handleNodeMetrics PROVE ControllerTypes'
  BY <1>5, HandleTypes, ReturnTypes DEF handleNodeMetrics, PC, Owned
<1> QED BY <1>2, <1>3, <1>4, <1>5

LEMMA ReconcileTypes ==
  ASSUME ControllerTypes, Reconcile \/ setFinalizer \/ handleModuleVersionUpgrade
  PROVE  ControllerTypes'
<1> StoreTypes /\ ReconcilerTypes
  BY TypesSplit
<1>1. CASE Reconcile
  <2>1. cache["deviceConfig"] \in DeviceConfig \cup {Nothing}
    BY TypedObjects DEF StoreTypes
  <2>2. ReconcilerTypes'
    BY <1>1, <2>1 DEF Reconcile, ReconcilerTypes, HasDeviceConfig, PC
  <2>3. StoreTypes'
    BY <1>1 DEF Reconcile, objectStore, StoreTypes, TypedStore
  <2> QED BY <1>1, <2>2, <2>3
          DEF Reconcile, labelStore, ControllerTypes, TypeOK, StoreTypes, TypedStore, ReconcilerTypes
<1>2. CASE setFinalizer
  <2>1. StoreTypes' /\ ReconcilerTypes'
    <3>1. CASE devConfig.finalizer /\ Goto("handleBuildConfigMap") /\ UNCHANGED <<objectStore, queued>>
      <4>1. pc # "idle"
        BY <1>2 DEF setFinalizer
      <4>2. ReconcilerTypes'
        BY <3>1, <4>1, GotoTypes DEF PC
      <4> QED BY <3>1, <4>2 DEF objectStore, StoreTypes, TypedStore
    <3>2. CASE /\ Present("deviceConfig")
               /\ Store([api EXCEPT !["deviceConfig"].finalizer = TRUE], queued)
               /\ devConfig' = api'["deviceConfig"]
               /\ pc' = "handleBuildConfigMap"
               /\ UNCHANGED toUnlabel
      <4> DEFINE held == [DC EXCEPT !.finalizer = TRUE]
      <4>1. held \in DeviceConfig
        BY <3>2, TypedObjects DEF StoreTypes, Present, DC, DeviceConfig
      <4>2. [api EXCEPT !["deviceConfig"].finalizer = TRUE] = Replaced("deviceConfig", held)
        BY DEF Replaced, DC
      <4> HIDE DEF held
      <4>3. "deviceConfig" \in Kind /\ held \in Object("deviceConfig") \cup {Nothing}
        BY <4>1 DEF Kind, Object
      <4>4. /\ TypedStore(Replaced("deviceConfig", held))
            /\ Replaced("deviceConfig", held)["deviceConfig"] = held
        BY <4>3, ReplacedEffect DEF StoreTypes
      <4>5. StoreTypes' /\ api'["deviceConfig"] = held
        <5>1. Store(Replaced("deviceConfig", held), queued)
          BY <3>2, <4>2
        <5> QED BY <4>4, <5>1, StoreEffect DEF StoreTypes
      <4> QED BY <3>2, <4>1, <4>5, NothingIsNoObject DEF ReconcilerTypes, HasDeviceConfig, PC
    <3>3. CASE ReturnErr
      BY <3>3, ReturnErrTypes
    <3> QED BY <1>2, <3>1, <3>2, <3>3 DEF setFinalizer
  <2> QED BY <1>2, <2>1
          DEF setFinalizer, labelStore, ControllerTypes, TypeOK, StoreTypes, TypedStore, ReconcilerTypes
<1>3. CASE handleModuleVersionUpgrade
  <2>1. ReconcilerTypes'
    <3>1. pc # "idle"
      BY <1>3 DEF handleModuleVersionUpgrade
    <3> QED BY <1>3, <3>1, GotoTypes DEF handleModuleVersionUpgrade, PC
  <2>2. StoreTypes' /\ {label, cachedLabel}' \subseteq [Node -> Version \cup {NoVersion}]
    <3>1. CASE UNCHANGED <<labelStore, unseen, queued>>
      BY <1>3, <3>1 DEF handleModuleVersionUpgrade, labelStore, StoreTypes, TypedStore,
                        ControllerTypes, TypeOK
    <3>2. ASSUME NEW n \in Node, StoreLabel([label EXCEPT ![n] = devConfig.version])
          PROVE  StoreTypes' /\ {label, cachedLabel}' \subseteq [Node -> Version \cup {NoVersion}]
      <4>1. devConfig \in DeviceConfig
        BY <1>3 DEF handleModuleVersionUpgrade, ReconcilerTypes, HasDeviceConfig
      <4>2. [label EXCEPT ![n] = devConfig.version] \in [Node -> Version \cup {NoVersion}]
        BY <4>1 DEF ControllerTypes, TypeOK, DeviceConfig
      <4> QED BY <1>3, <3>2, <4>2, StoreLabelTypes DEF handleModuleVersionUpgrade
    <3> QED BY <1>3, <3>1, <3>2 DEF handleModuleVersionUpgrade
  <2> QED BY <1>3, <2>1, <2>2
          DEF handleModuleVersionUpgrade, ControllerTypes, TypeOK, StoreTypes, TypedStore, ReconcilerTypes
<1> QED BY <1>1, <1>2, <1>3

\* A deletion leaves an object of the kind, or none.
LEMMA DeletedEffect ==
  ASSUME TypedStore(api), NEW kind \in Kind, Present(kind)
  PROVE  /\ TypedStore(Deleted(kind))
         /\ kind # "module" => Deleted(kind)[kind] = Nothing
         /\ \A other \in Kind \ {kind} : Deleted(kind)[other] = api[other]
<1> DEFINE left == IF kind = "module" THEN [api[kind] EXCEPT !.deleting = TRUE] ELSE Nothing
<1>1. left \in Object(kind) \cup {Nothing} /\ (kind # "module" => left = Nothing)
  BY DEF Present, TypedStore, Object, Module
<1>2. Deleted(kind) = Replaced(kind, left)
  BY DEF Deleted
<1> HIDE DEF left
<1> QED BY <1>1, <1>2, ReplacedEffect

LEMMA FinalizeTypes ==
  ASSUME ControllerTypes, deleteNodeMetrics \/ deleteModule \/ RemoveUpgradeLabels \/ removeFinalizer
  PROVE  ControllerTypes'
<1> StoreTypes /\ ReconcilerTypes
  BY TypesSplit
<1>1. CASE deleteNodeMetrics
  <2>1. StoreTypes' /\ ReconcilerTypes'
    <3>1. CASE Goto("deleteModule") /\ UNCHANGED <<objectStore, queued>>
      <4>1. pc # "idle"
        BY <1>1 DEF deleteNodeMetrics
      <4>2. ReconcilerTypes'
        BY <3>1, <4>1, GotoTypes DEF PC
      <4> QED BY <3>1, <4>2 DEF objectStore, StoreTypes, TypedStore
    <3>2. CASE Present("nodeMetrics") /\ Return /\ Store(Deleted("nodeMetrics"), queued)
      BY <3>2, DeletedEffect, StoreEffect, ReturnTypes DEF StoreTypes, Kind, Owned
    <3>3. CASE ReturnErr
      BY <3>3, ReturnErrTypes
    <3> QED BY <1>1, <3>1, <3>2, <3>3 DEF deleteNodeMetrics
  <2> QED BY <1>1, <2>1
          DEF deleteNodeMetrics, labelStore, ControllerTypes, TypeOK, StoreTypes, TypedStore, ReconcilerTypes
<1>2. CASE deleteModule
  <2>1. StoreTypes' /\ ReconcilerTypes'
    <3>1. CASE /\ pc' = "RemoveUpgradeLabels"
               /\ toUnlabel' = upgradeLabelled(devConfig)
               /\ UNCHANGED <<objectStore, queued, devConfig>>
      BY <1>2, <3>1 DEF deleteModule, objectStore, StoreTypes, TypedStore, ReconcilerTypes,
                        HasDeviceConfig, upgradeLabelled, PC
    <3>2. CASE /\ Return
               /\ Store(IF Present("module") THEN Deleted("module") ELSE api, queued)
      <4>1. TypedStore(IF Present("module") THEN Deleted("module") ELSE api)
        BY DeletedEffect DEF StoreTypes, Kind, Owned
      <4> QED BY <3>2, <4>1, StoreEffect, ReturnTypes DEF StoreTypes
    <3> QED BY <1>2, <3>1, <3>2 DEF deleteModule
  <2> QED BY <1>2, <2>1
          DEF deleteModule, labelStore, ControllerTypes, TypeOK, StoreTypes, TypedStore, ReconcilerTypes
<1>3. CASE RemoveUpgradeLabels
  <2>1. ReconcilerTypes'
    BY <1>3 DEF RemoveUpgradeLabels, Goto, ReconcilerTypes, HasDeviceConfig, PC
  <2>2. StoreTypes' /\ {label, cachedLabel}' \subseteq [Node -> Version \cup {NoVersion}]
    <3>1. CASE UNCHANGED <<labelStore, unseen, queued>>
      BY <1>3, <3>1 DEF RemoveUpgradeLabels, labelStore, StoreTypes, TypedStore, ControllerTypes, TypeOK
    <3>2. ASSUME NEW n \in Node, StoreLabel([label EXCEPT ![n] = NoVersion])
          PROVE  StoreTypes' /\ {label, cachedLabel}' \subseteq [Node -> Version \cup {NoVersion}]
      <4>1. [label EXCEPT ![n] = NoVersion] \in [Node -> Version \cup {NoVersion}]
        BY DEF ControllerTypes, TypeOK
      <4> QED BY <1>3, <3>2, <4>1, StoreLabelTypes DEF RemoveUpgradeLabels
    <3> QED BY <1>3, <3>1, <3>2 DEF RemoveUpgradeLabels, ReconcilerTypes
  <2> QED BY <1>3, <2>1, <2>2
          DEF RemoveUpgradeLabels, ControllerTypes, TypeOK, StoreTypes, TypedStore, ReconcilerTypes
<1>4. CASE removeFinalizer
  <2>1. StoreTypes' /\ ReconcilerTypes'
    <3>1. CASE /\ Present("deviceConfig") /\ Return
               /\ Store(Replaced("deviceConfig",
                       IF DC.deleting THEN Nothing ELSE [DC EXCEPT !.finalizer = FALSE]), queued)
      <4>1. (IF DC.deleting THEN Nothing ELSE [DC EXCEPT !.finalizer = FALSE])
              \in Object("deviceConfig") \cup {Nothing}
        BY <3>1, TypedObjects DEF StoreTypes, Present, DC, DeviceConfig, Object
      <4> QED BY <3>1, <4>1, ReplacedEffect, StoreEffect, ReturnTypes DEF StoreTypes, Kind
    <3>2. CASE ReturnErr
      BY <3>2, ReturnErrTypes
    <3> QED BY <1>4, <3>1, <3>2 DEF removeFinalizer
  <2> QED BY <1>4, <2>1
          DEF removeFinalizer, labelStore, ControllerTypes, TypeOK, StoreTypes, TypedStore, ReconcilerTypes
<1> QED BY <1>1, <1>2, <1>3, <1>4

LEMMA FailureTypes ==
  ASSUME ControllerTypes, CallFails \/ Crash PROVE ControllerTypes'
<1> StoreTypes /\ ReconcilerTypes
  BY TypesSplit
<1>1. CASE CallFails
  <2>1. StoreTypes' /\ ReconcilerTypes'
    BY <1>1, ReturnErrTypes DEF CallFails
  <2>2. events' \in 0 .. MaxEvents
    BY <1>1 DEF CallFails, Happen, ControllerTypes, TypeOK
  <2> QED BY <1>1, <2>1, <2>2
          DEF CallFails, labelStore, ControllerTypes, TypeOK, StoreTypes, TypedStore, ReconcilerTypes
<1>2. CASE Crash
  <2>1. StoreTypes' /\ ReconcilerTypes'
    BY <1>2, ReturnTypes DEF Crash, StoreTypes, TypedStore
  <2>2. events' \in 0 .. MaxEvents
    BY <1>2 DEF Crash, Happen, ControllerTypes, TypeOK
  <2>3. draSupport' \in BOOLEAN
    BY <1>2, DiscoveredTypes, Zenon DEF Crash
  <2> QED BY <1>2, <2>1, <2>2, <2>3
          DEF Crash, ControllerTypes, TypeOK, StoreTypes, TypedStore, ReconcilerTypes
<1> QED BY <1>1, <1>2

LEMMA InformerTypes ==
  ASSUME ControllerTypes,
         (\E kind \in Kind : ObjectEvent(kind)) \/ (\E n \in Node : NodeEvent(n))
  PROVE  ControllerTypes'
<1>1. ASSUME NEW kind \in Kind, ObjectEvent(kind) PROVE ControllerTypes'
  <2>1. TypedStore(cache')
    BY <1>1 DEF ObjectEvent, ControllerTypes, TypeOK, TypedStore, Objects
  <2> QED BY <1>1, <2>1
          DEF ObjectEvent, labelStore, reconciler, ControllerTypes, TypeOK, TypedStore, HasDeviceConfig
<1>2. ASSUME NEW n \in Node, NodeEvent(n) PROVE ControllerTypes'
  <2>1. cachedLabel' \in [Node -> Version \cup {NoVersion}]
    BY <1>2 DEF NodeEvent, ControllerTypes, TypeOK
  <2> QED BY <1>2, <2>1 DEF NodeEvent, reconciler, ControllerTypes, TypeOK, HasDeviceConfig
<1> QED BY <1>1, <1>2

\* What the others write is an object of its kind, and of the other kinds nothing.
OthersWrite(kinds) ==
  /\ StoreTypes'
  /\ \A kind \in Kind \ kinds : api'[kind] = api[kind]
  /\ InformersFollow

LEMMA KMMEffect ==
  ASSUME StoreTypes, KMMFinalize PROVE OthersWrite({"module"}) /\ api'["module"] = Nothing
<1>1. "module" \in Kind
  BY DEF Kind, Owned
<1>2. TypedStore(Replaced("module", Nothing)) /\ Replaced("module", Nothing)["module"] = Nothing
      /\ \A kind \in Kind \ {"module"} : Replaced("module", Nothing)[kind] = api[kind]
  BY <1>1, ReplacedEffect DEF StoreTypes
<1> QED BY <1>2, StoreEffect DEF KMMFinalize, OthersWrite, StoreTypes

LEMMA DeletionEffect ==
  ASSUME StoreTypes, NEW kind \in Owned, GarbageCollect(kind) \/ DeleteOwned(kind)
  PROVE  OthersWrite({kind}) /\ Present(kind)
<1>1. kind \in Kind /\ Present(kind)
  BY DEF Kind, GarbageCollect, DeleteOwned
<1>2. TypedStore(Deleted(kind)) /\ \A other \in Kind \ {kind} : Deleted(kind)[other] = api[other]
  BY <1>1, DeletedEffect DEF StoreTypes
<1> QED BY <1>1, <1>2, StoreEffect DEF GarbageCollect, DeleteOwned, OthersWrite, StoreTypes

\* What users make of a DeviceConfig.
UserWrite(dc) ==
  /\ OthersWrite({"deviceConfig"})
  /\ dc \in DeviceConfig \cup {Nothing}
  /\ api'["deviceConfig"] = dc

LEMMA DeviceConfigEffect ==
  ASSUME StoreTypes, NEW dc \in DeviceConfig \cup {Nothing},
         Store(Replaced("deviceConfig", dc), queued)
  PROVE  UserWrite(dc)
<1>1. "deviceConfig" \in Kind /\ dc \in Object("deviceConfig") \cup {Nothing}
  BY DEF Kind, Object
<1>2. /\ TypedStore(Replaced("deviceConfig", dc)) /\ Replaced("deviceConfig", dc)["deviceConfig"] = dc
      /\ \A kind \in Kind \ {"deviceConfig"} : Replaced("deviceConfig", dc)[kind] = api[kind]
  BY <1>1, ReplacedEffect DEF StoreTypes
<1> QED BY <1>2, StoreEffect DEF OthersWrite, UserWrite, StoreTypes

LEMMA CreateEffect ==
  ASSUME ControllerTypes, CreateDeviceConfig
  PROVE  /\ uid' \in 0 .. MaxUid
         /\ \E dc \in DeviceConfig : UserWrite(dc) /\ ~dc.deleting /\ ~dc.finalizer
<1>1. PICK mode \in Modes, image \in Image, version \in Version \cup {NoVersion} :
        Store(Replaced("deviceConfig", [uid |-> uid + 1, finalizer |-> FALSE, deleting |-> FALSE,
                                        mode |-> mode, image |-> image, version |-> version]), queued)
  BY DEF CreateDeviceConfig
<1> DEFINE dc == [uid |-> uid + 1, finalizer |-> FALSE, deleting |-> FALSE,
                  mode |-> mode, image |-> image, version |-> version]
<1>2. uid + 1 \in 1 .. MaxUid
  BY DEF CreateDeviceConfig, ControllerTypes, TypeOK
<1>3. dc \in DeviceConfig /\ ~dc.deleting /\ ~dc.finalizer
  BY <1>2 DEF DeviceConfig
<1> HIDE DEF dc
<1>4. Store(Replaced("deviceConfig", dc), queued)
  BY <1>1 DEF dc
<1>5. UserWrite(dc)
  BY <1>3, <1>4, TypesSplit, DeviceConfigEffect
<1>6. uid' \in 0 .. MaxUid
  BY <1>2 DEF CreateDeviceConfig, ControllerTypes, TypeOK
<1> QED BY <1>3, <1>5, <1>6

LEMMA EditEffect ==
  ASSUME ControllerTypes, EditDeviceConfig
  PROVE  /\ Present("deviceConfig")
         /\ \E dc \in DeviceConfig :
              /\ UserWrite(dc)
              /\ dc.deleting = DC.deleting /\ dc.finalizer = DC.finalizer
<1>0. DC \in DeviceConfig /\ Present("deviceConfig")
  BY TypesSplit, TypedObjects DEF EditDeviceConfig, Present, DC, StoreTypes
<1>1. PICK mode \in Modes, image \in Image, version \in Version \cup {NoVersion} :
        Store(Replaced("deviceConfig",
                       [DC EXCEPT !.mode = mode, !.image = image, !.version = version]), queued)
  BY DEF EditDeviceConfig
<1> DEFINE dc == [DC EXCEPT !.mode = mode, !.image = image, !.version = version]
<1>2. dc \in DeviceConfig /\ dc.deleting = DC.deleting /\ dc.finalizer = DC.finalizer
  BY <1>0 DEF DeviceConfig
<1> HIDE DEF dc
<1>4. Store(Replaced("deviceConfig", dc), queued)
  BY <1>1 DEF dc
<1>5. UserWrite(dc)
  BY <1>2, <1>4, TypesSplit, DeviceConfigEffect
<1> QED BY <1>0, <1>2, <1>5

LEMMA DeleteEffect ==
  ASSUME ControllerTypes, DeleteDeviceConfig
  PROVE  /\ DC \in DeviceConfig /\ Present("deviceConfig")
         /\ \/ ~DC.finalizer /\ UserWrite(Nothing)
            \/ /\ DC.finalizer
               /\ \E dc \in DeviceConfig : UserWrite(dc) /\ dc.finalizer /\ dc.deleting
<1>0. DC \in DeviceConfig /\ Present("deviceConfig")
  BY TypesSplit, TypedObjects DEF DeleteDeviceConfig, Present, DC, StoreTypes
<1>1. CASE ~DC.finalizer
  <2>1. Store(Replaced("deviceConfig", Nothing), queued)
    BY <1>1 DEF DeleteDeviceConfig
  <2> QED BY <1>0, <1>1, <2>1, TypesSplit, DeviceConfigEffect
<1>2. CASE DC.finalizer
  <2> DEFINE dc == [DC EXCEPT !.deleting = TRUE]
  <2>1. dc \in DeviceConfig /\ dc.finalizer /\ dc.deleting
    BY <1>0, <1>2 DEF DeviceConfig
  <2> HIDE DEF dc
  <2>2. Store(Replaced("deviceConfig", dc), queued)
    BY <1>2 DEF DeleteDeviceConfig, dc
  <2>3. UserWrite(dc)
    BY <2>1, <2>2, TypesSplit, DeviceConfigEffect
  <2> QED BY <1>0, <1>2, <2>1, <2>3
<1> QED BY <1>0, <1>1, <1>2 DEF DeviceConfig

LEMMA OthersTypes ==
  ASSUME ControllerTypes,
         \/ KMMFinalize
         \/ \E kind \in Owned : GarbageCollect(kind) \/ DeleteOwned(kind)
         \/ CreateDeviceConfig \/ EditDeviceConfig \/ DeleteDeviceConfig
  PROVE  ControllerTypes'
<1>1. StoreTypes'
  BY TypesSplit, KMMEffect, DeletionEffect, CreateEffect, EditEffect, DeleteEffect
     DEF UserWrite, OthersWrite
<1>2. uid' \in 0 .. MaxUid
  BY CreateEffect DEF KMMFinalize, GarbageCollect, DeleteOwned, EditDeviceConfig, DeleteDeviceConfig,
                      ControllerTypes, TypeOK
<1>3. events' \in 0 .. MaxEvents
  <2>1. events' = events \/ Happen
    BY DEF KMMFinalize, GarbageCollect, DeleteOwned, CreateDeviceConfig, EditDeviceConfig,
           DeleteDeviceConfig
  <2> QED BY <2>1 DEF Happen, ControllerTypes, TypeOK
<1>4. UNCHANGED <<label, cachedLabel, pc, devConfig, toUnlabel, draSupport>>
  BY DEF KMMFinalize, GarbageCollect, DeleteOwned, CreateDeviceConfig, EditDeviceConfig,
         DeleteDeviceConfig, Others, labelStore, reconciler
<1> QED BY <1>1, <1>2, <1>3, <1>4 DEF ControllerTypes, TypeOK, StoreTypes, TypedStore, HasDeviceConfig

LEMMA ControllerStep == ControllerTypes /\ [Next]_vars => ControllerTypes'
<1> SUFFICES ASSUME ControllerTypes, [Next]_vars PROVE ControllerTypes'
  OBVIOUS
<1>1. CASE ReconcileStep
  BY <1>1, ReconcileTypes, HandlersTypes, FinalizeTypes DEF ReconcileStep
<1>2. CASE CallFails \/ Crash
  BY <1>2, FailureTypes
<1>3. CASE (\E kind \in Kind : ObjectEvent(kind)) \/ (\E n \in Node : NodeEvent(n))
  BY <1>3, InformerTypes
<1>4. CASE \/ KMMFinalize
           \/ \E kind \in Owned : GarbageCollect(kind) \/ DeleteOwned(kind)
           \/ CreateDeviceConfig \/ EditDeviceConfig \/ DeleteDeviceConfig
  BY <1>4, OthersTypes
<1>5. CASE UNCHANGED vars
  BY <1>5 DEF vars, objectStore, labelStore, reconciler, ControllerTypes, TypeOK, HasDeviceConfig
<1> QED BY <1>1, <1>2, <1>3, <1>4, <1>5 DEF Next

LEMMA ControllerTypeInvariant == Spec => []ControllerTypes
BY ControllerInit, ControllerStep, PTL DEF Spec

\* Whatever the informers have yet to see, no patch makes one kind of object into
\* another, and between two Reconciles nothing is held.
THEOREM TypeCorrect == Spec => []TypeOK
<1>1. ControllerTypes => TypeOK
  BY DEF ControllerTypes
<1> QED BY <1>1, ControllerTypeInvariant, PTL

-----------------------------------------------------------------------------
(* What a step does to the DeviceConfig, to Reconcile and to the objects *)

LEMMA SetFinalizerEffect ==
  ASSUME ControllerTypes, setFinalizer
  PROVE  \/ devConfig.finalizer /\ Goto("handleBuildConfigMap") /\ UNCHANGED <<objectStore, queued>>
         \/ ReturnErr
         \/ \E dc \in DeviceConfig :
              /\ Present("deviceConfig") /\ UserWrite(dc)
              /\ dc.finalizer /\ dc.deleting = DC.deleting
              /\ devConfig' = dc /\ pc' = "handleBuildConfigMap"
<1> DEFINE dc == [DC EXCEPT !.finalizer = TRUE]
<1>1. CASE /\ Present("deviceConfig")
           /\ Store([api EXCEPT !["deviceConfig"].finalizer = TRUE], queued)
           /\ devConfig' = api'["deviceConfig"] /\ pc' = "handleBuildConfigMap"
  <2>1. DC \in DeviceConfig
    BY <1>1, TypesSplit, TypedObjects DEF StoreTypes, Present, DC
  <2>2. dc \in DeviceConfig /\ dc.finalizer /\ dc.deleting = DC.deleting
    BY <2>1 DEF DeviceConfig
  <2>3. Store(Replaced("deviceConfig", dc), queued)
    BY <1>1 DEF Replaced, DC
  <2> HIDE DEF dc
  <2>4. UserWrite(dc)
    BY <2>2, <2>3, TypesSplit, DeviceConfigEffect
  <2> QED BY <1>1, <2>2, <2>4 DEF UserWrite
<1> QED BY <1>1 DEF setFinalizer

\* What is left of the DeviceConfig without its finalizer.
LetGo(dc) ==
  IF DC.deleting THEN dc = Nothing ELSE dc # Nothing /\ ~dc.finalizer /\ ~dc.deleting

LEMMA RemoveFinalizerEffect ==
  ASSUME ControllerTypes, removeFinalizer
  PROVE  \/ ReturnErr
         \/ /\ Present("deviceConfig") /\ Return
            /\ \E dc \in DeviceConfig \cup {Nothing} : UserWrite(dc) /\ LetGo(dc)
<1> DEFINE left == IF DC.deleting THEN Nothing ELSE [DC EXCEPT !.finalizer = FALSE]
<1>1. CASE Present("deviceConfig") /\ Return /\ Store(Replaced("deviceConfig", left), queued)
  <2>1. /\ left \in DeviceConfig \cup {Nothing}
        /\ LetGo(left)
    BY <1>1, TypesSplit, TypedObjects, NothingIsNoObject DEF StoreTypes, Present, DC, DeviceConfig, LetGo
  <2> HIDE DEF left
  <2>2. UserWrite(left)
    BY <1>1, <2>1, TypesSplit, DeviceConfigEffect
  <2> QED BY <1>1, <2>1, <2>2
<1> QED BY <1>1 DEF removeFinalizer

\* The handlers go on with nothing written but an owned object, or fail.
LEMMA HandlersEffect ==
  ASSUME ControllerTypes,
         handleBuildConfigMap \/ handleKMMModule \/ handleCustomScheduler \/ handleNodeMetrics
  PROVE  /\ pc \in Handling /\ UNCHANGED labelStore
         /\ \/ ReturnErr
            \/ /\ pc' = "idle" \/ (pc' \in Handling /\ devConfig' = devConfig)
               /\ \E kind \in Owned : OthersWrite({kind})
<1> DEFINE Goes == pc' = "idle" \/ (pc' \in Handling /\ devConfig' = devConfig)
<1>1. ASSUME NEW step \in Handling, Goto(step) PROVE Goes
  BY <1>1 DEF Goto
<1>2. Return => Goes
  BY DEF Return
<1>3. /\ {"handleBuildConfigMap", "handleKMMModule", "handleModuleVersionUpgrade", "handleScheduler",
          "handleExtension", "handleNodeMetrics"} \subseteq Handling
      /\ {"configMap", "module", "scheduler", "extension", "nodeMetrics"} \subseteq Owned
  BY DEF Handling, PC, Finalizing, Owned
<1> HIDE DEF Goes
<1>4. ASSUME NEW kind \in Owned, NEW step \in Handling, NEW ACTION next, next => Goes,
             Handle(step, kind, next)
      PROVE  /\ pc \in Handling /\ UNCHANGED labelStore
             /\ ReturnErr \/ (Goes /\ \E other \in Owned : OthersWrite({other}))
  <2>1. StoreTypes /\ devConfig \in DeviceConfig /\ draSupport \in BOOLEAN
    BY <1>4, TypesSplit DEF Handle, Handling, ReconcilerTypes, HasDeviceConfig
  <2>2. ReturnErr \/ (next /\ OthersWrite({kind}))
    BY <1>4, <2>1, CreateOrPatchEffect DEF Handle, OthersWrite
  <2> QED BY <1>4, <2>2 DEF Handle
<1> QED BY <1>1, <1>2, <1>3, <1>4
        DEF handleBuildConfigMap, handleKMMModule, handleCustomScheduler, handleNodeMetrics, Goes

\* finalizeDeviceConfig deletes an object and returns, fails, or finds nothing to delete
\* and goes on.
LEMMA DeleteObjectEffect ==
  ASSUME ControllerTypes, deleteNodeMetrics \/ deleteModule
  PROVE  /\ UNCHANGED labelStore
         /\ \/ /\ deleteNodeMetrics /\ cache["nodeMetrics"] = Nothing /\ pc' = "deleteModule"
               /\ UNCHANGED <<objectStore, devConfig>>
            \/ /\ deleteModule /\ cache["module"] = Nothing /\ pc' = "RemoveUpgradeLabels"
               /\ toUnlabel' = upgradeLabelled(devConfig) /\ UNCHANGED <<objectStore, devConfig>>
            \/ /\ Return
               /\ \E kind \in Owned : OthersWrite({kind}) /\ (api'[kind] # Nothing => Present(kind))
            \/ ReturnErr
<1>0. StoreTypes
  BY TypesSplit
<1>1. ASSUME NEW kind \in {"nodeMetrics", "module"}, Present(kind), Store(Deleted(kind), queued)
      PROVE  OthersWrite({kind}) /\ (api'[kind] # Nothing => Present(kind))
  <2>1. kind \in Kind
    BY DEF Kind, Owned
  <2>2. TypedStore(Deleted(kind)) /\ \A other \in Kind \ {kind} : Deleted(kind)[other] = api[other]
    BY <1>0, <1>1, <2>1, DeletedEffect DEF StoreTypes
  <2> QED BY <1>0, <1>1, <2>2, StoreEffect DEF OthersWrite, StoreTypes
<1>2. ASSUME Store(api, queued), ~Present("module")
      PROVE  OthersWrite({"module"}) /\ (api'["module"] # Nothing => Present("module"))
  BY <1>0, <1>2, StoreEffect DEF OthersWrite, StoreTypes, Present
<1>3. {"nodeMetrics", "module"} \subseteq Owned
  BY DEF Owned
<1>4. CASE deleteNodeMetrics
  BY <1>1, <1>3, <1>4 DEF deleteNodeMetrics, Goto
<1>5. CASE deleteModule
  <2>1. CASE cache["module"] = Nothing
    BY <1>5, <2>1 DEF deleteModule
  <2>2. CASE cache["module"] # Nothing
    <3>1. /\ Return /\ UNCHANGED labelStore
          /\ \/ Present("module") /\ Store(Deleted("module"), queued)
             \/ ~Present("module") /\ Store(api, queued)
      BY <1>5, <2>2 DEF deleteModule
    <3> QED BY <1>1, <1>2, <1>3, <3>1
  <2> QED BY <2>1, <2>2
<1> QED BY <1>4, <1>5

-----------------------------------------------------------------------------
(* The steps of the controller, as far as the finalizer and the labels go *)

Only(kind) == \A other \in Kind \ {kind} : api'[other] = api[other]

Stands == UNCHANGED <<api, label, reconciler>>

GivesUp == Return /\ UNCHANGED <<api, label>>

Takes ==
  /\ pc = "idle" /\ UNCHANGED <<api, cache, label>>
  /\ devConfig' = KnownDC
  /\ pc' = CASE KnownDC = Nothing -> "idle"
             [] Known(TRUE) -> "deleteNodeMetrics"
             [] OTHER -> "setFinalizer"

Holds ==
  /\ pc = "setFinalizer" /\ pc' = "handleBuildConfigMap" /\ UNCHANGED label
  /\ Only("deviceConfig") /\ Present("deviceConfig")
  /\ devConfig' = api'["deviceConfig"] /\ devConfig' \in DeviceConfig
  /\ devConfig'.finalizer
  /\ devConfig'.deleting = DC.deleting

Handles ==
  /\ FinalizerSeen /\ UNCHANGED label
  /\ pc' = "idle" \/ (pc' \in Handling /\ devConfig' = devConfig)
  /\ \E kind \in Owned : Only(kind)

Labels ==
  /\ pc \in Handling /\ pc' \in Handling /\ UNCHANGED <<api, devConfig>>
  /\ devConfig.version # NoVersion
  /\ \E n \in Node : label' = [label EXCEPT ![n] = devConfig.version]

Deletes ==
  /\ Return /\ UNCHANGED label
  /\ \E kind \in Owned : Only(kind) /\ (api'[kind] # Nothing => Present(kind))

FindsNone(kind, step, next) ==
  /\ pc = step /\ pc' = next /\ cache[kind] = Nothing
  /\ UNCHANGED <<api, label, cachedLabel, devConfig>>
  /\ next = "RemoveUpgradeLabels" => toUnlabel' = upgradeLabelled(devConfig)

Unlabels ==
  /\ pc = "RemoveUpgradeLabels" /\ UNCHANGED <<api, devConfig>>
  /\ \/ /\ toUnlabel = {} /\ pc' = "removeFinalizer" /\ UNCHANGED label
     \/ /\ UNCHANGED pc
        /\ \E n \in toUnlabel : /\ label' = [label EXCEPT ![n] = NoVersion]
                                /\ toUnlabel' = toUnlabel \ {n}

LetsGo ==
  /\ pc = "removeFinalizer" /\ Return /\ UNCHANGED label
  /\ Present("deviceConfig") /\ Only("deviceConfig")
  /\ \E dc \in DeviceConfig \cup {Nothing} :
       api'["deviceConfig"] = dc /\ LetGo(dc)

ObjectGoes ==
  /\ UNCHANGED <<label, reconciler>>
  /\ \E kind \in Owned : Present(kind) /\ Only(kind)

UserMakes(dc) ==
  \/ ~Present("deviceConfig") /\ dc # Nothing /\ ~dc.finalizer /\ ~dc.deleting
  \/ /\ Present("deviceConfig") /\ dc # Nothing
     /\ dc.finalizer = DC.finalizer /\ dc.deleting = DC.deleting
  \/ Present("deviceConfig") /\ ~DC.finalizer /\ dc = Nothing
  \/ /\ Present("deviceConfig") /\ dc # Nothing
     /\ DC.finalizer /\ dc.finalizer /\ dc.deleting

UserActs ==
  /\ UNCHANGED <<label, reconciler>>
  /\ Only("deviceConfig") /\ UserMakes(api'["deviceConfig"])

Moves ==
  \/ Stands \/ GivesUp \/ Takes \/ Holds \/ Handles \/ Labels \/ Deletes
  \/ FindsNone("nodeMetrics", "deleteNodeMetrics", "deleteModule")
  \/ FindsNone("module", "deleteModule", "RemoveUpgradeLabels")
  \/ Unlabels \/ LetsGo \/ ObjectGoes \/ UserActs

\* The labels are not the business of the steps that write objects.
LEMMA ReconcileMoves ==
  ASSUME ControllerTypes, ReconcileStep
  PROVE  Moves /\ InformersFollow
<1>0. StoreTypes /\ {label, cachedLabel} \subseteq [Node -> Version \cup {NoVersion}]
  BY TypesSplit
<1>a. ReturnErr /\ UNCHANGED labelStore => GivesUp /\ InformersFollow
  BY DEF ReturnErr, objectStore, labelStore, GivesUp, InformersFollow
<1>b. ASSUME NEW kind \in Kind, OthersWrite({kind}) PROVE Only(kind) /\ InformersFollow
  BY <1>b DEF OthersWrite, Only
<1>c. Owned \subseteq Kind /\ "deviceConfig" \in Kind
  BY DEF Kind
<1>1. CASE Reconcile
  BY <1>1 DEF Reconcile, Takes, Known, KnownDC, objectStore, labelStore, InformersFollow, Moves
<1>2. CASE setFinalizer
  <2>0. pc = "setFinalizer" /\ UNCHANGED labelStore
    BY <1>2 DEF setFinalizer
  <2>1. CASE devConfig.finalizer /\ Goto("handleBuildConfigMap") /\ UNCHANGED <<objectStore, queued>>
    <3>1. Handles
      BY <2>0, <2>1 DEF Handles, Goto, Only, FinalizerSeen, Handling, PC, Finalizing, Owned, objectStore, labelStore
    <3> QED BY <2>1, <3>1 DEF objectStore, InformersFollow, Moves
  <2>2. ASSUME NEW dc \in DeviceConfig, Present("deviceConfig"), UserWrite(dc),
               dc.finalizer, dc.deleting = DC.deleting,
               devConfig' = dc, pc' = "handleBuildConfigMap"
        PROVE  Holds /\ InformersFollow
    BY <1>b, <1>c, <2>0, <2>2 DEF UserWrite, Holds, labelStore
  <2> QED BY <1>2, <1>a, <2>0, <2>1, <2>2, SetFinalizerEffect DEF Moves
<1>3. CASE handleBuildConfigMap \/ handleKMMModule \/ handleCustomScheduler \/ handleNodeMetrics
  <2>1. CASE /\ pc \in Handling /\ UNCHANGED labelStore
             /\ pc' = "idle" \/ (pc' \in Handling /\ devConfig' = devConfig)
             /\ \E kind \in Owned : OthersWrite({kind})
    BY <1>b, <1>c, <2>1 DEF Handles, FinalizerSeen, labelStore, Moves
  <2> QED BY <1>3, <1>a, <2>1, HandlersEffect DEF Moves
<1>4. CASE handleModuleVersionUpgrade
  <2>1. /\ pc \in Handling /\ pc' \in Handling /\ UNCHANGED <<api, cache, devConfig>>
        /\ \/ UNCHANGED label
           \/ /\ devConfig.version # NoVersion
              /\ \E n \in Node : label' = [label EXCEPT ![n] = devConfig.version]
    BY <1>4 DEF handleModuleVersionUpgrade, Goto, Handling, PC, Finalizing, StoreLabel, labelStore
  <2>2. Handles \/ Labels
    <3>1. "module" \in Owned /\ Only("module")
      BY <2>1 DEF Owned, Only
    <3> QED BY <2>1, <3>1 DEF Handles, Labels, FinalizerSeen
  <2>3. InformersFollow
    BY <2>1 DEF InformersFollow
  <2> QED BY <2>2, <2>3 DEF Moves
<1>5. CASE deleteNodeMetrics \/ deleteModule
  <2>1. CASE /\ Return /\ UNCHANGED labelStore
             /\ \E kind \in Owned : OthersWrite({kind}) /\ (api'[kind] # Nothing => Present(kind))
    BY <1>b, <1>c, <2>1 DEF Deletes, labelStore, Moves
  <2>2. CASE /\ UNCHANGED labelStore
             /\ \/ /\ deleteNodeMetrics /\ cache["nodeMetrics"] = Nothing /\ pc' = "deleteModule"
                   /\ UNCHANGED <<objectStore, devConfig>>
                \/ /\ deleteModule /\ cache["module"] = Nothing /\ pc' = "RemoveUpgradeLabels"
                   /\ toUnlabel' = upgradeLabelled(devConfig) /\ UNCHANGED <<objectStore, devConfig>>
    BY <2>2 DEF deleteNodeMetrics, deleteModule, FindsNone, objectStore, labelStore, InformersFollow, Moves
  <2> QED BY <1>5, <1>a, <2>1, <2>2, DeleteObjectEffect DEF Moves
<1>6. CASE RemoveUpgradeLabels
  BY <1>6 DEF RemoveUpgradeLabels, Goto, StoreLabel, labelStore, Unlabels, InformersFollow, Moves
<1>7. CASE removeFinalizer
  <2>0. pc = "removeFinalizer" /\ UNCHANGED labelStore
    BY <1>7 DEF removeFinalizer
  <2>1. ASSUME NEW dc \in DeviceConfig \cup {Nothing}, Present("deviceConfig"), UserWrite(dc),
               Return, LetGo(dc)
        PROVE  LetsGo /\ InformersFollow
    BY <1>b, <1>c, <2>0, <2>1 DEF UserWrite, LetsGo, labelStore
  <2> QED BY <1>7, <1>a, <2>0, <2>1, RemoveFinalizerEffect DEF Moves
<1> QED BY <1>1, <1>2, <1>3, <1>4, <1>5, <1>6, <1>7 DEF ReconcileStep

LEMMA StepMoves ==
  ASSUME ControllerTypes, [Next]_vars
  PROVE  Moves /\ InformersFollow
<1>a. Owned \subseteq Kind /\ "deviceConfig" \in Kind
  BY DEF Kind
<1>1. CASE ReconcileStep
  BY <1>1, ReconcileMoves
<1>2. CASE CallFails \/ Crash
  BY <1>2 DEF CallFails, Crash, ReturnErr, objectStore, labelStore, GivesUp, InformersFollow, Moves
<1>3. CASE (\E kind \in Kind : ObjectEvent(kind)) \/ (\E n \in Node : NodeEvent(n))
  <2>1. Stands
    BY <1>3 DEF ObjectEvent, NodeEvent, labelStore, Stands
  <2>2. InformersFollow
    BY <1>3 DEF ObjectEvent, NodeEvent, InformersFollow, ControllerTypes, TypeOK, Objects
  <2> QED BY <2>1, <2>2 DEF Moves
<1>4. CASE KMMFinalize \/ \E kind \in Owned : GarbageCollect(kind) \/ DeleteOwned(kind)
  <2>1. UNCHANGED <<label, reconciler>>
    BY <1>4 DEF KMMFinalize, GarbageCollect, DeleteOwned, Others, labelStore
  <2>2. PICK kind \in Owned : Present(kind) /\ OthersWrite({kind})
    <3>1. CASE KMMFinalize
      BY <3>1, KMMEffect, TypesSplit DEF KMMFinalize, Owned
    <3> QED BY <1>4, <3>1, DeletionEffect, TypesSplit
  <2> QED BY <1>a, <2>1, <2>2 DEF OthersWrite, Only, ObjectGoes, Moves
<1>5. CASE CreateDeviceConfig \/ EditDeviceConfig \/ DeleteDeviceConfig
  <2>1. UNCHANGED <<label, reconciler>>
    BY <1>5 DEF CreateDeviceConfig, EditDeviceConfig, DeleteDeviceConfig, Others, labelStore
  <2>2. \E dc \in DeviceConfig \cup {Nothing} : UserWrite(dc) /\ UserMakes(dc)
    <3>1. CASE CreateDeviceConfig
      BY <3>1, CreateEffect, NothingIsNoObject DEF CreateDeviceConfig, UserMakes
    <3>2. CASE EditDeviceConfig
      BY <3>2, EditEffect, NothingIsNoObject DEF UserMakes
    <3>3. CASE DeleteDeviceConfig
      BY <3>3, DeleteEffect, NothingIsNoObject DEF UserMakes
    <3> QED BY <1>5, <3>1, <3>2, <3>3
  <2> QED BY <1>a, <2>1, <2>2 DEF UserWrite, OthersWrite, Only, UserActs, Moves
<1>6. CASE UNCHANGED vars
  BY <1>6 DEF vars, objectStore, labelStore, Stands, InformersFollow, Moves
<1> QED BY <1>1, <1>2, <1>3, <1>4, <1>5, <1>6 DEF Next

-----------------------------------------------------------------------------
(* The hold on the DeviceConfig *)

LEMMA HoldInit == Init => HoldInv
<1> SUFFICES ASSUME Init PROVE HoldInv
  OBVIOUS
<1>1. api["deviceConfig"] = Nothing /\ cache["deviceConfig"] = Nothing /\ pc = "idle"
  BY DEF Init, Kind
<1> QED BY <1>1 DEF HoldInv, FinalizerSeen, Handling, Finalizing, Held, Known, KnownDC, Present, DC

\* What neither takes the DeviceConfig up nor lets it go.
LEMMA HoldKept ==
  ASSUME HoldInv, InformersFollow,
         Held' <=> Held,
         Present("deviceConfig")' /\ DC'.deleting => DC'.finalizer,
         Held /\ DC.deleting => DC'.deleting,
         FinalizerSeen' => FinalizerSeen,
         pc' \in Finalizing => pc \in Finalizing,
         pc' \in Handling \cup {"setFinalizer"} => pc \in Handling \cup {"setFinalizer"}
  PROVE  HoldInv'
<1>1. KnownDC' \in {KnownDC, DC'}
  BY DEF InformersFollow, KnownDC, DC, Kind
<1>2. CASE KnownDC' = KnownDC
  BY <1>2 DEF HoldInv, Known, Held
<1>3. CASE KnownDC' = DC'
  BY <1>3 DEF HoldInv, Known, Held, Present, DC
<1> QED BY <1>1, <1>2, <1>3

\* HoldInv is inductive, however far behind the informers are.
LEMMA HoldStep ==
  ASSUME ControllerTypes, HoldInv, [Next]_vars PROVE HoldInv'
<1>a. Moves /\ InformersFollow
  BY StepMoves
<1>b. KnownDC' \in {KnownDC, DC'}
  BY <1>a DEF InformersFollow, KnownDC, DC, Kind
<1>c. ASSUME NEW kind \in Owned, Only(kind) PROVE DC' = DC
  BY <1>c DEF Only, DC, Kind, Owned
<1>d. ASSUME DC' = DC
      PROVE  /\ Held' <=> Held
             /\ Present("deviceConfig")' /\ DC'.deleting => DC'.finalizer
             /\ Held /\ DC.deleting => DC'.deleting
  BY <1>d DEF HoldInv, Held, Present, DC
<1>1. CASE Stands \/ ObjectGoes
  BY <1>a, <1>c, <1>d, <1>1, HoldKept
     DEF Stands, ObjectGoes, reconciler, DC, FinalizerSeen, Handling, Finalizing
<1>2. CASE GivesUp \/ Deletes
  BY <1>a, <1>c, <1>d, <1>2, HoldKept DEF GivesUp, Deletes, Return, DC, FinalizerSeen, Handling, Finalizing, PC
<1>3. CASE Takes
  BY <1>3 DEF Takes, HoldInv, FinalizerSeen, Handling, Finalizing, Held, Known, KnownDC, Present, DC, PC
<1>4. CASE Holds
  <2>1. Held' /\ DC'.deleting = DC.deleting /\ Present("deviceConfig") /\ pc = "setFinalizer"
    BY <1>4, NothingIsNoObject DEF Holds, Held, Present, DC
  <2>2. CASE KnownDC' = KnownDC
    BY <1>4, <2>1, <2>2 DEF Holds, HoldInv, FinalizerSeen, Handling, Finalizing, Held, Known, PC
  <2>3. CASE KnownDC' = DC'
    BY <1>4, <2>1, <2>3 DEF Holds, HoldInv, FinalizerSeen, Handling, Finalizing, Held, Known, Present, DC, PC
  <2> QED BY <1>b, <2>2, <2>3
<1>5. CASE Handles
  BY <1>a, <1>c, <1>d, <1>5, HoldKept DEF Handles, FinalizerSeen, Handling, Finalizing, PC
<1>6. CASE Labels
  BY <1>a, <1>d, <1>6, HoldKept DEF Labels, DC, FinalizerSeen, Handling, Finalizing, PC
<1>7. CASE \/ FindsNone("nodeMetrics", "deleteNodeMetrics", "deleteModule")
           \/ FindsNone("module", "deleteModule", "RemoveUpgradeLabels")
           \/ Unlabels
  BY <1>a, <1>d, <1>7, HoldKept DEF FindsNone, Unlabels, DC, FinalizerSeen, Handling, Finalizing, PC
<1>8. CASE LetsGo
  <2>1. ~Held' /\ (Present("deviceConfig")' => ~DC'.deleting) /\ pc' = "idle" /\ pc \in Finalizing
    BY <1>8 DEF LetsGo, LetGo, Return, Held, Present, DC, Finalizing
  <2> QED BY <1>b, <2>1 DEF HoldInv, FinalizerSeen, Handling, Finalizing, Held, Known, Present, DC, PC
<1>9. CASE UserActs
  <2>0. UNCHANGED <<pc, devConfig>> /\ UserMakes(DC')
    BY <1>9 DEF UserActs, reconciler, DC
  <2>1. /\ Held' <=> Held
        /\ Present("deviceConfig")' /\ DC'.deleting => DC'.finalizer
        /\ Held /\ DC.deleting => DC'.deleting
    BY <2>0 DEF UserMakes, HoldInv, Held, Present, DC
  <2> QED BY <1>a, <2>0, <2>1, HoldKept DEF FinalizerSeen
<1> QED BY <1>a, <1>1, <1>2, <1>3, <1>4, <1>5, <1>6, <1>7, <1>8, <1>9 DEF Moves

LEMMA HoldInvariant == Spec => [](ControllerTypes /\ HoldInv)
<1>1. ControllerTypes /\ HoldInv /\ [Next]_vars => (ControllerTypes /\ HoldInv)'
  BY ControllerStep, HoldStep
<1> QED BY <1>1, ControllerInit, HoldInit, PTL DEF Spec

\* Whatever the informers have yet to see, and however many DeviceConfigs they are behind:
\* Reconcile creates objects only while the DeviceConfig that is there now has the
\* finalizer, and finalizeDeviceConfig is never at work on one that nobody deleted.
THEOREM ReconcileHoldsDeviceConfig == Spec => []HoldInv
BY HoldInvariant, PTL

-----------------------------------------------------------------------------
(* The finalizer *)

\* The two objects whose absence finalizeDeviceConfig waits for.
Awaited == {"module", "nodeMetrics"}

LEMMA FinalizerInit == Init => FinalizerInv
<1> SUFFICES ASSUME Init PROVE FinalizerInv
  OBVIOUS
<1>1. \A kind \in Awaited : api[kind] = Nothing /\ cache[kind] = Nothing
  BY DEF Init, Awaited, Kind, Owned
<1> QED BY <1>1, HoldInit
        DEF Init, FinalizerInv, FinalizedSoFar, FinalizerOutlivesModule, Finalizing, Present, Awaited

\* An object comes into being only in the hands of a handler, and leaves the DeviceConfig
\* as it is.
LEMMA ObjectCreated ==
  ASSUME ControllerTypes, HoldInv, [Next]_vars,
         NEW kind \in Owned, api[kind] = Nothing, api'[kind] # Nothing
  PROVE  Handles /\ api'["deviceConfig"] = api["deviceConfig"]
<1>a. Moves
  BY StepMoves
<1>b. kind \in Kind \ {"deviceConfig"}
  BY DEF Kind, Owned
<1>c. ~(UNCHANGED api) /\ ~Only("deviceConfig")
  BY <1>b DEF Only
<1>1. Handles
  BY <1>a, <1>b, <1>c
     DEF Moves, Stands, GivesUp, Takes, Holds, Labels, Deletes, FindsNone, Unlabels, LetsGo,
         ObjectGoes, UserActs, Only, Present
<1>2. api'["deviceConfig"] = api["deviceConfig"]
  BY <1>1 DEF Handles, Only, Kind, Owned
<1> QED BY <1>1, <1>2

\* Only removeFinalizer takes a finalizer off.
LEMMA OnlyLetsGo ==
  ASSUME ControllerTypes, HoldInv, [Next]_vars, Held, ~Held'
  PROVE  LetsGo
<1>a. Moves
  BY StepMoves
<1>b. api'["deviceConfig"] # api["deviceConfig"]
  BY DEF Held, Present, DC
<1>c. \A kind \in Owned : ~Only(kind)
  BY <1>b DEF Only, Kind, Owned
<1>1. ~Holds
  BY NothingIsNoObject DEF Holds, Held, Present, DC
<1>2. ~UserActs
  BY DEF UserActs, UserMakes, Held, Present, DC
<1> QED BY <1>a, <1>b, <1>c, <1>1, <1>2
        DEF Moves, Stands, GivesUp, Takes, Handles, Labels, Deletes, FindsNone, Unlabels, ObjectGoes

\* What finalizeDeviceConfig goes past: the metrics DaemonSet and the Module that are gone.
LEMMA FinalizeMoves ==
  ASSUME ControllerTypes, HoldInv, [Next]_vars
  PROVE  /\ pc' \in Finalizing \ {"deleteNodeMetrics"} =>
              pc \in Finalizing \ {"deleteNodeMetrics"} \/ cache["nodeMetrics"] = Nothing
         /\ pc' \in {"RemoveUpgradeLabels", "removeFinalizer"} =>
              pc \in {"RemoveUpgradeLabels", "removeFinalizer"} \/ cache["module"] = Nothing
         /\ pc' \in Finalizing => ~Handles
<1>a. Moves
  BY StepMoves
<1>1. pc' \in Finalizing => ~(GivesUp \/ Deletes \/ LetsGo \/ Holds \/ Handles \/ Labels)
  BY DEF GivesUp, Deletes, LetsGo, Return, Holds, Handles, Labels, Finalizing, Handling
<1> QED BY <1>a, <1>1
        DEF Moves, Stands, ObjectGoes, UserActs, reconciler, Takes, FindsNone, Unlabels, Finalizing

LEMMA FinalizerStep ==
  ASSUME Awaited \cap Lagging = {}, ControllerTypes, FinalizerInv, [Next]_vars PROVE FinalizerInv'
<1>a. HoldInv /\ HoldInv'
  BY HoldStep DEF FinalizerInv
<1>b. \A kind \in Awaited : kind \in Owned /\ kind \in Kind /\ kind \notin Lagging
  BY DEF Awaited, Owned, Kind
<1>c. \A kind \in Awaited : cache[kind] = api[kind] /\ cache'[kind] = api'[kind]
  BY <1>b, StepMoves DEF InformersFollow, FinalizerInv, FinalizedSoFar, Awaited
<1>1. FinalizedSoFar'
  <2>1. ASSUME NEW kind \in Awaited, pc' \in Finalizing, ~Present(kind) PROVE api'[kind] = Nothing
    BY <1>a, <1>b, <2>1, ObjectCreated, FinalizeMoves DEF Present
  <2>2. pc' \in Finalizing \ {"deleteNodeMetrics"} => api'["nodeMetrics"] = Nothing
    BY <1>a, <1>c, <2>1, FinalizeMoves DEF FinalizerInv, FinalizedSoFar, Present, Awaited
  <2>3. pc' \in {"RemoveUpgradeLabels", "removeFinalizer"} => api'["module"] = Nothing
    BY <1>a, <1>c, <2>1, FinalizeMoves DEF FinalizerInv, FinalizedSoFar, Present, Awaited, Finalizing
  <2> QED BY <1>c, <2>2, <2>3 DEF FinalizedSoFar, Present, Awaited
<1>2. ASSUME NEW kind \in Awaited, api'[kind] # Nothing PROVE Held'
  <2>1. Held
    <3>1. CASE Present(kind)
      BY <3>1 DEF FinalizerInv, FinalizerOutlivesModule, Held, Awaited
    <3>2. CASE ~Present(kind)
      BY <1>a, <1>b, <1>2, <3>2, ObjectCreated DEF HoldInv, Handles, Present
    <3> QED BY <3>1, <3>2
  <2>2. ~LetsGo
    <3> SUFFICES ASSUME LetsGo PROVE FALSE
      OBVIOUS
    <3>1. ~Present(kind)
      BY DEF LetsGo, FinalizerInv, FinalizedSoFar, Finalizing, Awaited
    <3>2. api'[kind] = api[kind]
      BY <1>b DEF LetsGo, Only, Owned
    <3> QED BY <1>2, <3>1, <3>2 DEF Present
  <2> QED BY <1>a, <2>1, <2>2, OnlyLetsGo
<1>3. FinalizerOutlivesModule'
  BY <1>2 DEF FinalizerOutlivesModule, Held, Present, Awaited
<1> QED BY <1>a, <1>1, <1>3 DEF FinalizerInv

LEMMA FinalizerInvariant ==
  ASSUME Awaited \cap Lagging = {} PROVE Spec => [](ControllerTypes /\ FinalizerInv)
<1>1. ControllerTypes /\ FinalizerInv /\ [Next]_vars => (ControllerTypes /\ FinalizerInv)'
  BY ControllerStep, FinalizerStep
<1> QED BY <1>1, ControllerInit, FinalizerInit, PTL DEF Spec

\* For any number of DeviceConfigs in a row, any failures, crashes, edits, deletions
\* at any point of a Reconcile and owned objects deleted by hand, and with a DeviceConfig
\* informer any number of DeviceConfigs behind: there is no Module and no metrics
\* DaemonSet whose DeviceConfig could go without finalizeDeviceConfig.
THEOREM FinalizerComesFirst ==
  ASSUME Awaited \cap Lagging = {} PROVE Spec => []FinalizerOutlivesModule
<1>1. FinalizerInv => FinalizerOutlivesModule
  BY DEF FinalizerInv
<1> QED BY <1>1, FinalizerInvariant, PTL

\* Over as many Reconciles as it takes, with whatever comes in between,
\* finalizeDeviceConfig keeps the order metrics, Module, labels.
THEOREM FinalizationIsOrdered ==
  ASSUME Awaited \cap Lagging = {} PROVE Spec => FinalizeInOrder
<1>1. ControllerTypes /\ FinalizerInv /\ [Next]_vars =>
        /\ [RemoveUpgradeLabels /\ label' # label => ~Present("module")]_vars
        /\ [deleteModule /\ api' # api => ~Present("nodeMetrics")]_vars
  BY DEF FinalizerInv, FinalizedSoFar, Finalizing, RemoveUpgradeLabels, deleteModule
<1> QED BY <1>1, FinalizerInvariant, PTL DEF Spec, FinalizeInOrder

-----------------------------------------------------------------------------
(* The labels *)

LEMMA LabelInit == Init => LabelInv
<1> SUFFICES ASSUME Init PROVE LabelInv
  OBVIOUS
<1>1. cachedLabel = label /\ pc = "idle" /\ \A n \in Node : label[n] = NoVersion
  BY DEF Init
<1> QED BY <1>1 DEF LabelInv, Finalizing

\* The Node informer that is never behind sees a label at once.
LEMMA LabelSeen ==
  ASSUME "node" \notin Lagging, ControllerTypes, cachedLabel = label, [Next]_vars
  PROVE  cachedLabel' = label'
<1>1. \A labels : StoreLabel(labels) => cachedLabel' = label'
  BY DEF StoreLabel
<1>2. UNCHANGED labelStore => cachedLabel' = label'
  BY DEF labelStore
<1>3. ASSUME NEW n \in Node, NodeEvent(n) PROVE cachedLabel' = label'
  BY <1>3, TypesSplit DEF NodeEvent
<1>4. CASE handleModuleVersionUpgrade \/ RemoveUpgradeLabels
  BY <1>1, <1>2, <1>4 DEF handleModuleVersionUpgrade, RemoveUpgradeLabels, labelStore
<1>5. CASE handleBuildConfigMap \/ handleKMMModule \/ handleCustomScheduler \/ handleNodeMetrics
  BY <1>2, <1>5 DEF handleBuildConfigMap, handleKMMModule, handleCustomScheduler, handleNodeMetrics, Handle
<1>6. CASE Reconcile \/ setFinalizer \/ deleteNodeMetrics \/ deleteModule \/ removeFinalizer
  BY <1>2, <1>6 DEF Reconcile, setFinalizer, deleteNodeMetrics, deleteModule, removeFinalizer
<1>7. CASE ReconcileStep
  BY <1>4, <1>5, <1>6, <1>7 DEF ReconcileStep
<1> QED BY <1>2, <1>3, <1>7
        DEF Next, CallFails, Crash, ObjectEvent, KMMFinalize, GarbageCollect, DeleteOwned,
            CreateDeviceConfig, EditDeviceConfig, DeleteDeviceConfig, Others, vars

LEMMA LabelStep ==
  ASSUME "node" \notin Lagging, ControllerTypes, HoldInv, LabelInv,
         DeletedWhenRolledOut, DeletedWhenRolledOut', [Next]_vars
  PROVE  LabelInv'
<1>a. Moves /\ cachedLabel' = label' /\ HoldInv'
  BY StepMoves, LabelSeen, HoldStep DEF LabelInv
<1>b. label \in [Node -> Version \cup {NoVersion}]
  BY TypesSplit
<1>1. ASSUME NEW n \in Node, label'[n] # NoVersion, ~Labels PROVE label'[n] = label[n]
  BY <1>a, <1>b, <1>1
     DEF Moves, Stands, GivesUp, Takes, Holds, Handles, Deletes, FindsNone, Unlabels, LetsGo,
         ObjectGoes, UserActs, ReconcilerTypes, ControllerTypes, TypeOK
<1>2. ASSUME NEW n \in Node, label'[n] # NoVersion PROVE Held'
  <2>1. CASE Labels
    BY <2>1 DEF Labels, FinalizerSeen, HoldInv, Held, Present, DC
  <2>2. CASE ~Labels
    <3>1. Held /\ ~LetsGo
      BY <1>1, <1>2, <2>2 DEF LabelInv, LetsGo
    <3> QED BY <3>1, OnlyLetsGo
  <2> QED BY <2>1, <2>2
\* The version of a label that is to be removed cannot be edited away.
<1>3. ASSUME pc' \in Finalizing, NEW n \in Node, label'[n] # NoVersion
      PROVE  devConfig'.version = DC'.version
  <2>1. ~Labels /\ label'[n] = label[n] /\ Held /\ Held'
    <3>1. ~Labels
      BY <1>3 DEF Labels, Handling
    <3> QED BY <1>1, <1>2, <1>3, <3>1 DEF LabelInv
  <2>2. label[n] = DC'.version
    BY <1>3, <1>a, <2>1 DEF HoldInv, DeletedWhenRolledOut
  <2>3. CASE Takes
    <3>1. DC' = DC /\ devConfig' = KnownDC /\ Known(TRUE)
      BY <1>3, <2>3 DEF Takes, DC, Finalizing
    <3> QED BY <2>1, <3>1 DEF HoldInv, DeletedWhenRolledOut
  <2>4. CASE ~Takes
    <3>1. pc \in Finalizing /\ devConfig' = devConfig
      BY <1>3, <1>a, <2>1, <2>4
         DEF Moves, Stands, GivesUp, Holds, Handles, Deletes, FindsNone, Unlabels, LetsGo,
             ObjectGoes, UserActs, Return, reconciler, Handling, Finalizing
    <3>2. label[n] = DC.version
      BY <1>3, <2>1, <3>1 DEF HoldInv, DeletedWhenRolledOut
    <3> QED BY <1>3, <2>1, <2>2, <3>1, <3>2 DEF LabelInv
  <2> QED BY <2>3, <2>4
<1>4. ASSUME NEW n \in Node, label'[n] # NoVersion
      PROVE  /\ pc' = "RemoveUpgradeLabels" => n \in toUnlabel'
             /\ pc' # "removeFinalizer"
  <2>1. CASE Stands \/ ObjectGoes \/ UserActs
    BY <1>4, <2>1 DEF Stands, ObjectGoes, UserActs, reconciler, LabelInv
  <2>2. CASE FindsNone("module", "deleteModule", "RemoveUpgradeLabels")
    <3>1. UNCHANGED <<label, devConfig, api>> /\ pc \in Finalizing
      BY <2>2 DEF FindsNone, Finalizing
    <3>2. Held /\ label[n] = DC.version /\ label[n] = devConfig.version
      BY <1>4, <3>1 DEF LabelInv, HoldInv, DeletedWhenRolledOut
    <3> QED BY <1>4, <2>2, <3>1, <3>2 DEF FindsNone, upgradeLabelled, LabelInv
  <2>3. CASE Unlabels
    <3>1. label'[n] = label[n] /\ n \in toUnlabel
      BY <1>4, <1>b, <2>3 DEF Unlabels, LabelInv
    <3> QED BY <1>4, <1>b, <2>3, <3>1 DEF Unlabels
  <2>4. CASE GivesUp \/ Takes \/ Holds \/ Handles \/ Labels \/ Deletes \/ LetsGo
             \/ FindsNone("nodeMetrics", "deleteNodeMetrics", "deleteModule")
    BY <2>4 DEF GivesUp, Takes, Holds, Handles, Labels, Deletes, LetsGo, FindsNone, Return, Handling, Finalizing
  <2> QED BY <1>a, <2>1, <2>2, <2>3, <2>4 DEF Moves
<1> QED BY <1>a, <1>2, <1>3, <1>4 DEF LabelInv

LEMMA LabelInvariant ==
  ASSUME "node" \notin Lagging
  PROVE  Spec /\ []DeletedWhenRolledOut => [](ControllerTypes /\ HoldInv /\ LabelInv)
<1> DEFINE IInv == ControllerTypes /\ HoldInv /\ LabelInv
<1>1. IInv /\ DeletedWhenRolledOut /\ DeletedWhenRolledOut' /\ [Next]_vars => IInv'
  BY ControllerStep, HoldStep, LabelStep
<1>2. Init => IInv
  BY ControllerInit, HoldInit, LabelInit
<1> QED BY <1>1, <1>2, PTL DEF Spec

\* With a Node informer that is never behind, and the others as late as they like, through
\* edits of the version, failures and crashes: no node keeps a version label once its
\* DeviceConfig is gone, if that was deleted with its rollout done.
THEOREM LabelsAreRemoved ==
  ASSUME "node" \notin Lagging
  PROVE  Spec => LabelsRemoved
<1>1. LabelInv => NoLabelsLeft
  BY DEF LabelInv, NoLabelsLeft, Held
<1> QED BY <1>1, LabelInvariant, PTL DEF LabelsRemoved

-----------------------------------------------------------------------------
(* The life of the DeviceConfig: the steps map to its steps, or to none *)

\* Where Reconcile makes things.
Making == Handling \cup {"setFinalizer"}

PhaseIs == IF ~Held THEN IF Present("deviceConfig") THEN "new" ELSE "none"
           ELSE IF ~DC.deleting THEN "held"
           ELSE IF Known(TRUE) /\ pc \notin Making THEN "finalizing" ELSE "deleting"

LEMMA PhaseCases ==
  /\ phase = PhaseIs
  /\ phase' = PhaseIs'
BY DEF phase, PhaseIs, Held, Making

\* Nothing of the life changes but that the deletion is noticed.
PhaseKept == phase' = phase \/ (phase = "deleting" /\ phase' = "finalizing")

LEMMA PhaseKeeps ==
  ASSUME InformersFollow,
         Present("deviceConfig")' <=> Present("deviceConfig"),
         Held' <=> Held, Held => (DC'.deleting <=> DC.deleting),
         phase = "finalizing" => pc' \notin Making
  PROVE  PhaseKept
<1>1. KnownDC' \in {KnownDC, DC'}
  BY DEF InformersFollow, KnownDC, DC, Kind
<1>2. Known(TRUE) /\ Held' /\ DC'.deleting => Known(TRUE)'
  BY <1>1 DEF Known, Held, Present, DC
<1> QED BY <1>2, PhaseCases DEF PhaseIs, PhaseKept

\* One owned object is written.
LEMMA ObjectWritten ==
  ASSUME NEW kind \in Owned, Only(kind)
  PROVE  /\ api'["deviceConfig"] = api["deviceConfig"]
         /\ kind \notin Awaited => installed' = installed
         /\ installed' = installed \cup {kind} \/ installed' = installed \ {kind}
         /\ (api'[kind] # Nothing => Present(kind)) => installed' = installed \/ installed' = installed \ {kind}
<1>1. \A other \in Awaited \ {kind} : api'[other] = api[other]
  BY DEF Only, Awaited, Kind, Owned
<1>2. /\ installed = {k \in Awaited : api[k] # Nothing}
      /\ installed' = {k \in Awaited : api'[k] # Nothing}
  BY DEF installed, Awaited, Present
<1>3. api'["deviceConfig"] = api["deviceConfig"]
  BY DEF Only, Kind, Owned
<1>4. CASE kind \notin Awaited
  <2>1. installed' = installed /\ kind \notin installed
    BY <1>1, <1>2, <1>4
  <2> QED BY <1>3, <1>4, <2>1
<1>5. CASE kind \in Awaited
  <2>1. api'[kind] # Nothing => installed' = installed \cup {kind}
    BY <1>1, <1>2, <1>5
  <2>2. api'[kind] = Nothing => installed' = installed \ {kind}
    BY <1>1, <1>2, <1>5
  <2>3. api'[kind] # Nothing /\ Present(kind) => installed' = installed
    BY <1>1, <1>2, <1>5 DEF Present
  <2> QED BY <1>3, <1>5, <2>1, <2>2, <2>3
<1> QED BY <1>4, <1>5

\* One object more or less, or none.
LEMMA ObjectsWritten ==
  ASSUME PhaseKept, UNCHANGED labelled, NEW kind,
         kind \notin Awaited => installed' = installed,
         \/ installed' \in {installed, installed \ {kind}}
         \/ phase \in {"held", "deleting"} /\ installed' = installed \cup {kind}
  PROVE  [Life!Next]_(Life!vars)
<1>1. CASE installed' = installed
  BY <1>1 DEF PhaseKept, Life!Next, Life!Notice, Life!Noticed, Life!vars
<1>2. CASE kind \in Awaited /\ installed' = installed \ {kind}
  BY <1>2 DEF PhaseKept, Awaited, Life!Awaited, Life!Next, Life!Lose, Life!Noticed
<1>3. CASE kind \in Awaited /\ phase \in {"held", "deleting"} /\ installed' = installed \cup {kind}
  BY <1>3 DEF PhaseKept, Awaited, Life!Awaited, Life!Next, Life!Install, Life!Noticed
<1> QED BY <1>1, <1>2, <1>3

LifeInv == ControllerTypes /\ FinalizerInv

LEMMA LifeStep ==
  ASSUME LifeInv, LifeInv', [Next]_vars
  PROVE  [Life!Next]_(Life!vars)
<1>a. ControllerTypes /\ HoldInv /\ HoldInv' /\ FinalizedSoFar
  BY DEF LifeInv, FinalizerInv
<1>b. Moves /\ InformersFollow
  BY <1>a, StepMoves
<1>c. UNCHANGED label => UNCHANGED labelled
  BY DEF labelled
<1>d. UNCHANGED api => UNCHANGED installed
  BY DEF installed, Present
<1>e. UNCHANGED <<phase, installed, labelled>> => [Life!Next]_(Life!vars)
  BY DEF Life!vars
<1>f. ASSUME api'["deviceConfig"] = api["deviceConfig"], phase = "finalizing" => pc' \notin Making
      PROVE  PhaseKept
  BY <1>b, <1>f, PhaseKeeps DEF Held, Present, DC
<1>g. ASSUME UNCHANGED <<api, label>>, phase = "finalizing" => pc' \notin Making
      PROVE  [Life!Next]_(Life!vars)
  BY <1>c, <1>d, <1>f, <1>g, ObjectsWritten DEF Awaited
<1>h. phase = "finalizing" => Held /\ DC.deleting /\ Known(TRUE) /\ pc \notin Making
  BY PhaseCases DEF PhaseIs
<1>i. pc' \in {"idle"} \cup Finalizing => pc' \notin Making
  BY DEF Making, Handling, Finalizing
<1>1. CASE Stands \/ GivesUp \/ Takes
  <2>1. phase = "finalizing" => pc' \notin Making
    BY <1>1, <1>h, <1>i DEF Stands, GivesUp, Return, Takes, reconciler, Known, Finalizing
  <2> QED BY <1>1, <2>1, <1>g DEF Stands, GivesUp, Takes
<1>2. CASE \/ FindsNone("nodeMetrics", "deleteNodeMetrics", "deleteModule")
           \/ FindsNone("module", "deleteModule", "RemoveUpgradeLabels")
  BY <1>2, <1>g, <1>i DEF FindsNone, Finalizing
<1>3. CASE Handles \/ Labels
  <2>1. FinalizerSeen /\ pc \in Making /\ Held
    BY <1>3, <1>a DEF Handles, Labels, FinalizerSeen, Making, HoldInv
  <2>2. phase \in {"held", "deleting"}
    BY <2>1, PhaseCases DEF PhaseIs
  <2>3. CASE Handles
    BY <1>c, <1>f, <2>2, <2>3, ObjectWritten, ObjectsWritten DEF Handles
  <2>4. CASE Labels
    <3>1. PICK n \in Node : label' = [label EXCEPT ![n] = devConfig.version]
      BY <2>4 DEF Labels
    <3>2. labelled' = labelled \cup {n}
      BY <2>4, <3>1, TypesSplit, <1>a DEF Labels, labelled
    <3>3. phase' = phase
      <4>1. PhaseKept
        BY <2>2, <2>4, <1>f DEF Labels
      <4>2. phase' # "finalizing"
        BY <2>4, PhaseCases DEF Labels, PhaseIs, Making
      <4> QED BY <4>1, <4>2 DEF PhaseKept
    <3> QED BY <1>d, <2>2, <2>4, <3>2, <3>3 DEF Labels, Life!Next, Life!Label
  <2> QED BY <1>3, <2>3, <2>4
<1>4. CASE Deletes
  BY <1>4, <1>c, <1>f, <1>i, ObjectWritten, ObjectsWritten DEF Deletes, Return
<1>5. CASE ObjectGoes
  BY <1>5, <1>c, <1>f, <1>h, ObjectWritten, ObjectsWritten DEF ObjectGoes, reconciler
<1>6. CASE Holds
  <2>0. /\ pc \in Making /\ pc' \in Making
        /\ Present("deviceConfig") /\ Present("deviceConfig")' /\ Held' /\ DC'.deleting = DC.deleting
    BY <1>6, NothingIsNoObject DEF Holds, Making, Handling, PC, Finalizing, Held, Present, DC
  <2>1. CASE Held
    <3>1. UNCHANGED <<phase, installed, labelled>>
      BY <1>6, <1>c, <2>0, <2>1, PhaseCases DEF Holds, Only, PhaseIs, installed, Present, Kind, Owned
    <3> QED BY <3>1, <1>e
  <2>2. CASE ~Held
    <3>1. ~DC.deleting
      BY <1>a, <2>0, <2>2 DEF HoldInv, Held
    <3>2. phase = "new" /\ phase' = "held"
      BY <2>0, <2>2, <3>1, PhaseCases DEF PhaseIs
    <3>3. UNCHANGED <<installed, labelled>>
      BY <1>6, <1>c DEF Holds, Only, installed, Present, Kind, Owned
    <3> QED BY <3>2, <3>3 DEF Life!Next, Life!Hold
  <2> QED BY <2>1, <2>2
<1>7. CASE Unlabels
  <2>1. CASE UNCHANGED label
    BY <1>7, <1>g, <1>i, <2>1 DEF Unlabels, Finalizing
  <2>2. CASE label' # label
    <3>1. PICK n \in toUnlabel : label' = [label EXCEPT ![n] = NoVersion]
      BY <1>7, <2>2 DEF Unlabels
    <3>2. n \in Node /\ label \in [Node -> Version \cup {NoVersion}] /\ label[n] # NoVersion
      BY <1>a, <2>2, <3>1, TypesSplit DEF ReconcilerTypes
    <3>3. labelled' = labelled \ {n}
      BY <3>1, <3>2 DEF labelled
    <3>4. Held => DC.deleting /\ Known(TRUE)
      BY <1>7, <1>a DEF Unlabels, HoldInv, Finalizing
    <3>5. phase \notin {"held", "deleting"} /\ phase' = phase
      <4>1. pc \notin Making /\ PhaseKept
        BY <1>7, <1>f, <1>i, <2>2 DEF Unlabels, Making, Handling, Finalizing
      <4>2. phase \notin {"held", "deleting"}
        BY <3>4, <4>1, PhaseCases DEF PhaseIs
      <4> QED BY <4>1, <4>2 DEF PhaseKept
    <3>6. installed = {} /\ UNCHANGED installed
      BY <1>7, <1>a, <1>d DEF Unlabels, FinalizedSoFar, Finalizing, installed
    <3> QED BY <3>2, <3>3, <3>5, <3>6 DEF Life!Next, Life!Unlabel
  <2> QED BY <2>1, <2>2
<1>8. CASE LetsGo
  <2>1. /\ installed = {} /\ UNCHANGED installed
    BY <1>8, <1>a DEF LetsGo, FinalizedSoFar, Finalizing, installed, Only, Present, Kind, Owned
  <2>2. UNCHANGED labelled
    BY <1>8, <1>c DEF LetsGo
  <2>3. CASE Held
    <3>1. DC.deleting /\ Known(TRUE) /\ pc \notin Making
      BY <1>8, <1>a, <2>3 DEF LetsGo, HoldInv, Finalizing, Making, Handling
    <3>2. phase = "finalizing" /\ phase' = "none"
      BY <1>8, <2>3, <3>1, PhaseCases DEF LetsGo, LetGo, PhaseIs, Held, Present
    <3> QED BY <2>1, <2>2, <3>2 DEF Life!Next, Life!Release
  <2>4. CASE ~Held
    <3>1. phase = "new" /\ phase' = "new"
      BY <1>8, <1>a, <2>4, PhaseCases DEF LetsGo, LetGo, HoldInv, PhaseIs, Held, Present, DC
    <3> QED BY <1>e, <2>1, <2>2, <3>1
  <2> QED BY <2>3, <2>4
<1>9. CASE UserActs
  <2>0. UNCHANGED <<installed, labelled>> /\ pc' = pc /\ UserMakes(DC')
    BY <1>9, <1>c DEF UserActs, reconciler, installed, Only, Present, Kind, Owned, DC
  <2>1. CASE ~Present("deviceConfig") /\ DC' # Nothing /\ ~DC'.finalizer
    <3>1. phase = "none" /\ phase' = "new"
      BY <2>1, PhaseCases DEF PhaseIs, Held, Present, DC
    <3> QED BY <2>0, <3>1 DEF Life!Next, Life!Create
  <2>2. CASE Present("deviceConfig") /\ ~DC.finalizer /\ DC' = Nothing
    <3>1. phase = "new" /\ phase' = "none"
      BY <2>2, PhaseCases DEF PhaseIs, Held, Present, DC
    <3> QED BY <2>0, <3>1 DEF Life!Next, Life!Delete
  <2>3. CASE Held /\ DC' # Nothing /\ DC'.finalizer /\ DC'.deleting /\ ~DC.deleting
    <3>1. phase = "held" /\ phase' \in {"deleting", "finalizing"}
      BY <2>3, PhaseCases DEF PhaseIs, Held, Present, DC
    <3> QED BY <2>0, <3>1 DEF Life!Next, Life!Delete
  <2>4. CASE /\ Present("deviceConfig") /\ DC' # Nothing
             /\ DC'.finalizer <=> DC.finalizer
             /\ DC'.deleting <=> DC.deleting
    <3>1. PhaseKept
      BY <1>b, <1>h, <2>0, <2>4, PhaseKeeps DEF Held, Present, DC
    <3> QED BY <2>0, <3>1, ObjectsWritten DEF Awaited
  <2> QED BY <2>0, <2>1, <2>2, <2>3, <2>4 DEF UserMakes, Held
<1> QED BY <1>b, <1>1, <1>2, <1>3, <1>4, <1>5, <1>6, <1>7, <1>8, <1>9 DEF Moves

\* Where the informers of the two objects are not behind: whatever the rest of Reconcile
\* does not see or fails on, one DeviceConfig after the other goes through the life that
\* DeviceConfigLife gives it.
THEOREM ReconcileImplementsLife ==
  ASSUME Awaited \cap Lagging = {}
  PROVE  Spec => ImplementsLife
<1>1. Init => Life!Init
  <2> SUFFICES ASSUME Init PROVE Life!Init
    OBVIOUS
  <2>1. api["deviceConfig"] = Nothing /\ \A kind \in Awaited : api[kind] = Nothing
    BY DEF Init, Awaited, Kind, Owned
  <2>2. phase = "none"
    BY <2>1, PhaseCases DEF PhaseIs, Held, Present
  <2>3. installed = {} /\ labelled = {}
    BY <2>1 DEF Init, installed, labelled, Awaited, Present
  <2> QED BY <2>2, <2>3 DEF Life!Init
<1>2. LifeInv /\ LifeInv' /\ [Next]_vars => [Life!Next]_(Life!vars)
  BY LifeStep
<1>3. Spec => []LifeInv
  BY FinalizerInvariant DEF LifeInv
<1> QED BY <1>1, <1>2, <1>3, PTL DEF Spec, ImplementsLife, Life!Spec

=============================================================================
