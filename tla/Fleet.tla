------------------------------- MODULE Fleet -------------------------------
(***************************************************************************)
(* Several DeviceConfigs on one set of nodes.  RollingUpgrade has one of   *)
(* them, with a fixed selection and no end; here nodes move between        *)
(* selections, selectors and versions are edited, emptied or deleted with  *)
(* a node drained, and all DeviceConfigs put the same taint on nodes that  *)
(* they may share.                                                         *)
(*                                                                         *)
(* One worker serves all keys, so a Reconcile is one step: what happens    *)
(* between its calls, and caches that are behind, are RollingUpgrade's.    *)
(* The objects other than the Module are DeviceConfigController's.         *)
(***************************************************************************)
EXTENDS NodeUpgrade, Naturals, FiniteSets

CONSTANTS DeviceConfig,
          Pool,         \* labels that selectors ask for; a node has one of them
          Nothing,      \* no Module
          MaxEvents     \* bound on edits, deletions, relabellings and failures

ASSUME NoNodeAssumption == NoNode \notin Node /\ IsFiniteSet(Node)
ASSUME FleetAssumption == IsFiniteSet(DeviceConfig)
ASSUME NothingAssumption == Nothing \notin [version : Version \cup {NoVersion}, selector : Pool,
                                            deleting : BOOLEAN]
ASSUME EventsAssumption == MaxEvents \in Nat

Versions == Version \cup {NoVersion}

\* The fields of a DeviceConfig's spec that this module is about.
DeviceConfigSpec == [version : Versions, selector : Pool]

Module == [version : Versions, selector : Pool, deleting : BOOLEAN]

VARIABLES pool,      \* [Node -> Pool]
          taints,    \* [Node -> SUBSET {UpgradeTaint}]
          label,     \* [DeviceConfig -> [Node -> Versions]]: the version label
          ready,     \* [DeviceConfig -> [Node -> Versions]]: KMM's version-ready label
          phase,     \* [DeviceConfig -> Phase]
          spec,      \* [DeviceConfig -> DeviceConfigSpec]
          module,    \* [DeviceConfig -> Module or Nothing]
          events     \* edits, deletions, relabellings and failures so far

vars == <<pool, taints, label, ready, phase, spec, module, events>>

\* No object, one without the finalizer, one with it, one that is deleted.
Phase == {"none", "new", "live", "deleting"}

TypeOK ==
  /\ pool \in [Node -> Pool]
  /\ taints \in [Node -> SUBSET {UpgradeTaint}]
  /\ label \in [DeviceConfig -> [Node -> Versions]]
  /\ ready \in [DeviceConfig -> [Node -> Versions]]
  /\ phase \in [DeviceConfig -> Phase]
  /\ spec \in [DeviceConfig -> DeviceConfigSpec]
  /\ module \in [DeviceConfig -> Module \cup {Nothing}]
  /\ events \in 0 .. MaxEvents

\* Every DeviceConfig was just created, or has moved its nodes to a version, maybe
\* not all of them and maybe not the version that is asked for now.
Init ==
  /\ pool \in [Node -> Pool]
  /\ taints = [n \in Node |-> {}]
  /\ spec \in [DeviceConfig -> [version : Version, selector : Pool]]
  /\ phase \in [DeviceConfig -> {"new", "live"}]
  /\ \E old \in [DeviceConfig -> [Node -> Versions]] :
       /\ \A d \in DeviceConfig, n \in Node :
            phase[d] = "new" \/ spec[d].selector # pool[n] => old[d][n] = NoVersion
       /\ label = old /\ ready = old
  /\ module = [d \in DeviceConfig |->
                 IF phase[d] = "new" THEN Nothing
                 ELSE [version |-> spec[d].version, selector |-> spec[d].selector, deleting |-> FALSE]]
  /\ events = 0

-----------------------------------------------------------------------------
(* Plausible mistakes, to try in the place of the definition each one names; *)
(* nothing uses them.                                                        *)

\* The Module gets its selector when it is created.
selectorKept(old, wanted) ==
  IF old = Nothing THEN [version |-> wanted.version, selector |-> wanted.selector, deleting |-> FALSE]
  ELSE [old EXCEPT !.version = wanted.version]

-----------------------------------------------------------------------------
(* Reconcile *)

Event == events < MaxEvents /\ events' = events + 1

\* GetTargetedNodes, each node as DeviceConfig d sees it.
GetTargetedNodes(d) ==
  [n \in Node |->
     IF pool[n] = spec[d].selector
     THEN [version |-> label[d][n], ready |-> ready[d][n], taints |-> taints[n]]
     ELSE Absent]

\* A Module that is being deleted is patched as well.
SetKMMModuleAsDesired(old, wanted) ==
  [version |-> wanted.version, selector |-> wanted.selector,
   deleting |-> old # Nothing /\ old.deleting]

\* The calls of Reconcile that write Modules and nodes, and those of them that one
\* gets to which fails.
Calls == {"module", "uncordon", "cordon", "kickoff"}
CallsBeforeError == {{}, {"module"}, {"module", "uncordon"}, {"module", "uncordon", "cordon"}}

handleKMMModule(d, calls) ==
  module' = IF "module" \in calls
            THEN [module EXCEPT ![d] = SetKMMModuleAsDesired(@, spec[d])]
            ELSE module

handleModuleVersionUpgrade(d, calls) ==
  \/ /\ spec[d].version = NoVersion
     /\ UNCHANGED <<taints, label>>
  \/ /\ spec[d].version # NoVersion
     /\ \E upgraded \in GetUpgradedNode(GetTargetedNodes(d), spec[d].version),
           next \in GetNodeForUpgrade(GetTargetedNodes(d), spec[d].version) :
          LET object(n) == GetTargetedNodes(d)[n]
              uncordoned == IF "uncordon" \in calls THEN {upgraded} ELSE {}
              cordoned == IF "cordon" \in calls THEN {n \in Node : n = next /\ needsCordon(object(n))}
                          ELSE {}
              started == IF "kickoff" \in calls THEN {next} ELSE {}
          IN  /\ taints' = [n \in Node |-> IF n \in uncordoned THEN uncordonedTaints(object(n))
                                           ELSE IF n \in cordoned THEN cordonedTaints(object(n))
                                           ELSE taints[n]]
              /\ label' = [label EXCEPT ![d] = [n \in Node |-> IF n \in started THEN spec[d].version
                                                               ELSE @[n]]]

\* setFinalizer comes first.
ReconcileCalls(d, calls) ==
  /\ phase[d] \in {"new", "live"}
  /\ phase' = [phase EXCEPT ![d] = "live"]
  /\ handleKMMModule(d, calls)
  /\ handleModuleVersionUpgrade(d, calls)
  /\ UNCHANGED <<pool, ready, spec>>

Reconcile(d) == ReconcileCalls(d, Calls) /\ UNCHANGED events

\* A call fails, or the process dies.
ReconcileFails(d) == Event /\ \E calls \in CallsBeforeError : ReconcileCalls(d, calls)

\* finalizeDeviceConfig deletes the Module and, called again when it is gone, takes
\* the labels of the present version off.
upgradeLabelled(d) == {n \in Node : spec[d].version # NoVersion /\ label[d][n] = spec[d].version}

deleteModule(d) ==
  /\ phase[d] = "deleting" /\ module[d] # Nothing
  /\ module' = [module EXCEPT ![d].deleting = TRUE]
  /\ UNCHANGED <<pool, taints, label, ready, phase, spec, events>>

RemoveUpgradeLabels(d, nodes) ==
  /\ phase[d] = "deleting" /\ module[d] = Nothing
  /\ label' = [label EXCEPT ![d] = [n \in Node |-> IF n \in nodes THEN NoVersion ELSE @[n]]]
  /\ UNCHANGED <<pool, taints, ready, spec, module>>

finalizeDeviceConfig(d) ==
  /\ RemoveUpgradeLabels(d, upgradeLabelled(d))
  /\ phase' = [phase EXCEPT ![d] = "none"]
  /\ UNCHANGED events

finalizeFails(d) ==
  /\ Event
  /\ \E nodes \in SUBSET upgradeLabelled(d) : RemoveUpgradeLabels(d, nodes)
  /\ UNCHANGED phase

-----------------------------------------------------------------------------
(* KMM *)

Serves(d, n) ==
  module[d] # Nothing /\ ~module[d].deleting /\ module[d].selector = pool[n]

KMMUnload(d, n) ==
  /\ ready[d][n] # NoVersion
  /\ Serves(d, n) => module[d].version # NoVersion /\ ready[d][n] # label[d][n]
  /\ ready' = [ready EXCEPT ![d][n] = NoVersion]
  /\ UNCHANGED <<pool, taints, label, phase, spec, module, events>>

KMMLoad(d, n) ==
  /\ Serves(d, n) /\ module[d].version # NoVersion
  /\ label[d][n] = module[d].version /\ ready[d][n] = NoVersion
  /\ ready' = [ready EXCEPT ![d][n] = module[d].version]
  /\ UNCHANGED <<pool, taints, label, phase, spec, module, events>>

\* A Module goes when the last of its drivers is unloaded.
KMMFinalize(d) ==
  /\ module[d] # Nothing /\ module[d].deleting
  /\ \A n \in Node : ready[d][n] = NoVersion
  /\ module' = [module EXCEPT ![d] = Nothing]
  /\ UNCHANGED <<pool, taints, label, ready, phase, spec, events>>

-----------------------------------------------------------------------------
(* Users *)

CreateDeviceConfig(d) ==
  /\ phase[d] = "none"
  /\ Event
  /\ phase' = [phase EXCEPT ![d] = "new"]
  /\ \E s \in DeviceConfigSpec : spec' = [spec EXCEPT ![d] = s]
  /\ UNCHANGED <<pool, taints, label, ready, module>>

EditDeviceConfig(d) ==
  /\ phase[d] # "none"
  /\ Event
  /\ \E s \in DeviceConfigSpec \ {spec[d]} : spec' = [spec EXCEPT ![d] = s]
  /\ UNCHANGED <<pool, taints, label, ready, phase, module>>

\* Without the finalizer the object goes at once.
DeleteDeviceConfig(d) ==
  /\ phase[d] \in {"new", "live"}
  /\ Event
  /\ phase' = [phase EXCEPT ![d] = IF @ = "new" THEN "none" ELSE "deleting"]
  /\ UNCHANGED <<pool, taints, label, ready, spec, module>>

RelabelNode(n) ==
  /\ Event
  /\ \E p \in Pool \ {pool[n]} : pool' = [pool EXCEPT ![n] = p]
  /\ UNCHANGED <<taints, label, ready, phase, spec, module>>

-----------------------------------------------------------------------------
ReconcileStep(d) == Reconcile(d) \/ deleteModule(d) \/ finalizeDeviceConfig(d)
KMMStep(d) == KMMFinalize(d) \/ \E n \in Node : KMMUnload(d, n) \/ KMMLoad(d, n)
UserStep(d) == CreateDeviceConfig(d) \/ EditDeviceConfig(d) \/ DeleteDeviceConfig(d)

Next ==
  \/ \E d \in DeviceConfig :
       ReconcileStep(d) \/ ReconcileFails(d) \/ finalizeFails(d) \/ KMMStep(d) \/ UserStep(d)
  \/ \E n \in Node : RelabelNode(n)

Spec == Init /\ [][Next]_vars

\* Each key is queued now and then, and the worker comes to it; KMM acts.
Fairness ==
  /\ \A d \in DeviceConfig : WF_vars(ReconcileStep(d)) /\ WF_vars(KMMFinalize(d))
  /\ \A d \in DeviceConfig, n \in Node : WF_vars(KMMUnload(d, n) \/ KMMLoad(d, n))

FairSpec == Spec /\ Fairness

-----------------------------------------------------------------------------
(* Properties *)

Drained == {n \in Node : UpgradeTaint \in taints[n]}

\* d is there to move n to a version and to give it back.
Attends(d, n) == /\ phase[d] \in {"new", "live"}
                 /\ spec[d].version # NoVersion
                 /\ spec[d].selector = pool[n]

Attended == {n \in Node : \E d \in DeviceConfig : Attends(d, n)}

\* Drained, with no DeviceConfig there to give it back.
Abandoned == Drained \ Attended

\* No two DeviceConfigs ask for one pool.
SelectionsApart ==
  \A d, e \in DeviceConfig : d # e /\ phase[d] # "none" /\ phase[e] # "none"
                               => spec[d].selector # spec[e].selector

\* handleModuleVersionUpgrade uncordons only what it lists, and nothing does when
\* the DeviceConfig is deleted, its version emptied, or the node not selected any
\* more.  Such a node stays drained, but one node at most for each event, whatever
\* drains a DeviceConfig finds on the nodes it turns to.  That is of DeviceConfigs
\* that never share nodes: those that do take each other's for their own.
AbandonedDrainsNeedEvents ==
  []SelectionsApart => [](Cardinality(Abandoned) <= events)

\* In the end every node runs what is asked of it and takes workloads, if any
\* DeviceConfig selects it: a drain that one left behind is undone by the next,
\* labels that another of that name left do not stop it, and DeviceConfigs that
\* share nodes, and uncordon each other's, do not keep each other from it.
Settled ==
  <>[](/\ Attended \cap Drained = {}
       /\ \A d \in DeviceConfig, n \in Node :
            Attends(d, n) => label[d][n] = spec[d].version /\ ready[d][n] = spec[d].version)

-----------------------------------------------------------------------------
(* The invariant the proof rests on, of DeviceConfigs that share no node. *)

\* Drained nodes that d has under way, or is about to give back.
OnItsWay(d) == {n \in Drained : Attends(d, n) /\ label[d][n] = spec[d].version}

\* Drained nodes that stay behind if all but configs go, and those that are busy now.
LeftBehind(configs) == {n \in Drained : \A d \in configs : n \notin OnItsWay(d)}
BusyBut(configs) == {d \in DeviceConfig \ configs : OnItsWay(d) # {}}

\* Whichever of them go, each leaves one node behind that no event has paid for.
DrainsPaidFor ==
  \A configs \in SUBSET DeviceConfig :
    Cardinality(LeftBehind(configs)) <= events + Cardinality(BusyBut(configs))

\* Of DeviceConfigs that share no node: a Reconcile drains one node more only when its
\* DeviceConfig has none on its way, or gives one back first, so that all other drained
\* nodes have been paid for by an event, even if any of the DeviceConfigs go next.
FleetInv == TypeOK /\ SelectionsApart /\ DrainsPaidFor
=============================================================================
