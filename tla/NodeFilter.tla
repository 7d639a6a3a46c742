----------------------------- MODULE NodeFilter -----------------------------
(***************************************************************************)
(* Which DeviceConfigs a change of a Node wakes up: GetNodePredicate and   *)
(* FindDeviceConfigForNodeChange between the informers and the workqueue,  *)
(* with several DeviceConfigs, selectors that are edited and nodes whose   *)
(* labels change.                                                          *)
(*                                                                         *)
(* An informer first changes its cache and later hands the event to the    *)
(* handler; the handler of a Node event reads the cache of the other       *)
(* informer at that time.  What Reconcile does with the nodes it lists is  *)
(* RollingUpgrade; here it only remembers the list.  So is the event that  *)
(* is lost when the List of the handler fails: nothing below survives it.  *)
(***************************************************************************)
EXTENDS Naturals

CONSTANTS Node, DeviceConfig,
          Label,        \* key=value pairs that selectors ask for
          Absent,       \* no object of that name
          Malformed,    \* a selector that labels.NewRequirement refuses
          Asked,        \* selectors that users write, Malformed among them or not
          Nobody,       \* the worker is idle
          MaxChanges    \* bound on edits, failures and crashes

ASSUME AbsentAssumption == Absent # Malformed
ASSUME AskedAssumption == \A selector \in Asked : selector = Malformed \/ selector \subseteq Label
ASSUME NobodyAssumption == Nobody \notin DeviceConfig
ASSUME ChangesAssumption == MaxChanges \in Nat

Labels == {Absent} \cup SUBSET Label
Selector == {Absent} \cup Asked

VARIABLES nodes,           \* [Node -> Labels]: labels in the API server
          cachedNodes,     \* the same in the Node informer
          configs,         \* [DeviceConfig -> Selector]: spec.selector in the API server
          cachedConfigs,   \* the same in the DeviceConfig informer
          nodeEvents,      \* events of nodes the handler has yet to get
          configEvents,    \* DeviceConfigs that have an event to come
          queue,           \* keys in the workqueue, waiting
          working,         \* the DeviceConfig that Reconcile works on
          pc,              \* "idle", "list" or "rest"
          devConfig,       \* the selector Reconcile read
          seen,            \* [DeviceConfig -> SUBSET Node]: the nodes it listed last
          changes          \* edits, failures and crashes so far

store == <<nodes, configs>>
informers == <<cachedNodes, cachedConfigs, nodeEvents, configEvents>>
worker == <<working, pc, devConfig, seen>>
vars == <<store, informers, queue, worker, changes>>

NodeEvent == [node : Node, old : Labels, new : Labels]

TypeOK ==
  /\ nodes \in [Node -> Labels] /\ cachedNodes \in [Node -> Labels]
  /\ configs \in [DeviceConfig -> Selector] /\ cachedConfigs \in [DeviceConfig -> Selector]
  /\ nodeEvents \subseteq NodeEvent
  /\ configEvents \subseteq DeviceConfig
  /\ queue \subseteq DeviceConfig
  /\ working \in DeviceConfig \cup {Nobody}
  /\ pc \in {"idle", "list", "rest"}
  /\ devConfig \in Selector
  /\ seen \in [DeviceConfig -> SUBSET Node]
  /\ changes \in 0 .. MaxChanges

\* A start lists both kinds, and every object listed is a creation to come.
Creations == {[node |-> n, old |-> Absent, new |-> nodes[n]] : n \in {m \in Node : nodes[m] # Absent}}
Existing == {d \in DeviceConfig : configs[d] # Absent}

\* The operator starts on a cluster of any nodes and DeviceConfigs.
Init ==
  /\ nodes \in [Node -> Labels] /\ cachedNodes = nodes
  /\ configs \in [DeviceConfig -> Selector] /\ cachedConfigs = configs
  /\ nodeEvents = Creations /\ configEvents = Existing /\ queue = {}
  /\ working = Nobody /\ pc = "idle" /\ devConfig = Absent
  /\ seen = [d \in DeviceConfig |-> {}]
  /\ changes = 0

-----------------------------------------------------------------------------
(* Plausible mistakes, to try in the place of the definition each one names; *)
(* nothing uses them.                                                        *)

\* GetNodePredicate without LabelChangedPredicate.
createdOnly(old, new) == old = Absent

\* GetNodePredicate with LabelChangedPredicate's update only.
changedOnly(old, new) == old # Absent /\ new # Absent /\ old # new

\* One label of the selector is enough.
anyLabelMatches(labels, selector) ==
  labels # Absent /\ selector \notin {Absent, Malformed} /\ selector \cap labels # {}

\* An omitted selector selects no node.
emptySelectsNone(labels, selector) ==
  labels # Absent /\ selector \notin {Absent, Malformed} /\ selector # {} /\ selector \subseteq labels

\* The new object alone is looked at.
mapsNewOnly(event, selector) ==
  selector \notin {Absent, Malformed} /\ event.new # Absent /\ selector \subseteq event.new

\* The changed object itself is queued, as a controller of nodes would.
itself(event) == {event.node}

-----------------------------------------------------------------------------
(* The filter *)

\* LabelChangedPredicate or any creation; a deletion passes the former.
GetNodePredicate(old, new) == old = Absent \/ new = Absent \/ old # new

\* Every label of the selector, so that an empty one selects every node.  For a
\* malformed one there is an error, and FindDeviceConfigForNodeChange goes on.
isObjectSelectedByLabels(labels, selector) ==
  labels # Absent /\ selector \notin {Absent, Malformed} /\ selector \subseteq labels

\* The handler maps the old object and the new one.
isWoken(event, selector) ==
  \/ isObjectSelectedByLabels(event.old, selector)
  \/ isObjectSelectedByLabels(event.new, selector)

requests(event) == {d \in DeviceConfig : isWoken(event, cachedConfigs[d])}

FindDeviceConfigForNodeChange(event) ==
  /\ event \in nodeEvents
  /\ nodeEvents' = nodeEvents \ {event}
  /\ queue' = queue \cup requests(event)
  /\ UNCHANGED <<store, cachedNodes, cachedConfigs, configEvents, worker, changes>>

\* For(DeviceConfig): each of its events queues its key.
DeviceConfigEvent(d) ==
  /\ d \in configEvents
  /\ configEvents' = configEvents \ {d}
  /\ queue' = queue \cup {d}
  /\ UNCHANGED <<store, cachedNodes, cachedConfigs, nodeEvents, worker, changes>>

\* The informers apply what the API server has, whatever came in between.
NodeInformer(n) ==
  /\ cachedNodes[n] # nodes[n]
  /\ cachedNodes' = [cachedNodes EXCEPT ![n] = nodes[n]]
  /\ nodeEvents' = IF GetNodePredicate(cachedNodes[n], nodes[n])
                   THEN nodeEvents \cup {[node |-> n, old |-> cachedNodes[n], new |-> nodes[n]]}
                   ELSE nodeEvents
  /\ UNCHANGED <<store, cachedConfigs, configEvents, queue, worker, changes>>

DeviceConfigInformer(d) ==
  /\ cachedConfigs[d] # configs[d]
  /\ cachedConfigs' = [cachedConfigs EXCEPT ![d] = configs[d]]
  /\ configEvents' = configEvents \cup {d}
  /\ UNCHANGED <<store, cachedNodes, nodeEvents, queue, worker, changes>>

-----------------------------------------------------------------------------
(* The worker: one for all keys *)

\* Get of a DeviceConfig that is gone ends Reconcile at once.
Reconcile(d) ==
  /\ working = Nobody /\ d \in queue
  /\ queue' = queue \ {d}
  /\ IF cachedConfigs[d] = Absent
     THEN UNCHANGED <<working, pc, devConfig>>
     ELSE working' = d /\ pc' = "list" /\ devConfig' = cachedConfigs[d]
  /\ UNCHANGED <<store, informers, seen, changes>>

\* client.MatchingLabels, which validates nothing: a malformed requirement is one
\* that no node meets.
MatchingLabels(selector) ==
  {n \in Node : /\ cachedNodes[n] # Absent
                /\ selector \notin {Absent, Malformed} /\ selector \subseteq cachedNodes[n]}

GetTargetedNodes ==
  /\ pc = "list"
  /\ pc' = "rest"
  /\ seen' = [seen EXCEPT ![working] = MatchingLabels(devConfig)]
  /\ UNCHANGED <<store, informers, queue, working, devConfig, changes>>

Return == working' = Nobody /\ pc' = "idle" /\ devConfig' = Absent /\ UNCHANGED seen

ReturnNil ==
  /\ pc = "rest"
  /\ Return
  /\ UNCHANGED <<store, informers, queue, changes>>

WorkerStep == GetTargetedNodes \/ ReturnNil \/ \E d \in DeviceConfig : Reconcile(d)

-----------------------------------------------------------------------------
(* Failures and the others *)

Change == changes < MaxChanges /\ changes' = changes + 1

\* A call fails before the list or after it: the key is queued again.
ReturnError ==
  /\ pc # "idle"
  /\ Change /\ Return
  /\ queue' = queue \cup {working}
  /\ UNCHANGED <<store, informers>>

\* The process dies and another one starts.
Crash ==
  /\ Change
  /\ cachedNodes' = nodes /\ cachedConfigs' = configs
  /\ nodeEvents' = Creations /\ configEvents' = Existing /\ queue' = {}
  /\ Return
  /\ UNCHANGED <<store>>

\* A node joins, leaves, or has other labels.
ChangeNode(n) ==
  /\ Change
  /\ \E labels \in Labels \ {nodes[n]} : nodes' = [nodes EXCEPT ![n] = labels]
  /\ UNCHANGED <<configs, informers, queue, worker>>

\* A DeviceConfig is created, deleted, or has another selector.
ChangeDeviceConfig(d) ==
  /\ Change
  /\ \E selector \in Selector \ {configs[d]} : configs' = [configs EXCEPT ![d] = selector]
  /\ UNCHANGED <<nodes, informers, queue, worker>>

Next ==
  \/ WorkerStep \/ ReturnError \/ Crash
  \/ \E event \in nodeEvents : FindDeviceConfigForNodeChange(event)
  \/ \E d \in DeviceConfig : DeviceConfigEvent(d) \/ DeviceConfigInformer(d) \/ ChangeDeviceConfig(d)
  \/ \E n \in Node : NodeInformer(n) \/ ChangeNode(n)

Spec == Init /\ [][Next]_vars

\* The worker runs, the informers catch up and hand on their events.  There is no
\* resync.
FairSpec == /\ Spec
            /\ WF_vars(WorkerStep)
            /\ WF_vars(\E event \in nodeEvents : FindDeviceConfigForNodeChange(event))
            /\ \A d \in DeviceConfig : WF_vars(DeviceConfigEvent(d)) /\ WF_vars(DeviceConfigInformer(d))
            /\ \A n \in Node : WF_vars(NodeInformer(n))

-----------------------------------------------------------------------------
(* Properties *)

\* The last list of d says the same of n as a list would now.
UpToDate(d, n) == n \in seen[d] <=> n \in MatchingLabels(cachedConfigs[d])

\* Something is under way that will make Reconcile list the nodes of d again.
WillList(d) ==
  \/ d \in queue \cup configEvents
  \/ working = d /\ pc = "list" /\ devConfig = cachedConfigs[d]

\* FindDeviceConfigForNodeChange matches labels on its own, and by what the other
\* informer has cached when it runs.  Whatever the order of the two informers, the
\* two handlers and the worker, no node slips in or out of a selection unnoticed:
\* where the last list is out of date, another one is coming, or an event is that
\* wakes the DeviceConfig up.
NothingMissed ==
  \A d \in DeviceConfig :
    cachedConfigs[d] = Absent \/ WillList(d) \/
    \A n \in Node :
      UpToDate(d, n) \/ \E event \in nodeEvents : event.node = n /\ isWoken(event, cachedConfigs[d])

\* Events alone, with no resync, make Reconcile list the nodes that the user's
\* selector selects in the end.
EventuallySeen ==
  <>[](\A d \in DeviceConfig : configs[d] \notin {Absent, Malformed} =>
         seen[d] = {n \in Node : nodes[n] # Absent /\ configs[d] \subseteq nodes[n]})

-----------------------------------------------------------------------------
(* The invariant the proof rests on *)

\* Between two Reconciles the worker has no key, and only then.
WorkerHasKey == pc = "idle" <=> working = Nobody

\* What Reconcile read is current, or it will run again.
ReadIsCurrent ==
  pc = "list" => \/ devConfig = cachedConfigs[working]
                 \/ working \in queue \cup configEvents

FilterInv == TypeOK /\ WorkerHasKey /\ ReadIsCurrent /\ NothingMissed
=============================================================================
