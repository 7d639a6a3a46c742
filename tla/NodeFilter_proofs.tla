------------------------- MODULE NodeFilter_proofs -------------------------
(***************************************************************************)
(* NothingMissed for any number of nodes, DeviceConfigs and labels.        *)
(***************************************************************************)
EXTENDS NodeFilter, TLAPS

\* Init: every list is yet to come.
LEMMA FilterInit == Init => FilterInv
<1>1. ASSUME Init PROVE TypeOK
  <2>1. nodeEvents \subseteq NodeEvent
    BY <1>1 DEF Init, Creations, NodeEvent, Labels
  <2> QED BY <1>1, <2>1, ChangesAssumption DEF Init, TypeOK, Existing, Selector
<1> QED BY <1>1 DEF Init, Existing, FilterInv, WorkerHasKey, ReadIsCurrent, NothingMissed, WillList

-----------------------------------------------------------------------------
(* The filter's matching and the API server's *)

\* isObjectSelectedByLabels and client.MatchingLabels agree on every node.
LEMMA MatchingsAgree ==
  \A n \in Node, selector \in Selector :
    n \in MatchingLabels(selector) <=> isObjectSelectedByLabels(cachedNodes[n], selector)
BY DEF MatchingLabels, isObjectSelectedByLabels

\* When a node slips in or out of a selection its event passes the predicate and
\* wakes the DeviceConfig up.
LEMMA SelectionChangesWake ==
  ASSUME NEW n, NEW old, NEW new, NEW selector,
         isObjectSelectedByLabels(old, selector) # isObjectSelectedByLabels(new, selector)
  PROVE  /\ GetNodePredicate(old, new)
         /\ isWoken([node |-> n, old |-> old, new |-> new], selector)
BY DEF isObjectSelectedByLabels, GetNodePredicate, isWoken

-----------------------------------------------------------------------------
(* Every step keeps the types and what the worker knows *)

LEMMA FilterTypes == TypeOK /\ WorkerHasKey /\ [Next]_vars => TypeOK'
<1> SUFFICES ASSUME TypeOK, WorkerHasKey, [Next]_vars PROVE TypeOK'
  OBVIOUS
<1> USE DEF TypeOK
<1>1. CASE GetTargetedNodes
  <2>1. working \in DeviceConfig
    BY <1>1 DEF GetTargetedNodes, WorkerHasKey
  <2>2. MatchingLabels(devConfig) \subseteq Node
    BY DEF MatchingLabels
  <2> QED BY <1>1, <2>1, <2>2 DEF GetTargetedNodes, store, informers
<1>2. CASE ReturnNil
  BY <1>2 DEF ReturnNil, Return, store, informers, Selector
<1>3. ASSUME NEW d \in DeviceConfig, Reconcile(d) PROVE TypeOK'
  BY <1>3 DEF Reconcile, store, informers
<1>4. CASE ReturnError
  <2>1. working \in DeviceConfig
    BY <1>4 DEF ReturnError, WorkerHasKey
  <2> QED BY <1>4, <2>1, ChangesAssumption DEF ReturnError, Change, Return, store, informers, Selector
<1>5. CASE Crash
  <2>1. nodeEvents' \subseteq NodeEvent
    BY <1>5 DEF Crash, Creations, NodeEvent, Labels
  <2> QED BY <1>5, <2>1, ChangesAssumption DEF Crash, Change, Return, store, Existing, Selector
<1>6. ASSUME NEW event \in nodeEvents, FindDeviceConfigForNodeChange(event) PROVE TypeOK'
  BY <1>6 DEF FindDeviceConfigForNodeChange, requests, store, worker
<1>7. ASSUME NEW d \in DeviceConfig, DeviceConfigEvent(d) PROVE TypeOK'
  BY <1>7 DEF DeviceConfigEvent, store, worker
<1>8. ASSUME NEW d \in DeviceConfig, DeviceConfigInformer(d) PROVE TypeOK'
  BY <1>8 DEF DeviceConfigInformer, store, worker
<1>9. ASSUME NEW d \in DeviceConfig, ChangeDeviceConfig(d) PROVE TypeOK'
  BY <1>9, ChangesAssumption DEF ChangeDeviceConfig, Change, informers, worker
<1>10. ASSUME NEW n \in Node, NodeInformer(n) PROVE TypeOK'
  <2>1. nodeEvents' \subseteq NodeEvent
    BY <1>10 DEF NodeInformer, NodeEvent
  <2> QED BY <1>10, <2>1 DEF NodeInformer, store, worker
<1>11. ASSUME NEW n \in Node, ChangeNode(n) PROVE TypeOK'
  BY <1>11, ChangesAssumption DEF ChangeNode, Change, informers, worker
<1>12. CASE UNCHANGED vars
  BY <1>12 DEF vars, store, informers, worker
<1> QED BY <1>1, <1>2, <1>3, <1>4, <1>5, <1>6, <1>7, <1>8, <1>9, <1>10, <1>11, <1>12
        DEF Next, WorkerStep

LEMMA WorkerSteps ==
  TypeOK /\ WorkerHasKey /\ ReadIsCurrent /\ [Next]_vars => WorkerHasKey' /\ ReadIsCurrent'
<1> SUFFICES ASSUME TypeOK, WorkerHasKey, ReadIsCurrent, [Next]_vars
             PROVE  WorkerHasKey' /\ ReadIsCurrent'
  OBVIOUS
<1> USE DEF WorkerHasKey, ReadIsCurrent
<1>1. CASE GetTargetedNodes
  BY <1>1 DEF GetTargetedNodes
<1>2. CASE ReturnNil \/ ReturnError \/ Crash
  BY <1>2 DEF ReturnNil, ReturnError, Crash, Return
<1>3. ASSUME NEW d \in DeviceConfig, Reconcile(d) PROVE WorkerHasKey' /\ ReadIsCurrent'
  BY <1>3, NobodyAssumption DEF Reconcile, informers
<1>4. ASSUME NEW event \in nodeEvents, FindDeviceConfigForNodeChange(event)
      PROVE  WorkerHasKey' /\ ReadIsCurrent'
  BY <1>4 DEF FindDeviceConfigForNodeChange, worker
<1>5. ASSUME NEW d \in DeviceConfig, DeviceConfigEvent(d) PROVE WorkerHasKey' /\ ReadIsCurrent'
  BY <1>5 DEF DeviceConfigEvent, worker
<1>6. ASSUME NEW d \in DeviceConfig, DeviceConfigInformer(d) PROVE WorkerHasKey' /\ ReadIsCurrent'
  BY <1>6 DEF DeviceConfigInformer, worker, TypeOK
<1>7. ASSUME NEW d \in DeviceConfig, ChangeDeviceConfig(d) PROVE WorkerHasKey' /\ ReadIsCurrent'
  BY <1>7 DEF ChangeDeviceConfig, informers, worker
<1>8. ASSUME NEW n \in Node, NodeInformer(n) \/ ChangeNode(n) PROVE WorkerHasKey' /\ ReadIsCurrent'
  BY <1>8 DEF NodeInformer, ChangeNode, informers, worker
<1>9. CASE UNCHANGED vars
  BY <1>9 DEF vars, informers, worker
<1> QED BY <1>1, <1>2, <1>3, <1>4, <1>5, <1>6, <1>7, <1>8, <1>9 DEF Next, WorkerStep

-----------------------------------------------------------------------------
(* Nothing is missed *)

\* A node the list of d is right about, or that an event is to come for.
Covered(d, n) ==
  UpToDate(d, n) \/ \E event \in nodeEvents : event.node = n /\ isWoken(event, cachedConfigs[d])

\* What neither lists for d, nor takes an event away, nor changes what the list is
\* compared with, leaves n covered.
LEMMA StaysCovered ==
  ASSUME NEW d \in DeviceConfig, NEW n \in Node, Covered(d, n),
         nodeEvents \subseteq nodeEvents',
         UNCHANGED <<cachedNodes, cachedConfigs>>, seen'[d] = seen[d]
  PROVE  Covered(d, n)'
BY DEF Covered, UpToDate, MatchingLabels

\* The Node informer either leaves the selections of d alone or says that it did not.
LEMMA NodeInformerCovers ==
  ASSUME NEW m \in Node, NodeInformer(m), TypeOK,
         NEW d \in DeviceConfig, NEW n \in Node, Covered(d, n)
  PROVE  Covered(d, n)'
<1>1. UNCHANGED <<cachedConfigs, seen>> /\ nodeEvents \subseteq nodeEvents'
  BY DEF NodeInformer, worker
<1>2. CASE \E event \in nodeEvents : event.node = n /\ isWoken(event, cachedConfigs[d])
  BY <1>1, <1>2 DEF Covered
<1>3. CASE UpToDate(d, n) /\ (isObjectSelectedByLabels(cachedNodes[n], cachedConfigs[d])
                               <=> isObjectSelectedByLabels(cachedNodes'[n], cachedConfigs[d]))
  BY <1>1, <1>3 DEF Covered, UpToDate, MatchingLabels, isObjectSelectedByLabels
<1>4. CASE isObjectSelectedByLabels(cachedNodes[n], cachedConfigs[d])
             # isObjectSelectedByLabels(cachedNodes'[n], cachedConfigs[d])
  <2>1. n = m /\ cachedNodes'[n] = nodes[n]
    BY <1>4 DEF NodeInformer, TypeOK
  <2> DEFINE event == [node |-> n, old |-> cachedNodes[n], new |-> nodes[n]]
  <2>2. GetNodePredicate(cachedNodes[n], nodes[n]) /\ isWoken(event, cachedConfigs[d])
    BY <1>4, <2>1, SelectionChangesWake
  <2>3. event \in nodeEvents' /\ event.node = n
    BY <2>1, <2>2 DEF NodeInformer
  <2>4. isWoken(event, cachedConfigs'[d])
    BY <1>1, <2>2
  <2> QED BY <2>3, <2>4 DEF Covered
<1> QED BY <1>2, <1>3, <1>4 DEF Covered

\* The same of one DeviceConfig: what NothingMissed says of d.
NotMissed(d) == cachedConfigs[d] = Absent \/ WillList(d) \/ \A n \in Node : Covered(d, n)

LEMMA NothingMissedSplit == NothingMissed <=> \A d \in DeviceConfig : NotMissed(d)
BY DEF NothingMissed, NotMissed, Covered

LEMMA FilterStep == FilterInv /\ [Next]_vars => \A d \in DeviceConfig : NotMissed(d)'
<1> SUFFICES ASSUME FilterInv, [Next]_vars, NEW c \in DeviceConfig PROVE NotMissed(c)'
  OBVIOUS
<1>0. NotMissed(c) /\ TypeOK /\ WorkerHasKey /\ ReadIsCurrent
  BY NothingMissedSplit DEF FilterInv
<1>1. CASE GetTargetedNodes
  <2>1. CASE working = c
    <3>1. CASE devConfig = cachedConfigs[c]
      <4>1. seen'[c] = MatchingLabels(devConfig)
        BY <1>0, <1>1, <2>1 DEF GetTargetedNodes, TypeOK
      <4>2. \A n \in Node : UpToDate(c, n)'
        BY <1>1, <3>1, <4>1 DEF GetTargetedNodes, UpToDate, MatchingLabels, informers
      <4> QED BY <4>2 DEF NotMissed, Covered
    <3>2. CASE c \in queue \cup configEvents
      BY <1>1, <3>2 DEF GetTargetedNodes, informers, NotMissed, WillList
    <3> QED BY <1>0, <1>1, <2>1, <3>1, <3>2 DEF ReadIsCurrent, GetTargetedNodes
  <2>2. CASE working # c
    <3>1. seen'[c] = seen[c]
      BY <1>0, <1>1, <2>2 DEF GetTargetedNodes, TypeOK
    <3>2. CASE \A n \in Node : Covered(c, n)
      BY <1>1, <3>1, <3>2, StaysCovered DEF GetTargetedNodes, informers, NotMissed
    <3>3. CASE cachedConfigs[c] = Absent \/ WillList(c)
      BY <1>1, <2>2, <3>3 DEF GetTargetedNodes, informers, NotMissed, WillList
    <3> QED BY <1>0, <3>2, <3>3 DEF NotMissed
  <2> QED BY <2>1, <2>2
<1>2. CASE ReturnNil
  <2>1. CASE \A n \in Node : Covered(c, n)
    BY <1>2, <2>1, StaysCovered DEF ReturnNil, Return, informers, NotMissed
  <2>2. CASE cachedConfigs[c] = Absent \/ WillList(c)
    BY <1>2, <2>2 DEF ReturnNil, informers, NotMissed, WillList
  <2> QED BY <1>0, <2>1, <2>2 DEF NotMissed
<1>3. ASSUME NEW d \in DeviceConfig, Reconcile(d) PROVE NotMissed(c)'
  <2>1. UNCHANGED <<informers, seen>> /\ working = Nobody
    BY <1>3 DEF Reconcile
  <2>2. CASE \A n \in Node : Covered(c, n)
    BY <2>1, <2>2, StaysCovered DEF informers, NotMissed
  <2>3. CASE cachedConfigs[c] = Absent
    BY <2>1, <2>3 DEF informers, NotMissed
  <2>4. CASE WillList(c) /\ cachedConfigs[c] # Absent
    <3>1. c \in queue \cup configEvents
      BY <2>1, <2>4, NobodyAssumption DEF WillList
    <3> QED BY <1>3, <2>1, <2>4, <3>1 DEF Reconcile, informers, NotMissed, WillList
  <2> QED BY <1>0, <2>2, <2>3, <2>4 DEF NotMissed
<1>4. CASE ReturnError
  <2>1. CASE \A n \in Node : Covered(c, n)
    BY <1>4, <2>1, StaysCovered DEF ReturnError, Return, informers, NotMissed
  <2>2. CASE cachedConfigs[c] = Absent \/ WillList(c)
    BY <1>4, <2>2 DEF ReturnError, informers, NotMissed, WillList
  <2> QED BY <1>0, <2>1, <2>2 DEF NotMissed
<1>5. CASE Crash
  BY <1>5 DEF Crash, Existing, NotMissed, WillList
<1>6. ASSUME NEW event \in nodeEvents, FindDeviceConfigForNodeChange(event) PROVE NotMissed(c)'
  <2>1. UNCHANGED <<cachedNodes, cachedConfigs, configEvents, worker>>
    BY <1>6 DEF FindDeviceConfigForNodeChange
  <2>2. queue' = queue \cup requests(event) /\ nodeEvents' = nodeEvents \ {event}
    BY <1>6 DEF FindDeviceConfigForNodeChange
  <2>3. CASE isWoken(event, cachedConfigs[c])
    BY <2>2, <2>3 DEF requests, NotMissed, WillList
  <2>4. CASE ~isWoken(event, cachedConfigs[c])
    <3>1. ASSUME NEW n \in Node, Covered(c, n) PROVE Covered(c, n)'
      <4>1. CASE UpToDate(c, n)
        BY <2>1, <4>1 DEF Covered, UpToDate, MatchingLabels, worker
      <4>2. CASE \E e \in nodeEvents : e.node = n /\ isWoken(e, cachedConfigs[c])
        BY <2>1, <2>2, <2>4, <4>2 DEF Covered
      <4> QED BY <3>1, <4>1, <4>2 DEF Covered
    <3> QED BY <1>0, <2>1, <2>2, <3>1 DEF NotMissed, WillList, worker
  <2> QED BY <2>3, <2>4
<1>7. ASSUME NEW d \in DeviceConfig, DeviceConfigEvent(d) PROVE NotMissed(c)'
  <2>1. CASE \A n \in Node : Covered(c, n)
    BY <1>7, <2>1, StaysCovered DEF DeviceConfigEvent, worker, NotMissed
  <2>2. CASE cachedConfigs[c] = Absent \/ WillList(c)
    BY <1>7, <2>2 DEF DeviceConfigEvent, worker, NotMissed, WillList
  <2> QED BY <1>0, <2>1, <2>2 DEF NotMissed
<1>8. ASSUME NEW d \in DeviceConfig, DeviceConfigInformer(d) PROVE NotMissed(c)'
  <2>1. CASE c = d
    BY <1>8, <2>1 DEF DeviceConfigInformer, NotMissed, WillList
  <2>2. CASE c # d
    <3>1. cachedConfigs'[c] = cachedConfigs[c]
      BY <1>0, <1>8, <2>2 DEF DeviceConfigInformer, TypeOK
    <3>2. ASSUME NEW n \in Node, Covered(c, n) PROVE Covered(c, n)'
      BY <1>8, <3>1, <3>2 DEF DeviceConfigInformer, worker, Covered, UpToDate, MatchingLabels
    <3> QED BY <1>0, <1>8, <3>1, <3>2 DEF DeviceConfigInformer, worker, NotMissed, WillList
  <2> QED BY <2>1, <2>2
<1>9. ASSUME NEW n \in Node, NodeInformer(n) PROVE NotMissed(c)'
  <2>1. CASE \A m \in Node : Covered(c, m)
    BY <1>0, <1>9, <2>1, NodeInformerCovers DEF NotMissed
  <2>2. CASE cachedConfigs[c] = Absent \/ WillList(c)
    BY <1>9, <2>2 DEF NodeInformer, worker, NotMissed, WillList
  <2> QED BY <1>0, <2>1, <2>2 DEF NotMissed
<1>10. CASE UNCHANGED <<informers, queue, worker>>
  <2>1. CASE \A n \in Node : Covered(c, n)
    BY <1>10, <2>1, StaysCovered DEF informers, worker, NotMissed
  <2>2. CASE cachedConfigs[c] = Absent \/ WillList(c)
    BY <1>10, <2>2 DEF informers, worker, NotMissed, WillList
  <2> QED BY <1>0, <2>1, <2>2 DEF NotMissed
<1>11. ASSUME NEW d \in DeviceConfig, ChangeDeviceConfig(d) PROVE NotMissed(c)'
  BY <1>10, <1>11 DEF ChangeDeviceConfig
<1>12. ASSUME NEW n \in Node, ChangeNode(n) PROVE NotMissed(c)'
  BY <1>10, <1>12 DEF ChangeNode
<1>13. CASE UNCHANGED vars
  BY <1>10, <1>13 DEF vars
<1> QED BY <1>1, <1>2, <1>3, <1>4, <1>5, <1>6, <1>7, <1>8, <1>9, <1>11, <1>12, <1>13
        DEF Next, WorkerStep

\* The invariant holds at all times.
LEMMA FilterInvariant == Spec => []FilterInv
<1>1. FilterInv /\ [Next]_vars => FilterInv'
  <2> SUFFICES ASSUME FilterInv, [Next]_vars PROVE FilterInv'
    OBVIOUS
  <2>1. TypeOK' /\ WorkerHasKey' /\ ReadIsCurrent'
    BY FilterTypes, WorkerSteps DEF FilterInv
  <2>2. NothingMissed'
    BY FilterStep DEF NothingMissed, NotMissed, Covered
  <2> QED BY <2>1, <2>2 DEF FilterInv
<1> QED BY <1>1, FilterInit, PTL DEF Spec

\* The queue holds DeviceConfigs only, and events only Nodes.
THEOREM TypeCorrect == Spec => []TypeOK
<1>1. FilterInv => TypeOK
  BY DEF FilterInv
<1> QED BY <1>1, FilterInvariant, PTL

\* Whatever the order in which the two informers, the two handlers and the worker
\* of FindDeviceConfigForNodeChange's controller run, for any number of nodes,
\* DeviceConfigs, labels, edits, errors and crashes: no change of a selection is
\* missed.
THEOREM NoSelectionChangeIsMissed == Spec => []NothingMissed
<1>1. FilterInv => NothingMissed
  BY DEF FilterInv
<1> QED BY <1>1, FilterInvariant, PTL
=============================================================================
