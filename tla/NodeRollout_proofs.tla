------------------------- MODULE NodeRollout_proofs -------------------------
(***************************************************************************)
(* RollingUpgrade implements NodeRollout: every step of the detailed       *)
(* specification is, as the nodes see it, a step of the abstract one or    *)
(* none at all.                                                            *)
(***************************************************************************)
EXTENDS RollingUpgrade_proofs

USE VersionAssumption, TaintAssumption, SelectorAssumption, ScopeAssumption, NodeAssumption

\* What the abstract specification sees of the taints.
Service(taints) == IF UpgradeTaint \in taints THEN "drained" ELSE "open"

\* A node of the rollout, field by field.
State(target, driver, service) == [target |-> target, driver |-> driver, service |-> service]

LEMMA StateFields ==
  ASSUME NEW t, NEW d, NEW s, NEW x, NEW state, state = State(t, d, s)
  PROVE  /\ [state EXCEPT !.target = x] = State(x, d, s)
         /\ [state EXCEPT !.driver = x] = State(t, x, s)
         /\ [state EXCEPT !.service = x] = State(t, d, x)
         /\ state.target = t /\ state.driver = d /\ state.service = s
<1>1. [state EXCEPT !.target = x] = State(x, d, s)
  BY Z3 DEF State
<1>2. [state EXCEPT !.driver = x] = State(t, x, s)
  BY Z3 DEF State
<1>3. [state EXCEPT !.service = x] = State(t, d, x)
  BY Z3 DEF State
<1>4. state.target = t /\ state.driver = d /\ state.service = s
  BY DEF State
<1> QED
  BY <1>1, <1>2, <1>3, <1>4

LEMMA StateIsHere ==
  ASSUME NEW t, NEW d, NEW s
  PROVE  State(t, d, s) # Rollout!Gone
BY DEF State, Rollout!Gone

LEMMA AsState ==
  ASSUME NEW object, object # Absent
  PROVE  asRolloutNode(object) = State(object.version, object.ready, Service(object.taints))
BY DEF asRolloutNode, State, Service

\* A write to one Node object changes one node of the rollout.
LEMMA RolloutWrite ==
  ASSUME TypeOK, NEW n \in Node, NEW object, Api' = [Api EXCEPT ![n] = object]
  PROVE  /\ rolloutNode' = [rolloutNode EXCEPT ![n] = asRolloutNode(object)]
         /\ rolloutNode[n] = asRolloutNode(Api[n])
<1>1. Api \in [Node -> NodeOrAbsent]
  BY ApiType
<1>2. Api'[n] = object /\ \A m \in Node \ {n} : Api'[m] = Api[m]
  BY <1>1
<1> QED
  BY <1>2 DEF rolloutNode, asRolloutNode

\* So does a write to the taints, which only matters for the upgrade taint.
LEMMA RolloutTaints ==
  ASSUME TypeOK, NEW n \in Present, NEW taints,
         Api' = [Api EXCEPT ![n].taints = taints]
  PROVE  /\ n \in Node /\ Api[n] \in NodeObject
         /\ rolloutNode[n] = State(Api[n].version, Api[n].ready, Service(Api[n].taints))
         /\ rolloutNode' = [rolloutNode EXCEPT ![n] = State(Api[n].version, Api[n].ready, Service(taints))]
<1>1. n \in Node /\ Api[n] \in NodeObject /\ Api[n] # Absent
  BY ApiType DEF Present, NodeOrAbsent
<1> DEFINE object == [Api[n] EXCEPT !.taints = taints]
<1>2. /\ object.version = Api[n].version /\ object.ready = Api[n].ready
      /\ object.taints = taints /\ object # Absent
  BY <1>1 DEF NodeObject, Absent
<1>3. Api' = [Api EXCEPT ![n] = object]
  OBVIOUS
<1> HIDE DEF object
<1>4. /\ rolloutNode' = [rolloutNode EXCEPT ![n] = asRolloutNode(object)]
      /\ rolloutNode[n] = asRolloutNode(Api[n])
  BY <1>1, <1>3, RolloutWrite
<1>5. asRolloutNode(object) = State(Api[n].version, Api[n].ready, Service(taints))
  BY <1>2, AsState
<1>6. asRolloutNode(Api[n]) = State(Api[n].version, Api[n].ready, Service(Api[n].taints))
  BY <1>1, AsState
<1> QED
  BY <1>1, <1>4, <1>5, <1>6

\* Where the API server stands still, so does the rollout.
LEMMA RolloutUnmoved == Api' = Api => rolloutNode' = rolloutNode
BY DEF rolloutNode

-----------------------------------------------------------------------------
\* UncordonUpgradedNode gives a node back, if it does anything.
LEMMA UncordonGivesBack ==
  ASSUME OneNodeInv, UncordonUpgradedNode
  PROVE  [Rollout!Next]_rolloutNode
<1>a. TypeOK
  BY DEF OneNodeInv, DrainInv
<1>1. CASE Api' = Api
  BY <1>1, RolloutUnmoved
<1>2. CASE Api' # Api
  <2>1. PICK n \in Node :
          /\ n \in Present /\ targeted[n] # Absent
          /\ targeted[n].version = devConfig /\ targeted[n].ready = devConfig
          /\ Api' = [Api EXCEPT ![n].taints = uncordonedTaints(targeted[n])]
    BY <1>a, <1>2, UncordonEffect
  <2>2. UpgradeTaint \notin uncordonedTaints(targeted[n])
    BY DEF uncordonedTaints
  <2>3. /\ Api[n] \in NodeObject
        /\ rolloutNode[n] = State(Api[n].version, Api[n].ready, Service(Api[n].taints))
        /\ rolloutNode' = [rolloutNode EXCEPT ![n] = State(Api[n].version, Api[n].ready, "open")]
    BY <1>a, <2>1, <2>2, RolloutTaints DEF Service
  <2>4. Api[n].ready = Api[n].version
    BY <2>1 DEF OneNodeInv, SnapshotUpgraded, Known, UncordonUpgradedNode
  <2>5. CASE UpgradeTaint \in Api[n].taints
    <3>1. [rolloutNode[n] EXCEPT !.service = "open"] = State(Api[n].version, Api[n].ready, "open")
      BY <2>3, StateFields
    <3>2. rolloutNode[n].service = "drained"
      BY <2>3, <2>5, StateFields DEF Service
    <3>3. Rollout!Becomes(n, [rolloutNode[n] EXCEPT !.service = "open"])
      BY <2>3, <3>1 DEF Rollout!Becomes
    <3>4. Rollout!Here(n)
      BY <2>3, StateIsHere DEF Rollout!Here
    <3>5. rolloutNode[n].driver = rolloutNode[n].target
      BY <2>3, <2>4, StateFields
    <3>6. Rollout!GiveBack(n)
      BY <3>2, <3>3, <3>4, <3>5 DEF Rollout!GiveBack
    <3> QED
      BY <3>6 DEF Rollout!Next
  <2>6. CASE UpgradeTaint \notin Api[n].taints
    BY <2>3, <2>6 DEF rolloutNode, Service
  <2> QED
    BY <2>5, <2>6
<1> QED
  BY <1>1, <1>2

\* CordonNodeForUpgrade drains a node, if it does anything.
LEMMA CordonDrains ==
  ASSUME OneNodeInv, CordonNodeForUpgrade
  PROVE  [Rollout!Next]_rolloutNode
<1>a. TypeOK
  BY DEF OneNodeInv, DrainInv
<1>1. CASE Api' = Api
  BY <1>1, RolloutUnmoved
<1>2. CASE Api' # Api
  <2>1. PICK n \in Present : Api' = [Api EXCEPT ![n].taints = cordonedTaints(targeted[n])]
    BY <1>a, <1>2, CordonEffect
  <2>2. UpgradeTaint \in cordonedTaints(targeted[n])
    BY DEF cordonedTaints
  <2>3. /\ n \in Node
        /\ rolloutNode[n] = State(Api[n].version, Api[n].ready, Service(Api[n].taints))
        /\ rolloutNode' = [rolloutNode EXCEPT ![n] = State(Api[n].version, Api[n].ready, "drained")]
    BY <1>a, <2>1, <2>2, RolloutTaints DEF Service
  <2>4. CASE UpgradeTaint \notin Api[n].taints
    <3>1. [rolloutNode[n] EXCEPT !.service = "drained"] = State(Api[n].version, Api[n].ready, "drained")
      BY <2>3, StateFields
    <3>2. rolloutNode[n].service = "open"
      BY <2>3, <2>4, StateFields DEF Service
    <3>3. Rollout!Becomes(n, [rolloutNode[n] EXCEPT !.service = "drained"])
      BY <2>3, <3>1 DEF Rollout!Becomes
    <3>4. Rollout!Here(n)
      BY <2>3, StateIsHere DEF Rollout!Here
    <3>5. Rollout!Drain(n)
      BY <3>2, <3>3, <3>4 DEF Rollout!Drain
    <3> QED
      BY <2>3, <3>5 DEF Rollout!Next
  <2>5. CASE UpgradeTaint \in Api[n].taints
    BY <2>3, <2>5 DEF rolloutNode, Service
  <2> QED
    BY <2>4, <2>5
<1> QED
  BY <1>1, <1>2

\* KickoffUpgrade sends a node to the version that is asked for: it is drained or
\* new, and no other node is on its way there.
LEMMA KickoffAssigns ==
  ASSUME OneNodeInv, KickoffUpgrade
  PROVE  [Rollout!Next]_rolloutNode
<1> DEFINE n == upgradeNode
           object == [Api[n] EXCEPT !.version = devConfig]
<1>a. TypeOK /\ DrainInv
  BY DEF OneNodeInv, DrainInv
<1>1. CASE Api' = Api
  BY <1>1, RolloutUnmoved
<1>2. CASE Api' # Api
  <2>1. n # NoNode /\ n \in Present /\ Api' = [Api EXCEPT ![n].version = devConfig]
    BY <1>a, <1>2, KickoffEffect
  <2>2. n \in Node /\ Api[n] \in NodeObject /\ Api[n] # Absent
    BY <1>a, <2>1, ApiType DEF Present, NodeOrAbsent
  <2>3. /\ devConfig \in Version
        /\ UpgradeTaint \in Api[n].taints \/ Api[n].version = NoVersion
        /\ InUpgrade(devConfig) = {}
    BY <1>a, <2>1 DEF KickoffUpgrade, OneNodeInv, DrainInv, Progress, SnapshotInUpgrade
  <2>4. /\ object.version = devConfig /\ object.ready = Api[n].ready
        /\ object.taints = Api[n].taints /\ object # Absent
    BY <2>2 DEF NodeObject, Absent
  <2>5. Api' = [Api EXCEPT ![n] = object]
    BY <2>1
  <2> HIDE DEF object
  <2>6. /\ rolloutNode' = [rolloutNode EXCEPT ![n] = asRolloutNode(object)]
        /\ rolloutNode[n] = asRolloutNode(Api[n])
    BY <1>a, <2>2, <2>5, RolloutWrite
  <2>7. /\ rolloutNode[n] = State(Api[n].version, Api[n].ready, Service(Api[n].taints))
        /\ rolloutNode' = [rolloutNode EXCEPT ![n] = State(devConfig, Api[n].ready, Service(Api[n].taints))]
    BY <2>2, <2>4, <2>6, AsState
  <2>8. CASE devConfig = Api[n].version
    BY <2>7, <2>8 DEF rolloutNode
  <2>9. CASE devConfig # Api[n].version
    <3>1. \A m \in Node : ~Rollout!Swapping(m, devConfig)
      <4> SUFFICES ASSUME NEW m \in Node, Rollout!Swapping(m, devConfig) PROVE m \in InUpgrade(devConfig)
        BY <2>3
      <4>1. rolloutNode[m] = asRolloutNode(Api[m])
        BY DEF rolloutNode
      <4>2. Api[m] # Absent
        BY <4>1 DEF Rollout!Swapping, Rollout!Here, Rollout!Gone, asRolloutNode
      <4>3. rolloutNode[m].target = Api[m].version /\ rolloutNode[m].driver = Api[m].ready
        BY <4>1, <4>2, AsState, StateFields
      <4> QED
        BY <4>2, <4>3 DEF Rollout!Swapping, InUpgrade, Present
    <3>2. Rollout!Here(n)
      BY <2>7, StateIsHere DEF Rollout!Here
    <3>3. /\ rolloutNode[n].service = "drained" \/ rolloutNode[n].target = NoVersion
          /\ devConfig # rolloutNode[n].target
          /\ [rolloutNode[n] EXCEPT !.target = devConfig]
               = State(devConfig, Api[n].ready, Service(Api[n].taints))
      BY <2>3, <2>7, <2>9, StateFields DEF Service
    <3>4. Rollout!Assign(n)
      BY <2>3, <2>7, <3>1, <3>2, <3>3 DEF Rollout!Assign, Rollout!Becomes
    <3> QED
      BY <2>2, <3>4 DEF Rollout!Next
  <2> QED
    BY <2>8, <2>9
<1> QED
  BY <1>1, <1>2

-----------------------------------------------------------------------------
\* KMM, the nodes and the other writers take steps of the abstract specification.
LEMMA OthersStep ==
  ASSUME OneNodeInv, "reboot" \notin Faults, NEW n \in Node, KMMStep(n) \/ EnvironmentStep(n)
  PROVE  [Rollout!Next]_rolloutNode
<1>a. TypeOK /\ DrainInv /\ Api \in [Node -> NodeOrAbsent] /\ Absent \in NodeOrAbsent
  BY ApiType DEF OneNodeInv, DrainInv, NodeOrAbsent
<1>b. rolloutNode[n] = asRolloutNode(Api[n])
  BY DEF rolloutNode
<1>1. ASSUME Api[n] \in NodeObject, NEW v \in Version \cup {NoVersion},
             Write(n, [Api[n] EXCEPT !.ready = v])
      PROVE  /\ rolloutNode[n] = State(Api[n].version, Api[n].ready, Service(Api[n].taints))
             /\ rolloutNode' = [rolloutNode EXCEPT ![n] = State(Api[n].version, v, Service(Api[n].taints))]
  <2> DEFINE object == [Api[n] EXCEPT !.ready = v]
  <2>1. /\ object.version = Api[n].version /\ object.ready = v
        /\ object.taints = Api[n].taints /\ object # Absent /\ object \in NodeOrAbsent
        /\ Api[n] # Absent
    BY <1>1 DEF NodeObject, Absent, NodeOrAbsent
  <2>2. Api' = [Api EXCEPT ![n] = object]
    BY <1>a, <1>1, <2>1, WriteEffect
  <2> HIDE DEF object
  <2>3. rolloutNode' = [rolloutNode EXCEPT ![n] = asRolloutNode(object)]
    BY <1>a, <2>2, RolloutWrite
  <2> QED
    BY <1>b, <2>1, <2>3, AsState
<1>2. CASE KMMUnload(n)
  <2>1. n \in Present /\ Api[n] \in NodeObject /\ Write(n, [Api[n] EXCEPT !.ready = NoVersion])
    BY <1>a, <1>2 DEF KMMUnload, Present, NodeOrAbsent
  <2>2. Api[n].ready \notin {NoVersion, Api[n].version} /\ UpgradeTaint \in Api[n].taints
    BY <1>a, <1>2, <2>1 DEF KMMUnload, DrainInv, SwapOnlyDrained
  <2>3. Rollout!Unload(n)
    BY <1>1, <2>1, <2>2, StateFields, StateIsHere
       DEF Rollout!Unload, Rollout!Here, Rollout!Becomes, Service
  <2> QED
    BY <2>3 DEF Rollout!Next
<1>3. CASE KMMLoad(n)
  <2>1. /\ Api[n] \in NodeObject /\ module \in Version /\ Write(n, [Api[n] EXCEPT !.ready = module])
        /\ Api[n].version = module /\ Api[n].ready = NoVersion
    BY <1>a, <1>3 DEF KMMLoad, NodeOrAbsent, TypeOK
  <2>2. Rollout!Load(n)
    BY <1>1, <2>1, StateFields, StateIsHere DEF Rollout!Load, Rollout!Here, Rollout!Becomes
  <2> QED
    BY <2>2 DEF Rollout!Next
<1>4. CASE ChangeForeignTaint(n)
  <2>1. PICK t \in ForeignTaint :
          Write(n, [Api[n] EXCEPT !.taints = IF t \in @ THEN @ \ {t} ELSE @ \cup {t}])
    BY <1>4 DEF ChangeForeignTaint
  <2> DEFINE taints == IF t \in Api[n].taints THEN Api[n].taints \ {t}
                       ELSE Api[n].taints \cup {t}
             object == [Api[n] EXCEPT !.taints = taints]
  <2>2. Api[n] \in NodeObject /\ n \in Present /\ Write(n, object)
    BY <1>4, <1>a, <2>1 DEF ChangeForeignTaint, Present, NodeOrAbsent
  <2>3. /\ taints \in SUBSET (ForeignTaint \cup {UpgradeTaint})
        /\ UpgradeTaint \in taints <=> UpgradeTaint \in Api[n].taints
    BY <2>2 DEF NodeObject
  <2>4. object \in NodeOrAbsent
    BY <2>2, <2>3 DEF NodeObject, NodeOrAbsent
  <2>5. Api' = [Api EXCEPT ![n] = object]
    BY <1>a, <2>2, <2>4, WriteEffect
  <2>6. Api' = [Api EXCEPT ![n].taints = taints]
    BY <2>5
  <2> HIDE DEF taints, object
  <2>7. /\ rolloutNode[n] = State(Api[n].version, Api[n].ready, Service(Api[n].taints))
        /\ rolloutNode' = [rolloutNode EXCEPT ![n] = State(Api[n].version, Api[n].ready, Service(taints))]
    BY <1>a, <2>2, <2>6, RolloutTaints
  <2> QED
    BY <2>3, <2>7 DEF rolloutNode, Service
<1>5. CASE NodeJoin(n)
  <2>1. /\ Api[n] = Absent /\ FreshNode \in NodeOrAbsent /\ FreshNode # Absent
        /\ Write(n, FreshNode)
    BY <1>5, AbsentIsNoObject DEF NodeJoin, FreshNode, NodeOrAbsent, NodeObject
  <2>2. rolloutNode' = [rolloutNode EXCEPT ![n] = asRolloutNode(FreshNode)]
    BY <1>a, <2>1, WriteEffect, RolloutWrite
  <2>3. asRolloutNode(FreshNode) = Rollout!New
    BY <2>1 DEF asRolloutNode, FreshNode, Rollout!New
  <2>4. rolloutNode[n] = Rollout!Gone
    BY <1>b, <2>1 DEF asRolloutNode, Rollout!Gone
  <2> QED
    BY <2>2, <2>3, <2>4 DEF Rollout!Next, Rollout!Join, Rollout!Becomes
<1>6. CASE NodeLeave(n)
  <2>1. Api[n] # Absent /\ Write(n, Absent)
    BY <1>6 DEF NodeLeave
  <2>2. rolloutNode' = [rolloutNode EXCEPT ![n] = asRolloutNode(Absent)]
    BY <1>a, <2>1, WriteEffect, RolloutWrite
  <2>3. asRolloutNode(Absent) = Rollout!Gone
    BY DEF asRolloutNode, Rollout!Gone
  <2>4. rolloutNode[n] # Rollout!Gone
    BY <1>b, <2>1 DEF asRolloutNode, Rollout!Gone
  <2> QED
    BY <2>2, <2>3, <2>4 DEF Rollout!Next, Rollout!Leave, Rollout!Here, Rollout!Becomes
<1>7. ~NodeReboot(n)
  BY DEF NodeReboot, Disturb
<1> QED
  BY <1>2, <1>3, <1>4, <1>5, <1>6, <1>7 DEF KMMStep, EnvironmentStep

-----------------------------------------------------------------------------
\* The clusters the operator starts on are initial states of the abstract
\* specification.
LEMMA RolloutInit == Init => Rollout!Init
<1> SUFFICES ASSUME Init PROVE Rollout!Init
  OBVIOUS
<1>1. PICK nodes \in [Node -> {Absent, FreshNode}
                                \cup [version : Version, ready : Version, taints : {{}}]] :
        /\ \A n \in Listed(nodes) : nodes[n].version = nodes[n].ready
        /\ stream = <<nodes>>
  BY DEF Init
<1>2. Api = nodes
  BY <1>1 DEF Api
<1> DEFINE Initial == {Rollout!Gone} \cup
                       {[target |-> v, driver |-> v, service |-> "open"] : v \in Version \cup {NoVersion}}
<1>3. ASSUME NEW n \in Node PROVE asRolloutNode(nodes[n]) \in Initial
  <2>1. CASE nodes[n] = Absent
    BY <2>1 DEF asRolloutNode, Rollout!Gone
  <2>2. CASE nodes[n] # Absent
    <3>1. /\ nodes[n].version \in Version \cup {NoVersion}
          /\ nodes[n].ready = nodes[n].version
          /\ UpgradeTaint \notin nodes[n].taints
      BY <1>1, <2>2 DEF Listed, FreshNode
    <3>2. asRolloutNode(nodes[n]) = State(nodes[n].version, nodes[n].version, "open")
      BY <2>2, <3>1, AsState DEF Service
    <3> QED
      BY <3>1, <3>2 DEF State
  <2> QED
    BY <2>1, <2>2
<1> QED
  BY <1>2, <1>3 DEF rolloutNode, Rollout!Init

\* Every step is one of the abstract specification, or leaves its nodes alone.
LEMMA RolloutStep ==
  ASSUME FreshReads, "reboot" \notin Faults, OneNodeInv, [Next]_vars
  PROVE  [Rollout!Next]_rolloutNode
<1>a. TypeOK
  BY DEF OneNodeInv, DrainInv
<1>1. CASE UncordonUpgradedNode
  BY <1>1, UncordonGivesBack
<1>2. CASE CordonNodeForUpgrade
  BY <1>2, CordonDrains
<1>3. CASE KickoffUpgrade
  BY <1>3, KickoffAssigns
<1>4. CASE \E n \in Node : KMMStep(n) \/ EnvironmentStep(n)
  BY <1>4, OthersStep
<1>5. CASE UNCHANGED stream
  BY <1>5, RolloutUnmoved DEF Api
<1>6. CASE Crash
  BY <1>6, RolloutUnmoved DEF Crash, Api
<1>7. CASE FindDeviceConfigForNodeChange \/ DroppedEvent
  BY <1>a, <1>7, WatchKeepsApi, RolloutUnmoved DEF FindDeviceConfigForNodeChange, DroppedEvent
<1> QED
  BY <1>1, <1>2, <1>3, <1>4, <1>5, <1>6, <1>7
     DEF Next, vars, ReconcileStep, Reconcile, handleKMMModule, NoRollingUpgrade, GetTargetedNodes,
         ReturnNil, PatchNotFound, ReturnError, Resync, ChangeVersion

\* handleModuleVersionUpgrade, with KMM and whatever disturbs it, implements the
\* rollout it is for: with lists that are fresh, and no reboots.
THEOREM RollingUpgradeImplementsRollout ==
  ASSUME FreshReads, "reboot" \notin Faults
  PROVE  Spec => ImplementsRollout
<1>1. Init => OneNodeInv /\ Rollout!Init
  BY OneNodeInit, RolloutInit
<1>2. OneNodeInv /\ [Next]_vars => OneNodeInv'
  BY OneNodeStep
<1>3. OneNodeInv /\ [Next]_vars => [Rollout!Next]_rolloutNode
  BY RolloutStep
<1> QED
  BY <1>1, <1>2, <1>3, PTL DEF Spec, ImplementsRollout, Rollout!Spec

-----------------------------------------------------------------------------
(* What NodeRollout is worth: its steps, each of one node that is ready for it, *)
(* keep the nodes together.                                                     *)

NodeState == [target : Version \cup {NoVersion}, driver : Version \cup {NoVersion},
              service : {"open", "drained"}]

\* A driver that is not the one asked for is on a node without workloads, and no two
\* nodes are on their way to one version.
Promised ==
  /\ \A n \in Node :
       Rollout!Here(n) /\ rolloutNode[n].driver \notin {NoVersion, rolloutNode[n].target}
         => rolloutNode[n].service = "drained"
  /\ \A v \in Version, m, n \in Node : Rollout!Swapping(m, v) /\ Rollout!Swapping(n, v) => m = n

PromiseInv ==
  /\ rolloutNode \in [Node -> NodeState \cup {Rollout!Gone}]
  /\ \A n \in Node : Rollout!Here(n) /\ rolloutNode[n].target = NoVersion
                       => rolloutNode[n].driver = NoVersion
  /\ Promised

\* One node changes; it is not on its way to a version unless it was, or nobody is.
LEMMA PromiseKept ==
  ASSUME PromiseInv, NEW n \in Node, NEW state \in NodeState,
         Rollout!Becomes(n, state),
         state.target = NoVersion => state.driver = NoVersion,
         state.driver \notin {NoVersion, state.target} => state.service = "drained",
         \/ state.driver = state.target
         \/ Rollout!Swapping(n, state.target)
         \/ \A m \in Node : ~Rollout!Swapping(m, state.target)
  PROVE  PromiseInv'
<1>1. /\ rolloutNode \in [Node -> NodeState \cup {Rollout!Gone}]
      /\ rolloutNode' = [rolloutNode EXCEPT ![n] = state]
  BY DEF PromiseInv, Rollout!Becomes
<1>2. rolloutNode'[n] = state /\ \A m \in Node \ {n} : rolloutNode'[m] = rolloutNode[m]
  BY <1>1
<1>3. rolloutNode' \in [Node -> NodeState \cup {Rollout!Gone}]
  BY <1>1
<1>4. \A m \in Node : Rollout!Here(m)' /\ rolloutNode'[m].target = NoVersion
                       => rolloutNode'[m].driver = NoVersion
  BY <1>2 DEF PromiseInv, Rollout!Here
<1>5. \A m \in Node :
        Rollout!Here(m)' /\ rolloutNode'[m].driver \notin {NoVersion, rolloutNode'[m].target}
          => rolloutNode'[m].service = "drained"
  BY <1>2 DEF PromiseInv, Promised, Rollout!Here
<1>6. \A v \in Version, m \in Node \ {n} : Rollout!Swapping(m, v)' <=> Rollout!Swapping(m, v)
  BY <1>2 DEF Rollout!Swapping, Rollout!Here
<1>7. \A v \in Version : Rollout!Swapping(n, v)' => state.target = v /\ state.driver # v
  BY <1>2 DEF Rollout!Swapping
<1>8. ASSUME NEW v \in Version, NEW k \in Node, NEW m \in Node,
             Rollout!Swapping(k, v)', Rollout!Swapping(m, v)'
      PROVE  k = m
  BY <1>6, <1>7, <1>8 DEF PromiseInv, Promised
<1> QED BY <1>3, <1>4, <1>5, <1>8 DEF PromiseInv, Promised

LEMMA PromiseInit == Rollout!Init => PromiseInv
<1> SUFFICES ASSUME Rollout!Init PROVE PromiseInv
  OBVIOUS
<1>1. \A v \in Version \cup {NoVersion} :
        State(v, v, "open") \in NodeState /\ State(v, v, "open").target = State(v, v, "open").driver
  BY DEF State, NodeState
<1>2. \A n \in Node : \/ rolloutNode[n] = Rollout!Gone
                      \/ /\ rolloutNode[n] \in NodeState
                         /\ rolloutNode[n].target = rolloutNode[n].driver
  BY <1>1 DEF Rollout!Init, State
<1>3. rolloutNode \in [Node -> NodeState \cup {Rollout!Gone}]
  BY <1>2 DEF Rollout!Init
<1> QED BY <1>2, <1>3 DEF PromiseInv, Promised, Rollout!Here, Rollout!Swapping

LEMMA PromiseStep ==
  ASSUME PromiseInv, Rollout!Next PROVE PromiseInv'
<1>1. PICK n \in Node : \/ Rollout!Drain(n) \/ Rollout!Assign(n) \/ Rollout!Unload(n)
                        \/ Rollout!Load(n) \/ Rollout!GiveBack(n) \/ Rollout!Join(n) \/ Rollout!Leave(n)
  BY DEF Rollout!Next
<1>2. Rollout!Here(n) => rolloutNode[n] \in NodeState
  BY DEF PromiseInv, Rollout!Here
<1>a. Rollout!Here(n) /\ rolloutNode[n].target = NoVersion => rolloutNode[n].driver = NoVersion
  BY DEF PromiseInv
<1>b. Rollout!Here(n) /\ rolloutNode[n].driver \notin {NoVersion, rolloutNode[n].target}
        => rolloutNode[n].service = "drained"
  BY DEF PromiseInv, Promised
<1>c. Rollout!Here(n) /\ rolloutNode[n].driver # rolloutNode[n].target
        => Rollout!Swapping(n, rolloutNode[n].target)
  BY DEF Rollout!Swapping
<1>3. CASE Rollout!Drain(n)
  <2> DEFINE next == [rolloutNode[n] EXCEPT !.service = "drained"]
  <2>1. Rollout!Here(n) /\ Rollout!Becomes(n, next)
    BY <1>3 DEF Rollout!Drain
  <2>2. /\ next \in NodeState
        /\ next.target = rolloutNode[n].target
        /\ next.driver = rolloutNode[n].driver /\ next.service = "drained"
    BY <1>2, <2>1 DEF NodeState
  <2>3. rolloutNode[n].service = "open"
    BY <1>3 DEF Rollout!Drain
  <2> HIDE DEF next
  <2> QED BY <1>a, <1>b, <1>c, <2>1, <2>2, <2>3, PromiseKept
<1>4. CASE Rollout!Assign(n)
  <2>1. PICK v \in Version : /\ \A m \in Node : ~Rollout!Swapping(m, v)
                             /\ Rollout!Becomes(n, [rolloutNode[n] EXCEPT !.target = v])
    BY <1>4 DEF Rollout!Assign
  <2>2. /\ v # NoVersion
        /\ Rollout!Here(n) /\ (rolloutNode[n].service = "drained" \/ rolloutNode[n].target = NoVersion)
    BY <1>4, VersionAssumption DEF Rollout!Assign
  <2> DEFINE next == [rolloutNode[n] EXCEPT !.target = v]
  <2>3. /\ next \in NodeState
        /\ next.target = v
        /\ next.driver = rolloutNode[n].driver /\ next.service = rolloutNode[n].service
    BY <1>2, <2>2 DEF NodeState
  <2>4. Rollout!Becomes(n, next)
    BY <2>1
  <2> HIDE DEF next
  <2> QED BY <1>a, <2>1, <2>2, <2>3, <2>4, PromiseKept
<1>5. CASE Rollout!Unload(n)
  <2> DEFINE next == [rolloutNode[n] EXCEPT !.driver = NoVersion]
  <2>1. Rollout!Here(n) /\ Rollout!Becomes(n, next)
    BY <1>5 DEF Rollout!Unload
  <2>2. /\ next \in NodeState
        /\ next.target = rolloutNode[n].target
        /\ next.driver = NoVersion /\ next.service = rolloutNode[n].service
    BY <1>2, <2>1 DEF NodeState
  <2>3. rolloutNode[n].driver \notin {NoVersion, rolloutNode[n].target}
    BY <1>5 DEF Rollout!Unload
  <2> HIDE DEF next
  <2> QED BY <1>a, <1>b, <1>c, <2>1, <2>2, <2>3, PromiseKept
<1>6. CASE Rollout!Load(n)
  <2> DEFINE next == [rolloutNode[n] EXCEPT !.driver = rolloutNode[n].target]
  <2>1. Rollout!Here(n) /\ Rollout!Becomes(n, next)
    BY <1>6 DEF Rollout!Load
  <2>2. /\ next \in NodeState
        /\ next.target = rolloutNode[n].target
        /\ next.driver = rolloutNode[n].target
    BY <1>2, <2>1 DEF NodeState
  <2>3. rolloutNode[n].target # NoVersion
    BY <1>6 DEF Rollout!Load
  <2> HIDE DEF next
  <2> QED BY <1>a, <1>b, <1>c, <2>1, <2>2, <2>3, PromiseKept
<1>7. CASE Rollout!GiveBack(n)
  <2> DEFINE next == [rolloutNode[n] EXCEPT !.service = "open"]
  <2>1. Rollout!Here(n) /\ Rollout!Becomes(n, next)
    BY <1>7 DEF Rollout!GiveBack
  <2>2. /\ next \in NodeState
        /\ next.target = rolloutNode[n].target
        /\ next.driver = rolloutNode[n].driver
    BY <1>2, <2>1 DEF NodeState
  <2>3. rolloutNode[n].driver = rolloutNode[n].target
    BY <1>7 DEF Rollout!GiveBack
  <2> HIDE DEF next
  <2> QED BY <1>a, <1>b, <1>c, <2>1, <2>2, <2>3, PromiseKept
<1>8. CASE Rollout!Join(n)
  <2>1. Rollout!New \in NodeState /\ Rollout!New.target = NoVersion /\ Rollout!New.driver = NoVersion
    BY DEF NodeState, Rollout!New
  <2> QED BY <1>8, <2>1, PromiseKept DEF Rollout!Join
<1>9. CASE Rollout!Leave(n)
  <2>1. /\ rolloutNode \in [Node -> NodeState \cup {Rollout!Gone}]
        /\ rolloutNode' = [rolloutNode EXCEPT ![n] = Rollout!Gone]
    BY <1>9 DEF Rollout!Leave, PromiseInv, Rollout!Becomes
  <2>2. rolloutNode'[n] = Rollout!Gone /\ \A m \in Node \ {n} : rolloutNode'[m] = rolloutNode[m]
    BY <2>1
  <2> QED BY <2>1, <2>2 DEF PromiseInv, Promised, Rollout!Here, Rollout!Swapping
<1> QED BY <1>1, <1>3, <1>4, <1>5, <1>6, <1>7, <1>8, <1>9

\* The rollout as NodeRollout has it, anybody taking a step of it at any time: no node
\* has workloads on a driver that is being taken away, and one version is rolled out
\* one node at a time.
THEOREM RolloutPromises == Rollout!Spec => []Promised
<1>1. PromiseInv /\ [Rollout!Next]_rolloutNode => PromiseInv'
  <2>1. PromiseInv /\ UNCHANGED rolloutNode => PromiseInv'
    BY DEF PromiseInv, Promised, Rollout!Here, Rollout!Swapping
  <2> QED BY <2>1, PromiseStep
<1>2. PromiseInv => Promised
  BY DEF PromiseInv
<1> QED BY <1>1, <1>2, PromiseInit, PTL DEF Rollout!Spec
=============================================================================
