------------------------------ MODULE StartUp ------------------------------
(***************************************************************************)
(* The start of the operator's process, main and                           *)
(* CreateKubeletKubeRootCAConfigMap: before it asks for the leader's lease *)
(* each process reads the two certificate authorities and writes them into *)
(* one ConfigMap, which the device plugin's pods mount.  Whatever fails on *)
(* the way ends the process, and the kubelet starts it again.              *)
(*                                                                         *)
(* The Deployment has one replica, but replacing it (an update, a node     *)
(* that is lost) has two processes run at once.                            *)
(***************************************************************************)
EXTENDS Naturals

CONSTANTS Process,     \* processes that may run at once
          Nobody,      \* nobody holds the lease
          Absent,      \* no ConfigMap
          MaxCA,       \* bound on the rotations of each authority
          MaxCrashes   \* bound on crashes

ASSUME NobodyAssumption == Nobody \notin Process /\ Process # {}
ASSUME BoundAssumption == MaxCA \in Nat \ {0} /\ MaxCrashes \in Nat

\* An authority is the number of its rotation; None is a ConfigMap, or a key in it,
\* that is missing.
None == 0
CA == None .. MaxCA
Authority == {"kubelet", "root"}

\* What CreateKubeletKubeRootCAConfigMap puts together.
Bundle == [Authority -> CA \ {None}]

ASSUME AbsentAssumption == Absent \notin Bundle

VARIABLES source,     \* [Authority -> CA]: kubelet-serving-ca and kube-root-ca.crt
          bundle,     \* kube-root-kubelet-ca, or Absent
          pc,         \* [Process -> PC]
          read,       \* [Process -> [Authority -> CA]]: what it has read; of use until it has written
          got,        \* [Process -> Got]: what Get of the bundle returned
          lease,      \* the leader election's lease
          crashes     \* so far

vars == <<source, bundle, pc, read, got, lease, crashes>>

PC == {"down", "kubelet", "root", "get", "write", "wait", "leading"}

\* A ConfigMap that was changed since has another resourceVersion.
Got == {"nothing", "absent", "present", "changed"}

NothingRead == [a \in Authority |-> None]

TypeOK ==
  /\ source \in [Authority -> CA]
  /\ bundle \in Bundle \cup {Absent}
  /\ pc \in [Process -> PC]
  /\ read \in [Process -> [Authority -> CA]]
  /\ got \in [Process -> Got]
  /\ lease \in Process \cup {Nobody}
  /\ crashes \in 0 .. MaxCrashes

\* The operator is installed on a cluster that has both authorities, or not yet.
Init ==
  /\ source \in [Authority -> {None, 1}]
  /\ bundle = Absent
  /\ pc = [p \in Process |-> "down"]
  /\ read = [p \in Process |-> NothingRead]
  /\ got = [p \in Process |-> "nothing"]
  /\ lease = Nobody
  /\ crashes = 0

-----------------------------------------------------------------------------
(* Plausible mistakes, to try in the place of the definition each one names; *)
(* nothing uses them.                                                        *)

\* The error is logged and the start goes on.
loggedOnly(p) ==
  /\ pc' = [pc EXCEPT ![p] = "wait"]
  /\ UNCHANGED <<read, got, lease>>

\* A missing key is an empty string.
emptyIfMissing(a) == TRUE

\* Create alone: the ConfigMap of an earlier start makes it fail.
createOnly(p) == IF bundle = Absent THEN "created" ELSE "error"

\* Create alone, and AlreadyExists is no error.
createIfAbsent(p) == IF bundle = Absent THEN "created" ELSE "unchanged"

-----------------------------------------------------------------------------
(* main *)

\* os.Exit: what the process had in memory is gone, its lease is not.
FatalError(p) ==
  /\ pc' = [pc EXCEPT ![p] = "down"]
  /\ read' = [read EXCEPT ![p] = NothingRead]
  /\ got' = [got EXCEPT ![p] = "nothing"]
  /\ UNCHANGED lease

\* Flags, configuration, manager, controller and bootstrap client.
Start(p) ==
  /\ pc[p] = "down"
  /\ pc' = [pc EXCEPT ![p] = "kubelet"]
  /\ UNCHANGED <<source, bundle, read, got, lease, crashes>>

\* getConfigMapData fails without the ConfigMap and without the key.
getConfigMapData(a) == source[a] # None

Read(p, a, next) ==
  /\ pc[p] = a
  /\ \/ /\ getConfigMapData(a)
        /\ read' = [read EXCEPT ![p][a] = source[a]]
        /\ pc' = [pc EXCEPT ![p] = next]
        /\ UNCHANGED <<got, lease>>
     \/ /\ ~getConfigMapData(a)
        /\ FatalError(p)
  /\ UNCHANGED <<source, bundle, crashes>>

\* controllerutil.CreateOrUpdate, its Get and its write.
GetBundle(p) ==
  /\ pc[p] = "get"
  /\ pc' = [pc EXCEPT ![p] = "write"]
  /\ got' = [got EXCEPT ![p] = IF bundle = Absent THEN "absent" ELSE "present"]
  /\ UNCHANGED <<source, bundle, read, lease, crashes>>

\* AlreadyExists and Conflict are errors like any other.
CreateOrUpdate(p) ==
  IF got[p] = "absent" THEN IF bundle = Absent THEN "created" ELSE "error"
  ELSE IF got[p] = "changed" THEN "error"
  ELSE IF bundle = read[p] THEN "unchanged" ELSE "updated"

\* What the others have got is not what is there any more.
Changed == [p \in Process |-> IF got[p] = "present" THEN "changed" ELSE got[p]]

WriteBundle(p) ==
  /\ pc[p] = "write"
  /\ \/ /\ CreateOrUpdate(p) \in {"created", "updated"}
        /\ bundle' = read[p]
        /\ pc' = [pc EXCEPT ![p] = "wait"]
        /\ got' = [Changed EXCEPT ![p] = "nothing"]
        /\ UNCHANGED <<read, lease>>
     \/ /\ CreateOrUpdate(p) = "unchanged"
        /\ pc' = [pc EXCEPT ![p] = "wait"]
        /\ got' = [got EXCEPT ![p] = "nothing"]
        /\ UNCHANGED <<bundle, read, lease>>
     \/ /\ CreateOrUpdate(p) = "error"
        /\ FatalError(p)
        /\ UNCHANGED bundle
  /\ UNCHANGED <<source, crashes>>

\* mgr.Start: the controllers run once the lease is had.
Lead(p) ==
  /\ pc[p] = "wait" /\ lease = Nobody
  /\ pc' = [pc EXCEPT ![p] = "leading"]
  /\ lease' = p
  /\ UNCHANGED <<source, bundle, read, got, crashes>>

-----------------------------------------------------------------------------
(* The others *)

\* Any other error of main, a lease that could not be renewed, a lost node.
Crash(p) ==
  /\ pc[p] # "down"
  /\ crashes < MaxCrashes /\ crashes' = crashes + 1
  /\ FatalError(p)
  /\ UNCHANGED <<source, bundle>>

\* The lease of a process that does not renew it ends.
Expire(p) ==
  /\ lease = p /\ pc[p] # "leading"
  /\ lease' = Nobody
  /\ UNCHANGED <<source, bundle, pc, read, got, crashes>>

\* The cluster publishes an authority, or the next one.
Rotate(a) ==
  /\ source[a] < MaxCA
  /\ source' = [source EXCEPT ![a] = @ + 1]
  /\ UNCHANGED <<bundle, pc, read, got, lease, crashes>>

-----------------------------------------------------------------------------
ProcessStep(p) ==
  \/ Start(p) \/ Read(p, "kubelet", "root") \/ Read(p, "root", "get")
  \/ GetBundle(p) \/ WriteBundle(p) \/ Lead(p)

Next ==
  \/ \E p \in Process : ProcessStep(p) \/ Crash(p) \/ Expire(p)
  \/ \E a \in Authority : Rotate(a)

Spec == Init /\ [][Next]_vars

\* A process runs, the kubelet starts it again, and a lease ends.
FairSpec == Spec /\ \A p \in Process : WF_vars(ProcessStep(p)) /\ WF_vars(Expire(p))

-----------------------------------------------------------------------------
(* Properties *)

Running(p) == pc[p] \in {"wait", "leading"}

\* "Ensure unified configmap before starting the reconciliation loop": whoever
\* leads, and makes Modules whose pods mount the ConfigMap, leads with one there.
LeaderHasBundle == (\E p \in Process : pc[p] = "leading") => bundle # Absent

\* The ConfigMap follows a rotation with a restart only, and a start that overlaps
\* with another one may put back what is out of date.  But when every process was
\* started since the authorities last changed, it holds what they are now, whatever
\* the starts before did to each other.
RestartRefreshes ==
  (\A p \in Process : Running(p) /\ read[p] = source) => bundle = source

\* Starts that make each other fail (AlreadyExists, Conflict) do not go on doing so:
\* from the time both authorities are there some process comes to lead.
EventuallyLed ==
  <>[](\A a \in Authority : source[a] # None) => <>[](\E p \in Process : pc[p] = "leading")
=============================================================================
