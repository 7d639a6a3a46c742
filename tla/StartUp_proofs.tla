--------------------------- MODULE StartUp_proofs ---------------------------
(***************************************************************************)
(* The bundle of certificate authorities, for any number of processes,     *)
(* rotations and crashes.                                                  *)
(***************************************************************************)
EXTENDS StartUp, TLAPS

\* Past its start a process finds the ConfigMap there.
RunningHasBundle == \A p \in Process : Running(p) => bundle # Absent

\* Of processes that are all past their starts one was the last to write, or to find
\* that nothing had to be written.
SomebodyWroteLast ==
  (\A p \in Process : Running(p)) => \E p \in Process : bundle = read[p]

\* Nobody who is going to write has read an authority that was not there.
HasRead ==
  \A p \in Process :
    /\ pc[p] \in {"root", "get", "write"} => read[p]["kubelet"] # None
    /\ pc[p] \in {"get", "write"} => read[p]["root"] # None

StartUpInv == TypeOK /\ HasRead /\ RunningHasBundle /\ SomebodyWroteLast

\* A process that ends is not running, and what it does not do it does to nobody.
LEMMA AfterFatalError ==
  ASSUME TypeOK, HasRead, RunningHasBundle, NEW p \in Process, FatalError(p), UNCHANGED <<bundle, source>>
  PROVE  /\ pc' \in [Process -> PC] /\ read' \in [Process -> [Authority -> CA]]
         /\ got' \in [Process -> Got] /\ lease' \in Process \cup {Nobody}
         /\ HasRead' /\ RunningHasBundle' /\ SomebodyWroteLast'
<1>1. NothingRead \in [Authority -> CA]
  BY BoundAssumption DEF NothingRead, CA, None
<1>2. pc'[p] = "down" /\ ~Running(p)'
  BY DEF FatalError, TypeOK, Running
<1>3. \A q \in Process \ {p} : pc'[q] = pc[q] /\ read'[q] = read[q]
  BY DEF FatalError, TypeOK
<1>4. HasRead'
  BY <1>2, <1>3 DEF HasRead
<1>5. RunningHasBundle'
  BY <1>2, <1>3 DEF RunningHasBundle, Running
<1> QED BY <1>1, <1>2, <1>4, <1>5 DEF FatalError, TypeOK, PC, Got, SomebodyWroteLast

LEMMA StartUpInit == Init => StartUpInv
<1> SUFFICES ASSUME Init PROVE StartUpInv
  OBVIOUS
<1>1. TypeOK
  BY BoundAssumption DEF Init, TypeOK, CA, None, PC, Got, NothingRead
<1>2. PICK p \in Process : pc[p] = "down"
  BY NobodyAssumption DEF Init
<1>3. SomebodyWroteLast
  BY <1>2 DEF SomebodyWroteLast, Running
<1> QED BY <1>1, <1>3 DEF Init, StartUpInv, HasRead, RunningHasBundle, Running

LEMMA StartUpStep == StartUpInv /\ [Next]_vars => StartUpInv'
<1> SUFFICES ASSUME StartUpInv, [Next]_vars PROVE StartUpInv'
  OBVIOUS
<1> USE DEF StartUpInv
<1>1. ASSUME NEW p \in Process, Start(p) PROVE StartUpInv'
  <2>1. TypeOK'
    BY <1>1 DEF Start, TypeOK, PC
  <2>2. HasRead'
    BY <1>1 DEF Start, TypeOK, HasRead
  <2>3. ~Running(p)' /\ RunningHasBundle'
    BY <1>1 DEF Start, TypeOK, Running, RunningHasBundle
  <2> QED BY <2>1, <2>2, <2>3 DEF SomebodyWroteLast
<1>2. ASSUME NEW p \in Process, NEW a \in Authority, NEW next \in {"root", "get"},
             Read(p, a, next), <<a, next>> \in {<<"kubelet", "root">>, <<"root", "get">>}
      PROVE  StartUpInv'
  <2>1. CASE getConfigMapData(a) /\ pc' = [pc EXCEPT ![p] = next]
             /\ read' = [read EXCEPT ![p][a] = source[a]] /\ UNCHANGED <<got, lease>>
    <3>1. UNCHANGED <<source, bundle, crashes>> /\ pc[p] = a
      BY <1>2 DEF Read
    <3>2. TypeOK'
      BY <2>1, <3>1 DEF TypeOK, PC
    <3>3. HasRead'
      BY <1>2, <2>1, <3>1 DEF TypeOK, HasRead, getConfigMapData, Authority
    <3>4. ~Running(p)' /\ RunningHasBundle'
      BY <2>1, <3>1 DEF TypeOK, Running, RunningHasBundle
    <3> QED BY <3>2, <3>3, <3>4 DEF SomebodyWroteLast
  <2>2. CASE FatalError(p)
    BY <1>2, <2>2, AfterFatalError DEF Read, TypeOK
  <2> QED BY <1>2, <2>1, <2>2 DEF Read
<1>3. ASSUME NEW p \in Process, GetBundle(p) PROVE StartUpInv'
  <2>1. TypeOK'
    BY <1>3 DEF GetBundle, TypeOK, PC, Got
  <2>2. HasRead'
    BY <1>3 DEF GetBundle, TypeOK, HasRead
  <2>3. ~Running(p)' /\ RunningHasBundle'
    BY <1>3 DEF GetBundle, TypeOK, Running, RunningHasBundle
  <2> QED BY <2>1, <2>2, <2>3 DEF SomebodyWroteLast
<1>4. ASSUME NEW p \in Process, WriteBundle(p) PROVE StartUpInv'
  <2>1. CASE CreateOrUpdate(p) = "error" /\ FatalError(p) /\ UNCHANGED bundle
    BY <1>4, <2>1, AfterFatalError DEF WriteBundle, TypeOK
  <2>2. CASE CreateOrUpdate(p) # "error"
    <3>1. /\ pc[p] = "write" /\ pc' = [pc EXCEPT ![p] = "wait"]
          /\ UNCHANGED <<source, read, lease, crashes>>
      BY <1>4, <2>2 DEF WriteBundle
    <3>2. got' \in [Process -> Got]
      BY <1>4, <2>2 DEF WriteBundle, Changed, TypeOK, Got
    <3>3. bundle' = read[p]
      BY <1>4, <2>2 DEF WriteBundle, CreateOrUpdate
    <3>4. read[p] \in Bundle
      <4>1. read[p] \in [Authority -> CA]
        BY DEF TypeOK
      <4>2. \A a \in Authority : read[p][a] \in CA \ {None}
        BY <3>1, <4>1 DEF HasRead, Authority
      <4> QED BY <4>1, <4>2 DEF Bundle
    <3>5. TypeOK'
      BY <3>1, <3>2, <3>3, <3>4 DEF TypeOK, PC
    <3>6. HasRead'
      BY <3>1 DEF TypeOK, HasRead
    <3>7. bundle' # Absent
      BY <3>3, <3>4, AbsentAssumption
    <3> QED BY <3>1, <3>3, <3>5, <3>6, <3>7 DEF RunningHasBundle, SomebodyWroteLast
  <2> QED BY <1>4, <2>1, <2>2 DEF WriteBundle
<1>5. ASSUME NEW p \in Process, Lead(p) PROVE StartUpInv'
  <2>1. TypeOK'
    BY <1>5 DEF Lead, TypeOK, PC
  <2>2. HasRead'
    BY <1>5 DEF Lead, TypeOK, HasRead
  <2>3. \A q \in Process : Running(q)' <=> Running(q)
    BY <1>5 DEF Lead, TypeOK, Running
  <2> QED BY <1>5, <2>1, <2>2, <2>3 DEF Lead, RunningHasBundle, SomebodyWroteLast
<1>6. ASSUME NEW p \in Process, Crash(p) PROVE StartUpInv'
  <2>1. crashes' \in 0 .. MaxCrashes
    BY <1>6, BoundAssumption DEF Crash, TypeOK
  <2> QED BY <1>6, <2>1, AfterFatalError DEF Crash, TypeOK
<1>7. ASSUME NEW p \in Process, Expire(p) PROVE StartUpInv'
  BY <1>7 DEF Expire, TypeOK, HasRead, RunningHasBundle, SomebodyWroteLast, Running
<1>8. ASSUME NEW a \in Authority, Rotate(a) PROVE StartUpInv'
  <2>1. TypeOK'
    <3>1. source[a] + 1 \in CA
      BY <1>8, BoundAssumption DEF Rotate, TypeOK, CA, None
    <3> QED BY <1>8, <3>1 DEF Rotate, TypeOK
  <2> QED BY <1>8, <2>1 DEF Rotate, HasRead, RunningHasBundle, SomebodyWroteLast, Running
<1>9. CASE UNCHANGED vars
  BY <1>9 DEF vars, TypeOK, HasRead, RunningHasBundle, SomebodyWroteLast, Running
<1> QED
  <2>1. ASSUME NEW p \in Process, ProcessStep(p) PROVE StartUpInv'
    BY <1>1, <1>2, <1>3, <1>4, <1>5, <2>1 DEF ProcessStep, Authority
  <2> QED BY <1>6, <1>7, <1>8, <1>9, <2>1 DEF Next

LEMMA StartUpInvariant == Spec => []StartUpInv
BY StartUpInit, StartUpStep, PTL DEF Spec

\* What is written is always a whole bundle, both authorities in it.
THEOREM TypeCorrect == Spec => []TypeOK
<1>1. StartUpInv => TypeOK
  BY DEF StartUpInv
<1> QED BY <1>1, StartUpInvariant, PTL

\* CreateKubeletKubeRootCAConfigMap precedes mgr.Start, and every error in between
\* ends the process: no controller runs without the ConfigMap.
THEOREM BundleBeforeLeader == Spec => []LeaderHasBundle
<1>1. StartUpInv => LeaderHasBundle
  BY DEF StartUpInv, RunningHasBundle, Running, LeaderHasBundle
<1> QED BY <1>1, StartUpInvariant, PTL

\* For any number of processes, whose starts may overlap and fail as they like: a
\* restart of each after a rotation brings the ConfigMap up to date.
THEOREM RestartsRefreshBundle == Spec => []RestartRefreshes
<1>1. StartUpInv => RestartRefreshes
  BY DEF StartUpInv, SomebodyWroteLast, RestartRefreshes
<1> QED BY <1>1, StartUpInvariant, PTL
=============================================================================
