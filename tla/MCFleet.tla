------------------------------ MODULE MCFleet ------------------------------
(***************************************************************************)
(* Small instances of Fleet for TLC.                                       *)
(***************************************************************************)
EXTENDS Fleet

CONSTANTS d1, v1, p1

\* The names of versions and pools are interchangeable, and a symmetry set would not
\* be sound for liveness: let d1 ask for these.  It has all nodes at first, and none
\* of them at that version, so that there is a rollout to disturb from its beginning.
FirstSpec ==
  /\ spec[d1] = [version |-> v1, selector |-> p1]
  /\ \A n \in Node : pool[n] = p1
  /\ \A d \in DeviceConfig, n \in Node : label[d][n] # v1

MCInit == Init /\ FirstSpec

MCFairSpec == MCInit /\ [][Next]_vars /\ Fairness
=============================================================================
