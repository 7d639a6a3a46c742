-------------------------- MODULE DeviceConfigLife --------------------------
(***************************************************************************)
(* What the controller promises of a DeviceConfig from its creation to its *)
(* end: no informers, no queue, no Reconcile, no failures.                 *)
(*                                                                         *)
(* DeviceConfigController implements this specification (see Life there).  *)
(***************************************************************************)

CONSTANT Node

VARIABLES phase,     \* how far the DeviceConfig of this name has come
          objects,   \* of the objects its end waits for, those that are there
          labelled   \* the nodes with a version label

vars == <<phase, objects, labelled>>

Awaited == {"module", "nodeMetrics"}

\* none, or without the finalizer, or with it; deleted, first unnoticed.
Phase == {"none", "new", "held", "deleting", "finalizing"}

TypeOK == phase \in Phase /\ objects \subseteq Awaited /\ labelled \subseteq Node

Init == phase = "none" /\ objects = {} /\ labelled = {}

Noticed == phase = "deleting" /\ phase' = "finalizing"

\* The user's two: the finalizer decides how a deletion goes, and the operator may be
\* ready for it at once.
Create ==
  /\ phase = "none" /\ phase' = "new"
  /\ UNCHANGED <<objects, labelled>>

Delete ==
  /\ \/ phase = "new" /\ phase' = "none"
     \/ phase = "held" /\ phase' \in {"deleting", "finalizing"}
  /\ UNCHANGED <<objects, labelled>>

Hold ==
  /\ phase = "new" /\ phase' = "held"
  /\ UNCHANGED <<objects, labelled>>

\* Things are made only under the finalizer, and no longer than until the deletion is
\* noticed.
Install(object) ==
  /\ phase \in {"held", "deleting"}
  /\ objects' = objects \cup {object}
  /\ UNCHANGED phase \/ Noticed
  /\ UNCHANGED labelled

Label(n) ==
  /\ phase \in {"held", "deleting"}
  /\ labelled' = labelled \cup {n}
  /\ UNCHANGED <<phase, objects>>

Notice == Noticed /\ UNCHANGED <<objects, labelled>>

\* An object may go at any time, by whatever hand; a label only after the deletion is
\* noticed, when the objects are gone.
Lose(object) ==
  /\ objects' = objects \ {object}
  /\ UNCHANGED phase \/ Noticed
  /\ UNCHANGED labelled

Unlabel(n) ==
  /\ phase \notin {"held", "deleting"} /\ objects = {}
  /\ labelled' = labelled \ {n}
  /\ UNCHANGED <<phase, objects>>

\* It may leave labels of other versions than its own behind.
Release ==
  /\ phase = "finalizing" /\ objects = {}
  /\ phase' = "none"
  /\ UNCHANGED <<objects, labelled>>

Next ==
  \/ Create \/ Hold \/ Delete \/ Notice \/ Release
  \/ \E object \in Awaited : Install(object) \/ Lose(object)
  \/ \E n \in Node : Label(n) \/ Unlabel(n)

Spec == Init /\ [][Next]_vars
=============================================================================
