---------------------------- MODULE NodeRollout ----------------------------
(***************************************************************************)
(* What a rolling upgrade promises, said of the nodes alone: no lists, no  *)
(* cache, no queue, no Reconcile.  Anybody may take a step at any time; a  *)
(* step is only ever taken on a node that is ready for it.                 *)
(*                                                                         *)
(* RollingUpgrade implements this specification (see Rollout there).       *)
(***************************************************************************)

CONSTANTS Node, Version, NoVersion

VARIABLE node   \* [Node -> [target, driver, service] or Gone]

Gone == [gone |-> TRUE]

\* target is the version the node is told to run, driver the one it runs; the node
\* is open to workloads or drained of them.
New == [target |-> NoVersion, driver |-> NoVersion, service |-> "open"]

Init ==
  node \in [Node -> {Gone} \cup
                    {[target |-> v, driver |-> v, service |-> "open"] : v \in Version \cup {NoVersion}}]

Here(n) == node[n] # Gone

Swapping(n, v) == Here(n) /\ node[n].target = v /\ node[n].driver # v

Becomes(n, state) == node' = [node EXCEPT ![n] = state]

\* The workloads go, before anything else happens to a node that has some.
Drain(n) ==
  /\ Here(n) /\ node[n].service = "open"
  /\ Becomes(n, [node[n] EXCEPT !.service = "drained"])

\* A node is sent to a version when it is drained, or new, and no other node is
\* on its way to that version.
Assign(n) ==
  /\ Here(n)
  /\ node[n].service = "drained" \/ node[n].target = NoVersion
  /\ \E v \in Version : /\ v # node[n].target
                        /\ \A m \in Node : ~Swapping(m, v)
                        /\ Becomes(n, [node[n] EXCEPT !.target = v])

\* The driver is taken away under no workload.
Unload(n) ==
  /\ Here(n)
  /\ node[n].driver \notin {NoVersion, node[n].target}
  /\ node[n].service = "drained"
  /\ Becomes(n, [node[n] EXCEPT !.driver = NoVersion])

Load(n) ==
  /\ Here(n)
  /\ node[n].driver = NoVersion /\ node[n].target # NoVersion
  /\ Becomes(n, [node[n] EXCEPT !.driver = node[n].target])

\* The workloads may come back to the driver they were promised.
GiveBack(n) ==
  /\ Here(n)
  /\ node[n].service = "drained" /\ node[n].driver = node[n].target
  /\ Becomes(n, [node[n] EXCEPT !.service = "open"])

Join(n) == node[n] = Gone /\ Becomes(n, New)

Leave(n) == Here(n) /\ Becomes(n, Gone)

Next == \E n \in Node : Drain(n) \/ Assign(n) \/ Unload(n) \/ Load(n) \/ GiveBack(n)
                          \/ Join(n) \/ Leave(n)

Spec == Init /\ [][Next]_node
=============================================================================
