-------------------------- MODULE MCRollingUpgrade --------------------------
(***************************************************************************)
(* Small instances of RollingUpgrade for TLC.                              *)
(***************************************************************************)
EXTENDS RollingUpgrade, TLC

\* Nodes that are all selected, or all unselected, are interchangeable.
NodeSymmetry == Permutations(Node)
=============================================================================
