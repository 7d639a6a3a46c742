---------------------------- MODULE MCNodeFilter ----------------------------
(***************************************************************************)
(* Small instances of NodeFilter for TLC.                                  *)
(***************************************************************************)
EXTENDS NodeFilter, TLC
=============================================================================
