----------------------------- MODULE MCDAGMerge -----------------------------
(* Instances of DAGMerge for TLC.                                            *)
EXTENDS DAGMerge
=============================================================================
