----------------------------- MODULE MCPipeline -----------------------------
(* Instances of Pipeline for TLC.                                            *)
EXTENDS Pipeline

\* An empty block, one of one batch and one of two.
Growing == <<0, 1, 2>>

\* A block with fewer batches than the one before it.
Shrinking == <<2, 1>>
=============================================================================
