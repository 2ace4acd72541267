------------------------- MODULE MCCommitReExecute -------------------------
(* Instances of CommitReExecute for TLC.                                     *)
EXTENDS CommitReExecute

CONSTANTS t1, t2, t3, t4, t5

\* Two pairs; the fifth transaction is on its own.
TwoComponents == <<{t1, t2}, {t3, t4}>>
=============================================================================
