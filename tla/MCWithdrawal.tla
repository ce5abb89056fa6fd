---------------------------- MODULE MCWithdrawal ----------------------------
(* Instances of Withdrawal for TLC: the sets are given in the .cfg files.  *)
(* No symmetry, because the run checks liveness too.                       *)
EXTENDS Withdrawal
=============================================================================
