--------------------------- MODULE MCCodeConfirm ---------------------------
(* Model-checking instance of CodeConfirm: calls are interchangeable.      *)
EXTENDS CodeConfirm, TLC

CallSymmetry == Permutations(Calls)
=============================================================================
