----------------------------- MODULE MCSessions -----------------------------
(* Instances of Sessions for TLC. *)
EXTENDS Sessions, TLC

Symmetry ==
    Permutations(Calls) \cup Permutations(Tokens \ LegacyTokens)
=============================================================================
