---------------------------- MODULE MCKakaoLink ----------------------------
(* Instances of KakaoLink for TLC: everything but numbers is               *)
(* interchangeable.                                                        *)
EXTENDS KakaoLink, TLC

Symmetry == Permutations(Accounts) \cup Permutations(KakaoIds)
                \cup Permutations(Links) \cup Permutations(Calls)
=============================================================================
