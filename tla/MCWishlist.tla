----------------------------- MODULE MCWishlist -----------------------------
(* Instance of Wishlist for TLC.  Notification ids and calls are           *)
(* interchangeable.                                                        *)
EXTENDS Wishlist, TLC

Symmetry == Permutations(Notes) \cup Permutations(Calls)
=============================================================================
