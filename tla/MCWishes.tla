------------------------------ MODULE MCWishes ------------------------------
(* Wishes for TLC: automatic document IDs are interchangeable, and so are phones. *)
EXTENDS Wishes, TLC

Symmetry == Permutations(Guests) \cup Permutations(DocIDs)
=============================================================================
