---------------------------- MODULE MCWeddingIDs ----------------------------
(* WeddingIDs for TLC: accounts and IDs are interchangeable. *)
EXTENDS WeddingIDs, TLC

Symmetry == Permutations(Users) \cup Permutations(IDs)
=============================================================================
