---------------------------- MODULE MCGuestEntry ----------------------------
(* GuestEntry for TLC: one wedding, on a pad of two keys. *)
EXTENDS GuestEntry

OneWedding == {<<"1", "0", "1", "0">>}
=============================================================================
