---------------------------- MODULE MCInputStore ----------------------------
(* Three uploads of two, two and one bytes into a store of four bytes. *)
EXTENDS InputStore, TLC

CONSTANTS u1, u2, u3

MCUploads == {u1, u2, u3}
MCBytes == (u1 :> {1, 2}) @@ (u2 :> {3, 4}) @@ (u3 :> {5})
=============================================================================
