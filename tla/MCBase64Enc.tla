---------------------------- MODULE MCBase64Enc ----------------------------
(***************************************************************************)
(* Base64Enc over a stream of two groups and two bytes, which may also end *)
(* earlier, and outputs from nothing to two encoded groups and a symbol.   *)
(* A byte is its place.                                                    *)
(***************************************************************************)
EXTENDS Base64Enc

OneStream == {[k \in 1..8 |-> k]}

SomeRooms == {0, 1, 3, 4, 5, 9}

=============================================================================
