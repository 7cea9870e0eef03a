----------------------------- MODULE MCJsonEnc -----------------------------
(***************************************************************************)
(* JsonEnc over all streams of four plain bytes and quotes, and some with  *)
(* the six-byte escape of a control character.  A byte is its kind         *)
(* and its place in the stream, so that no two are alike.                  *)
(***************************************************************************)
EXTENDS JsonEnc

WidthOfKind == [plain |-> 1, quote |-> 2, control |-> 6]

ByteWidth(b) == WidthOfKind[b[1]]

Placed(kinds) == [k \in DOMAIN kinds |-> <<kinds[k], k>>]

WithControl == {<<"control">>, <<"plain", "control", "plain">>, <<"quote", "control">>}

AllStreams == {Placed(s) : s \in [1..4 -> {"plain", "quote"}] \cup WithControl}

=============================================================================
