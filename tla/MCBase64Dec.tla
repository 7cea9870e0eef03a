---------------------------- MODULE MCBase64Dec ----------------------------
(***************************************************************************)
(* Base64Dec over streams of up to two groups and a tail: a whole group    *)
(* before a whole, padded or bad one with a short tail, padding with more  *)
(* data behind it, and whitespace inside a group, between groups and at    *)
(* the end.                                                                *)
(***************************************************************************)
EXTENDS Base64Dec

Data == <<"data", "data", "data", "data">>
OnePad == <<"data", "data", "data", "pad">>
TwoPads == <<"data", "data", "pad", "pad">>
Bad == <<"data", "pad", "data", "bad">>

Compact ==
  {Data \o g \o <<"data", "data">> : g \in {Data, OnePad, Bad}} \cup {TwoPads \o Data}

SpaceIn(s, n) == SubSeq(s, 1, n) \o <<"space">> \o SubSeq(s, n + 1, Len(s))

Spaced ==
  {SpaceIn(SpaceIn(Data \o OnePad, 6), 3),
   SpaceIn(OnePad, 4), SpaceIn(TwoPads \o <<"data">>, 4), SpaceIn(Data \o <<"data", "data">>, 5)}

AllStreams ==
  {[k \in DOMAIN s |-> [kind |-> s[k], place |-> k]] : s \in Compact \cup Spaced}

SomeRooms == {0, 1, 4, 6}

=============================================================================
