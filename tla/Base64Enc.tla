----------------------------- MODULE Base64Enc -----------------------------
(***************************************************************************)
(* The Base64 encoder (codecs/base64_enc.rs): groups of three bytes become *)
(* four symbols.  A group may straddle calls on the side of the input and  *)
(* on the side of the output; a short one waits for `finish`.              *)
(*                                                                         *)
(* The k-th symbol of a group g is <<g, k>>.                               *)
(***************************************************************************)
EXTENDS Base64Shared

VARIABLE padded  \* does the engine pad a short group

vars == <<sharedVars, padded>>

Init == SharedInit /\ padded \in BOOLEAN

-----------------------------------------------------------------------------
(* Engine::encode_slice of the base64 crate.                               *)

Pad == <<"=">>

EncodedGroup(pad, g) ==
  [k \in 1..(IF pad THEN ENCODED_GROUP ELSE Len(g) + 1) |->
     IF k <= Len(g) + 1 THEN <<g, k>> ELSE Pad]

Encoded(pad, s) ==
  LET groups == Groups(s, GROUP) IN
    FlattenSeq([k \in DOMAIN groups |-> EncodedGroup(pad, groups[k])])

-----------------------------------------------------------------------------
(* process.                                                                *)

DrainFirst == op = "process" /\ Drain("entry", "pending") /\ UNCHANGED pendingInput

\* The group that an earlier call began, when it is full.
TopUp ==
  /\ at = "pending"
  /\ LET n     == Fills(Remaining, GROUP)
         group == pendingInput \o First(Remaining, n)
     IN IF pendingInput = <<>> THEN
          Goes("bulk", 0, <<>>) /\ UNCHANGED <<pendingInput, pendingOutput>>
        ELSE IF Len(group) < GROUP THEN
          /\ pendingInput' = group
          /\ Goes("consumed", n, <<>>) /\ UNCHANGED pendingOutput
        ELSE pendingInput' = <<>> /\ Stage(EncodedGroup(padded, group), consumed + n, n, "filled", "bulk")

BulkRoundedUp ==
  Shorter(Len(Remaining) \div GROUP, (Free + ENCODED_GROUP - 1) \div ENCODED_GROUP)

\* The whole groups that fit both sides.
BulkGroups == Shorter(Len(Remaining) \div GROUP, Free \div ENCODED_GROUP)

Bulk ==
  /\ at = "bulk"
  /\ LET n == BulkGroups * GROUP IN Goes("straddle", n, Encoded(padded, First(Remaining, n)))
  /\ UNCHANGED <<pendingInput, pendingOutput>>

AfterStraddle(n) == IF Len(Remaining) - n >= GROUP THEN "filled" ELSE "leftover"

\* One more group, when a part of it fits.
Straddle ==
  /\ at = "straddle" /\ UNCHANGED pendingInput
  /\ IF Len(Remaining) >= GROUP /\ Free > 0
     THEN Stage(EncodedGroup(padded, First(Remaining, GROUP)), consumed, GROUP,
                AfterStraddle(GROUP), AfterStraddle(GROUP))
     ELSE Goes(AfterStraddle(0), 0, <<>>) /\ UNCHANGED pendingOutput

Leftover ==
  /\ at = "leftover"
  /\ pendingInput' = IF Remaining = <<>> THEN pendingInput ELSE Set(Remaining)
  /\ Goes("consumed", Len(Remaining), <<>>) /\ UNCHANGED pendingOutput

-----------------------------------------------------------------------------
(* finish.                                                                 *)

\* PendingInput::take_partial
Partial ==
  /\ at = "partial"
  /\ pendingInput' = <<>> /\ Stage(EncodedGroup(padded, pendingInput), 0, 0, "filled", "done")

-----------------------------------------------------------------------------

Next ==
  /\ UNCHANGED padded
  /\ \/ Driver
     \/ DrainOnCall \/ DrainFirst \/ TopUp \/ Bulk \/ Straddle \/ Leftover \/ Partial
     \/ ReturnDone \/ ReturnFilled \/ ReturnConsumed
     \/ Stopped /\ UNCHANGED <<pendingInput, pendingOutput>>

EncSpec == Init /\ [][Next]_vars

-----------------------------------------------------------------------------
(* Properties.                                                             *)

Never(pad, s) == FALSE

Honest == INSTANCE HonestCodec WITH
  setting <- padded,
  OutputOf <- Encoded, Corrupt <- Never, Truncated <- Never

\* The encoder keeps the contract of a codec: no cut of input and output shows
\* in the symbols, OutputFilled is said only of a full output, and the padding
\* comes only at the end.
ImplementsHonestCodec == Honest!HonestSpec

=============================================================================
