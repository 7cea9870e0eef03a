----------------------------- MODULE Base64Dec -----------------------------
(***************************************************************************)
(* The Base64 decoder (codecs/base64_dec.rs): groups of four symbols       *)
(* become up to three bytes, whitespace is skipped anywhere, a group with  *)
(* fewer bytes ends the stream, and what comes after it is an error -      *)
(* reported after the bytes of that group, in this call or a later one.    *)
(*                                                                         *)
(* A character is a record of its kind and its place in the stream; the    *)
(* k-th byte of a group g is <<g, k>>.                                     *)
(***************************************************************************)
EXTENDS Base64Shared

VARIABLES
  padded,   \* does the engine require the padding, or refuse it
  done,     \* the padded group was seen
  runEnd    \* end of the run in the input of this call

runVars == <<done, runEnd>>
decVars == <<padded, runVars>>
vars    == <<sharedVars, decVars>>

Init ==
  /\ SharedInit
  /\ padded \in BOOLEAN /\ done = FALSE /\ runEnd = 0

-----------------------------------------------------------------------------
(* Engine::decode_slice of the base64 crate, on one group.                 *)

IsSpace(c) == c.kind = "space"

Kinds(g) == [k \in DOMAIN g |-> g[k].kind]

\* n symbols, and padding up to a full group where the engine wants it.
Accepted(pad, g, n) ==
  LET pads == IF pad THEN ENCODED_GROUP - n ELSE 0 IN
    Kinds(g) = [k \in 1..(n + pads) |-> IF k <= n THEN "data" ELSE "pad"]

Decodes(pad, g) == \E n \in 2..ENCODED_GROUP : Accepted(pad, g, n)

DecodedGroup(pad, g) ==
  LET n == CHOOSE n \in 2..ENCODED_GROUP : Accepted(pad, g, n)
  IN  [k \in 1..(n - 1) |-> <<g, k>>]

EndsNever(bytes) == FALSE

\* A group of fewer bytes than three is the last.
EndsStream(bytes) == Len(bytes) < GROUP

-----------------------------------------------------------------------------
(* The reference: a whole stream at once.                                  *)

TextGroups(s) == Groups(SelectSeq(s, LAMBDA c : ~IsSpace(c)), ENCODED_GROUP)

\* How many groups at the start of gs decode, up to the end of the stream.
GoodGroups(pad, gs) ==
  LET good(n) ==
        \A k \in 1..n : Decodes(pad, gs[k]) /\ (k < n => Len(DecodedGroup(pad, gs[k])) = GROUP)
  IN  Max({n \in 0..Len(gs) : good(n)})

Decoded(pad, s) ==
  LET gs == TextGroups(s)
  IN  FlattenSeq([k \in 1..GoodGroups(pad, gs) |-> DecodedGroup(pad, gs[k])])

\* The first group without an output: it does not decode, or follows the end.
HasBadGroup(pad, s) == GoodGroups(pad, TextGroups(s)) < Len(TextGroups(s))

Corrupt(pad, s) ==
  LET gs == TextGroups(s)
      g  == GoodGroups(pad, gs)
  IN  /\ HasBadGroup(pad, s)
      /\ Len(gs[g + 1]) = ENCODED_GROUP \/ (g > 0 /\ Len(DecodedGroup(pad, gs[g])) < GROUP)

Truncated(pad, s) == HasBadGroup(pad, s) /\ ~Corrupt(pad, s)

-----------------------------------------------------------------------------
(* process: the next run of input without whitespace.                      *)

OutputGroups == Free \div GROUP

\* No use in scanning more than the output can take, and two groups for what
\* is held.
WindowGroups == Free \div GROUP + 2

\* The leading characters of s that are, or are not, whitespace.
Leading(s, space) ==
  LET e == SelectInSeq(s, LAMBDA c : IsSpace(c) # space) IN IF e = 0 THEN Len(s) ELSE e - 1

NextRun ==
  /\ op = "process" /\ at \in {"entry", "next"}
  /\ at = "next" => consumed < input
  /\ LET from   == consumed + Leading(Remaining, TRUE)
         window == Slice(from, Shorter(input, from + WindowGroups * ENCODED_GROUP))
     IN /\ runEnd' = from + Leading(window, FALSE)
        /\ Goes("run", from - consumed, <<>>)
  /\ UNCHANGED <<pendingInput, pendingOutput, done>>

ProcessReturns ==
  /\ at = "next" /\ consumed = input
  /\ Return(InputConsumed)
  /\ UNCHANGED <<pendingInput, pendingOutput, runVars>>

-----------------------------------------------------------------------------
(* process_run.                                                            *)

Run == Slice(consumed, runEnd)

TrailingBeforeHeld(n) == IF done' /\ Len(Run) > n THEN "trailing" ELSE "filled"

\* The rest of a group that does not fit comes before any error.
WhenHeld(n) == "filled"

\* After n more bytes of the run, when everything decoded is written.
Onwards(n, place) == IF done' /\ Len(Run) > n THEN "trailing" ELSE place

DrainFirst ==
  /\ Drain("run", IF done THEN (IF Run = <<>> THEN "next" ELSE "trailing") ELSE "pending")
  /\ UNCHANGED <<pendingInput, runVars>>

\* Input after the padded group.
Trailing ==
  /\ at = "trailing" /\ Return(Error("CorruptStream", consumed))
  /\ UNCHANGED <<pendingInput, pendingOutput, runVars>>

\* A short group fails only at the end of the stream.
BadGroup(group) == IF Len(group) < ENCODED_GROUP THEN "UnexpectedEnd" ELSE "CorruptStream"

\* stage_group on a group that ends n bytes ahead; `done` is latched before
\* the bytes are written, the error for trailing input comes after them.
\* A bad group consumes nothing.
DecodeGroup(group, n, place) ==
  IF Decodes(padded, group)
  THEN LET bytes == DecodedGroup(padded, group) IN
         done' = (done \/ EndsStream(bytes)) /\ Stage(bytes, consumed, n, WhenHeld(n), Onwards(n, place))
  ELSE /\ Return(Error(BadGroup(group), consumed))
       /\ UNCHANGED <<pendingOutput, done>>

\* The group that an earlier run began.
TopUp ==
  /\ at = "pending" /\ UNCHANGED runEnd
  /\ LET n     == Fills(Run, ENCODED_GROUP)
         group == pendingInput \o First(Run, n)
     IN IF pendingInput = <<>> THEN
          Goes("bulk", 0, <<>>) /\ UNCHANGED <<pendingInput, pendingOutput, done>>
        ELSE IF Len(group) < ENCODED_GROUP THEN
          /\ pendingInput' = group
          /\ Goes("next", n, <<>>) /\ UNCHANGED <<pendingOutput, done>>
        ELSE pendingInput' = <<>> /\ DecodeGroup(group, n, "bulk")

\* All groups that fit both sides, in one call of the engine.  When one is bad
\* they are left to the loop that follows, which finds it.
Bulk ==
  /\ at = "bulk" /\ UNCHANGED <<pendingInput, pendingOutput, runEnd>>
  /\ LET groups == Shorter(Len(Run) \div ENCODED_GROUP, Free \div GROUP)
         block  == First(Run, groups * ENCODED_GROUP)
         bytes  == Decoded(padded, block)
     IN IF groups = 0 \/ HasBadGroup(padded, block) THEN
          Goes("groups", 0, <<>>) /\ UNCHANGED done
        ELSE
          /\ done' = (Len(bytes) < groups * GROUP)
          /\ Goes(IF done' THEN Onwards(Len(block), "next") ELSE "groups", Len(block), bytes)

OneGroup ==
  /\ at = "groups" /\ Len(Run) >= ENCODED_GROUP /\ UNCHANGED <<pendingInput, runEnd>>
  /\ IF Free = 0
     THEN Goes("filled", 0, <<>>) /\ UNCHANGED <<pendingOutput, done>>
     ELSE DecodeGroup(First(Run, ENCODED_GROUP), ENCODED_GROUP, "groups")

Leftover ==
  /\ at = "groups" /\ Len(Run) < ENCODED_GROUP
  /\ pendingInput' = IF Run = <<>> THEN pendingInput ELSE Set(Run)
  /\ Goes("next", Len(Run), <<>>) /\ UNCHANGED <<pendingOutput, runVars>>

-----------------------------------------------------------------------------
(* finish: a short group is good only at the end, and only without padding.*)

Partial ==
  /\ at = "partial" /\ UNCHANGED runEnd
  /\ pendingInput' = <<>>
  /\ IF Decodes(padded, pendingInput)
     THEN Stage(DecodedGroup(padded, pendingInput), 0, 0, "filled", "done") /\ UNCHANGED done
     ELSE Return(Error(BadGroup(pendingInput), 0)) /\ UNCHANGED <<pendingOutput, done>>

-----------------------------------------------------------------------------

Work ==
  /\ UNCHANGED padded
  /\ \/ NextRun \/ DrainFirst \/ Trailing \/ TopUp \/ Bulk \/ OneGroup \/ Leftover \/ Partial
     \/ ProcessReturns
     \/ (DrainOnCall \/ ReturnDone \/ ReturnFilled) /\ UNCHANGED runVars

Next ==
  \/ Work
  \/ Driver /\ UNCHANGED decVars
  \/ Stopped /\ UNCHANGED vars

\* A call runs until it returns; nobody has to call.
DecSpec == Init /\ [][Next]_vars /\ WF_vars(Work)

-----------------------------------------------------------------------------
(* Properties.                                                             *)

\* Corrupt input fails with all bytes before it written and with the position
\* in or at the bad group, whatever the cut of input and output ("the output
\* before the error does not depend on the output size").
ErrorAtItsCause ==
  [][op = "process" /\ op' = "idle" /\ last'.answer.tag = "Err" =>
       LET seen == Upto(input)
           text == SelectSeq(First(stream, taken'), LAMBDA c : ~IsSpace(c))
           good == GoodGroups(padded, TextGroups(seen)) * ENCODED_GROUP
       IN  /\ last'.answer.kind = "CorruptStream"
           /\ out' = Decoded(padded, seen)
           /\ good <= Len(text) /\ Len(text) < good + ENCODED_GROUP]_vars

Honest == INSTANCE HonestCodec WITH
  setting <- padded,
  OutputOf <- Decoded, Corrupt <- Corrupt, Truncated <- Truncated

\* The decoder keeps the contract of a codec: no cut of input and output shows
\* in the bytes, Done of finish is said of valid streams only, and an error
\* only of invalid ones.
ImplementsHonestCodec == Honest!HonestSpec

\* A call returns: every run of the loop over the input moves something.
CallsReturn == op # "idle" ~> op = "idle"

=============================================================================
