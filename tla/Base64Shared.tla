---------------------------- MODULE Base64Shared ----------------------------
(***************************************************************************)
(* What the two Base64 codecs share (codecs/base64_shared.rs): the input   *)
(* and the output that stay in the codec between calls, and the code of    *)
(* `flush` and `finish`, which is the same in both.                        *)
(***************************************************************************)
EXTENDS CodecCall

GROUP         == 3
ENCODED_GROUP == 4

VARIABLES
  pendingInput,   \* PendingInput: buf[..len]
  pendingOutput   \* PendingOutput: buf[pos..len]

sharedVars == <<callVars, pendingInput, pendingOutput>>

SharedInit == CallInit /\ pendingInput = <<>> /\ pendingOutput = <<>>

-----------------------------------------------------------------------------
(* Groups of a sequence; the last one may be short.                        *)

Groups(s, size) ==
  [k \in 1..((Len(s) + size - 1) \div size) |->
     SubSeq(s, size * (k - 1) + 1, Shorter(size * k, Len(s)))]

\* PendingInput::fill: how many bytes of s a held group of this size takes.
Fills(s, size) == Shorter(size - Len(pendingInput), Len(s))

\* PendingInput::set: a leftover replaces what was held.
Set(tail) == tail

-----------------------------------------------------------------------------

\* PendingOutput::drain at `place`: on to `next`, or the output is full.
Drain(place, next) ==
  /\ at = place
  /\ pendingOutput' = Stays(pendingOutput, Free)
  /\ Goes(IF pendingOutput' = <<>> THEN next ELSE "filled", 0, Fits(pendingOutput, Free))

\* stage_group, and the drain that always follows it: a rendered group of c
\* more bytes of input goes to the output as far as it fits; then on to
\* `held` or `next`.  buffer() refuses as long as an earlier group is held;
\* the error names the position pos.
Stage(bytes, pos, c, held, next) ==
  IF pendingOutput # <<>>
  THEN Return(Error("CodecBufferTooSmall", pos)) /\ UNCHANGED pendingOutput
  ELSE /\ pendingOutput' = Stays(bytes, Free)
       /\ Goes(IF pendingOutput' = <<>> THEN next ELSE held, c, Fits(bytes, Free))

\* What `finish` still has to convert.
HoldsInput == op = "finish" /\ pendingInput # <<>>

\* What `finish` does with a short group waits until the output is drained;
\* `flush` leaves it where it is.
DrainOnCall ==
  /\ op \in {"flush", "finish"}
  /\ Drain("entry", IF HoldsInput THEN "partial" ELSE "done")
  /\ UNCHANGED pendingInput

ReturnDone ==
  /\ at = "done" /\ Return(Done) /\ UNCHANGED <<pendingInput, pendingOutput>>

ReturnFilled ==
  /\ at = "filled" /\ Return(OutputFilled(consumed))
  /\ UNCHANGED <<pendingInput, pendingOutput>>

ReturnConsumed ==
  /\ at = "consumed" /\ Return(InputConsumed)
  /\ UNCHANGED <<pendingInput, pendingOutput>>

Driver ==
  (CallProcess \/ CallFlush \/ CallFinish) /\ UNCHANGED <<pendingInput, pendingOutput>>

=============================================================================
