----------------------------- MODULE CodecCall -----------------------------
(***************************************************************************)
(* One call of a codec and the driver that makes it, shared by the modules *)
(* of the codecs.  A call runs in steps; `at` is the place in its code.    *)
(*                                                                         *)
(* The driver keeps the contract of protocol.rs and nothing more: it cuts  *)
(* the stream as it likes, offers again what was not consumed, possibly    *)
(* with more after it, and after Err, or Done of `finish`, it stops.       *)
(***************************************************************************)
EXTENDS Protocol, Sequences, SequencesExt

CONSTANTS
  Streams,  \* the streams a driver may have
  Rooms     \* bound: lengths of the output of a call

ASSUME CallAssumption == Rooms \subseteq Nat

VARIABLES
  stream,    \* all bytes the driver will offer
  taken,     \* bytes of it the codec has reported as consumed
  retained,  \* bytes offered in the last process and not consumed
  out,       \* everything the calls have written
  last,      \* the last call that returned, with its answer, until the next
  ended,     \* `finish` was called
  op,        \* the call in progress, or "idle"
  at,        \* the place in its code
  input,     \* length of its input
  room,      \* length of its output
  consumed,  \* in_pos
  buffer     \* the bytes it wrote, output[..out_pos]

callVars == <<stream, taken, retained, out, last, ended, op, at, input, room, consumed, buffer>>

NoCall == [op |-> "none", input |-> 0, room |-> 0, answer |-> Answer("Done", 0, 0, NoKind)]

CallInit ==
  /\ stream \in Streams
  /\ taken = 0 /\ retained = 0 /\ out = <<>> /\ last = NoCall /\ ended = FALSE
  /\ op = "idle" /\ at = "idle" /\ input = 0 /\ room = 0 /\ consumed = 0 /\ buffer = <<>>

-----------------------------------------------------------------------------
(* The buffers of the call.                                                *)

First(s, n) == SubSeq(s, 1, n)
Skip(s, n)  == SubSeq(s, n + 1, Len(s))

Shorter(m, n) == IF m < n THEN m ELSE n

\* What of s fits into the space, and what stays.
Fits(s, space)  == First(s, Shorter(Len(s), space))
Stays(s, space) == Skip(s, Shorter(Len(s), space))

Free == room - Len(buffer)

\* input[a..b]
Slice(a, b) == SubSeq(stream, taken + a + 1, taken + b)

Remaining == Slice(consumed, input)

\* The stream up to the byte at `n` of this input.
Upto(n) == First(stream, taken + n)

-----------------------------------------------------------------------------
(* The driver.                                                             *)

Failed == last.answer.tag = "Err"

Over == Failed \/ (last.op = "finish" /\ last.answer.tag = "Done")

Begin(name, i, o) ==
  /\ op = "idle" /\ ~Over
  /\ op' = name /\ at' = "entry" /\ input' = i /\ room' = o /\ last' = NoCall
  /\ UNCHANGED <<stream, taken, retained, out, ended, consumed, buffer>>

CallProcess ==
  /\ ~ended
  /\ \E i \in retained..(Len(stream) - taken), o \in Rooms : Begin("process", i, o)

CallFlush == ~ended /\ \E o \in Rooms : Begin("flush", 0, o)

CallFinish == \E o \in Rooms : Begin("finish", 0, o)

\* The driver takes as many bytes of the output as the answer claims.
Garbage == <<>>

Committed(n) == [k \in 1..n |-> IF k <= Len(buffer) THEN buffer[k] ELSE Garbage]

\* The call returns a, and the driver accounts for it.
Return(a) ==
  /\ last' = [op |-> op, input |-> input, room |-> room, answer |-> a]
  /\ taken' = taken + a.consumed
  /\ out' = out \o Committed(a.written)
  /\ retained' = IF op = "process" THEN input - a.consumed ELSE retained
  /\ ended' = (op = "finish")
  /\ op' = "idle" /\ at' = "idle" /\ input' = 0 /\ room' = 0
  /\ consumed' = 0 /\ buffer' = <<>>
  /\ UNCHANGED stream

InputConsumed    == Answer("InputConsumed", input, Len(buffer), NoKind)
Done             == Answer("Done", 0, Len(buffer), NoKind)
Error(kind, pos) == Answer("Err", pos, Len(buffer), kind)

\* A codec that answers OutputFilled claims the whole output.
OutputFilled(c) == Answer("OutputFilled", c, room, NoKind)

\* A step inside the call: on to `place`, c bytes further, writing bytes.
Goes(place, c, bytes) ==
  /\ at' = place /\ consumed' = consumed + c /\ buffer' = buffer \o bytes
  /\ UNCHANGED <<stream, taken, retained, out, last, ended, op, input, room>>

Stopped == op = "idle" /\ Over /\ UNCHANGED callVars

=============================================================================
