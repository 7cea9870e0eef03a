---------------------------- MODULE HonestCodec ----------------------------
(***************************************************************************)
(* What protocol.rs asks of a codec that transforms bytes, and what the    *)
(* drivers rely on: however a driver cuts the stream into calls, the       *)
(* output is the one of a single call, and each answer says truly whether  *)
(* the input was consumed, the output filled, or more output is pending.   *)
(*                                                                         *)
(* One step is one call.  `last` is the call with its answer, until the    *)
(* driver makes another.  The driver offers the bytes after the `taken`    *)
(* first ones of `stream`, at least the `retained` ones it offered before  *)
(* and got back.                                                           *)
(***************************************************************************)
EXTENDS Naturals, Sequences, SequencesExt

CONSTANTS
  OutputOf(_, _),  \* all output for a complete stream, up to its first error
  Corrupt(_, _),   \* the stream cannot be the beginning of a valid one
  Truncated(_, _)  \* the stream may not end here

VARIABLES setting, stream, taken, retained, out, last

vars == <<setting, stream, taken, retained, out, last>>

\* The stream so far, for the setting the codec was made with.
Output(n)    == OutputOf(setting, SubSeq(stream, 1, n))
IsBad(n)     == Corrupt(setting, SubSeq(stream, 1, n))
IsPartial(n) == Truncated(setting, SubSeq(stream, 1, n))

NoCall ==
  [op |-> "none", input |-> 0, room |-> 0,
   answer |-> [tag |-> "Done", consumed |-> 0, written |-> 0, kind |-> "NoKind"]]

HonestInit == taken = 0 /\ retained = 0 /\ out = <<>> /\ last = NoCall

-----------------------------------------------------------------------------

\* The output grows by `written` bytes of what the consumed input yields.
Moves(call) ==
  /\ call.answer.consumed <= call.input /\ call.answer.written <= call.room
  /\ taken' = taken + call.answer.consumed
  /\ IsPrefix(out, out') /\ Len(out') = Len(out) + call.answer.written
  /\ IsPrefix(out', Output(taken'))

MoreIsPending == Len(out') < Len(Output(taken'))

\* Codec::process: all input consumed, or all output filled, or the input
\* seen so far is corrupt.
HonestProcess(call) ==
  /\ call.op = "process" /\ call.input >= retained
  /\ Moves(call)
  /\ retained' = call.input - call.answer.consumed
  /\ CASE call.answer.tag = "InputConsumed" -> call.answer.consumed = call.input
       [] call.answer.tag = "OutputFilled"  -> call.answer.written = call.room
       [] call.answer.tag = "Err"           -> IsBad(taken + call.input)

\* DrainCodec::flush: the codec decides how much to write.
HonestFlush(call) ==
  /\ call.op = "flush" /\ Moves(call) /\ UNCHANGED <<taken, retained>>
  /\ CASE call.answer.tag = "Done"         -> TRUE
       [] call.answer.tag = "OutputFilled" -> call.answer.written = call.room /\ MoreIsPending

\* DrainCodec::finish: Done when all output of a valid stream is out.
HonestFinish(call) ==
  /\ call.op = "finish" /\ Moves(call) /\ UNCHANGED <<taken, retained>>
  /\ CASE call.answer.tag = "Done" ->
            /\ out' = Output(taken)
            /\ ~IsBad(taken) /\ ~IsPartial(taken)
       [] call.answer.tag = "OutputFilled" -> call.answer.written = call.room /\ MoreIsPending
       [] call.answer.tag = "Err" -> IsPartial(taken) \/ retained > 0

HonestNext ==
  /\ UNCHANGED <<setting, stream>>
  /\ \/ last' = NoCall /\ UNCHANGED <<taken, retained, out>>
     \/ HonestProcess(last') \/ HonestFlush(last') \/ HonestFinish(last')

HonestSpec == HonestInit /\ [][HonestNext]_vars

=============================================================================
