--------------------------- MODULE StreamToStream ---------------------------
(***************************************************************************)
(* stream_to_stream (stream.rs): one transfer until the source ends, then  *)
(* one finish.  Here every part is honest: the source ends only when it is *)
(* empty, the sink refuses only when it is full, and the codec reports the *)
(* output it still holds.  Source and sink may still fail, but not those   *)
(* of encode_str (vec/string.rs): a str, and a VecSink that grows.         *)
(***************************************************************************)
EXTENDS Pump

CONSTANTS
  MaxHeld,     \* bound: bytes the codec holds back at a time
  MaxTrailer   \* bound: bytes `finish` adds to them

ASSUME StreamAssumption == MaxHeld \in Nat /\ MaxTrailer \in Nat

VARIABLES
  caller, \* encode_str, or one with a bounded sink and endpoints that fail
  part,   \* what stream_to_stream is doing
  result, \* what it returned
  held,   \* history: output the codec still has to write
  ended   \* history: the codec reported the end of its input in-band

vars == <<pumpVars, caller, part, result, held, ended>>

Init ==
  /\ PumpInit /\ caller \in {"bounded", "encode_str"}
  /\ part = "start" /\ result = Pending /\ held = 0 /\ ended = FALSE

-----------------------------------------------------------------------------
(* Honest parts.                                                           *)

InputLeft == SourceLen - taken

SinkRoom == SinkCap - stored

HonestChunks == {n \in 1..MaxChunk : n <= InputLeft}

\* VecSource and SliceSource are infallible, and so is VecSink.
Fallible == caller = "bounded"

NeverReserves == FALSE

\* VecSink::spare reserves when nothing is left; how much is up to the vec.
Grows == caller = "encode_str"

\* None when full, and never an empty space.
HonestSpaces ==
  IF SinkRoom = 0 /\ ~Grows THEN {Full}
  ELSE {Space(n) : n \in {m \in 1..MaxSpare : Grows \/ m <= SinkRoom}}

Commits == {ok \in BOOLEAN : ~Fallible => ok}

\* The codec turns c bytes of input into at most 2 * c bytes of output, holds
\* back what it does not write, and writes no more than it has.
Holds(a) ==
  /\ held' \in 0..MaxHeld
  /\ held' + a.written >= held
  /\ held' + a.written <= held + 2 * a.consumed

\* OutputFilled means more output is pending, Done that none is.
HoldsAtFinish(a) ==
  LET all == IF codec = "finishing" THEN {held} ELSE held..(held + MaxTrailer) IN
    /\ held' \in 0..(MaxHeld + MaxTrailer)
    /\ held' + a.written \in all
    /\ a.tag = "Done"         => held' = 0
    /\ a.tag = "OutputFilled" => held' > 0

-----------------------------------------------------------------------------
(* stream_to_stream.                                                       *)

Start ==
  /\ part = "start" /\ part' = "transfer" /\ Call("transfer")
  /\ UNCHANGED <<caller, result, held, ended>>

Transfer ==
  /\ part = "transfer"
  /\ \/ Fallible /\ ChunkFails /\ UNCHANGED held
     \/ InputLeft = 0 /\ SourceEnds /\ UNCHANGED held
     \/ InputLeft > 0 /\ Fallible /\ SpareFails /\ UNCHANGED held
     \/ /\ Transferring
        /\ \E i \in HonestChunks, s \in HonestSpaces, ok \in Commits :
             \E a \in BoundedAnswers(i, s.len) :
               a = Validated(a, i, s.len) /\ Transfers(i, s, a, ok) /\ Holds(a)
  /\ ended' = (codec' = "ended")
  /\ tick' = ~tick /\ UNCHANGED <<caller, part, result>>

Finish ==
  /\ part = "finish"
  /\ \/ Fallible /\ SpareFails /\ UNCHANGED held
     \/ /\ DrainCalls
        /\ \E s \in HonestSpaces, ok \in Commits :
             \E a \in DrainAnswers(s.len) :
               a = Validated(a, 0, s.len) /\ Drains(s, a, ok) /\ HoldsAtFinish(a)
  /\ tick' = ~tick /\ UNCHANGED <<caller, part, result, ended>>

InputEndsAnyway(r) == r.tag \in {"SourceExhausted", "InputEnded", "SinkExhausted"}

\* Only the end of the input leads on to finish.
InputEnds(r) == r.tag \in {"SourceExhausted", "InputEnded"}

StartFinishing ==
  /\ part = "transfer" /\ op = "idle" /\ InputEnds(outcome)
  /\ part' = "finish" /\ Call("finish")
  /\ UNCHANGED <<caller, result, held, ended>>

\* from_drive_error: what cannot happen to a VecSink is `unreachable!`.
EncodeError(r) == IF r.tag \in {"Codec", "NoProgress"} THEN r ELSE Result("unreachable")

ReturnResult ==
  /\ op = "idle"
  /\ part = "finish" \/ (part = "transfer" /\ ~InputEnds(outcome))
  /\ part' = "returned"
  /\ result' = IF outcome.tag = "Done" THEN Result("Ok")
               ELSE IF caller = "encode_str" THEN EncodeError(outcome) ELSE outcome
  /\ UNCHANGED <<pumpVars, caller, held, ended>>

Work == Start \/ Transfer \/ Finish \/ StartFinishing \/ ReturnResult

Returned == part = "returned" /\ UNCHANGED vars

StreamSpec == Init /\ [][Work \/ Returned]_vars

-----------------------------------------------------------------------------
(* Properties.                                                             *)

\* Ok: the input went in up to its end, at EOF or in-band, and all output and
\* the trailer are in the sink.
OkMeansComplete ==
  result.tag = "Ok" =>
    /\ codec = "done" /\ held = 0 /\ stored = emitted
    /\ InputLeft = 0 \/ ended

\* An output that fits exactly succeeds: SinkExhausted means a full sink and
\* input or output that had no place.
ExactFitSucceeds ==
  result.tag = "SinkExhausted" => SinkRoom = 0 /\ (InputLeft > 0 \/ held > 0)

\* encode_str never reaches its unreachable!("VecSink always has spare capacity"),
\* whatever the codec writes and however the vec grows.
NeverUnreachable == result.tag # "unreachable"

=============================================================================
