------------------------------ MODULE Protocol ------------------------------
(***************************************************************************)
(* The vocabulary every driver of this project shares: what a codec may    *)
(* answer, how a driver validates the answer against the buffers it lent,  *)
(* how far `finish` got, and what the traits of protocol.rs let a driver   *)
(* call next.                                                              *)
(*                                                                         *)
(* Bytes have no value here: an answer is the counts it reports.           *)
(***************************************************************************)
EXTENDS Naturals

CONSTANTS
  CodecKinds  \* the error kinds the codec at hand reports

ErrorKind == {"CorruptStream", "UnexpectedEnd", "CodecBufferTooSmall",
              "ByteCountClaim", "AfterFinish"}

\* The `None` of Option<ErrorKind>.
NoKind == "NoKind"

ASSUME CodecKindsAssumption == CodecKinds # {} /\ CodecKinds \subseteq ErrorKind

-----------------------------------------------------------------------------
(* Answers of a codec call.  A count the enum leaves implicit is filled    *)
(* in: InputConsumed takes the whole input, OutputFilled the whole output. *)

Answer(tag, consumed, written, kind) ==
  [tag |-> tag, consumed |-> consumed, written |-> written, kind |-> kind]

AnswerTags == {"InputConsumed", "OutputFilled", "Boundary", "Done", "Err"}

Answers ==
  [tag : AnswerTags, consumed : Nat, written : Nat, kind : ErrorKind \cup {NoKind}]

\* The counts a call may claim: within its buffers, or one byte past either.
\* One byte stands for every overclaim: validation only compares.
Claims(i, o) == ((0..i) \X (0..o)) \cup {<<i + 1, 0>>, <<0, o + 1>>}

FailureAnswers(i, o) ==
  {Answer("Err", n[1], n[2], k) : n \in Claims(i, o), k \in CodecKinds}

\* Codec::process on an input of i bytes and an output of o bytes.
ProcessAnswers(i, o) ==
  {Answer("InputConsumed", i, w, NoKind) : w \in 0..(o + 1)}
    \cup {Answer("OutputFilled", c, o, NoKind) : c \in 0..(i + 1)}
    \cup FailureAnswers(i, o)

\* BoundaryAwareCodec::process_bounded: the same, and an in-band end.
BoundedAnswers(i, o) ==
  ProcessAnswers(i, o)
    \cup {Answer("Boundary", n[1], n[2], NoKind) : n \in Claims(i, o)}

\* DrainCodec::flush and DrainCodec::finish on an output of o bytes.
DrainAnswers(o) ==
  {Answer("Done", 0, w, NoKind) : w \in 0..(o + 1)}
    \cup {Answer("OutputFilled", 0, o, NoKind)}
    \cup FailureAnswers(0, o)

ValidatedTrusting(a, i, o) == a

\* The `validated` family: counts outside the buffers become an error that
\* moves nothing.
Validated(a, i, o) ==
  IF a.consumed <= i /\ a.written <= o THEN a
  ELSE Answer("Err", 0, 0, "ByteCountClaim")

NeverStalls(a) == FALSE

\* A call that reports no byte on either side.
MovesNothing(a) == a.consumed = 0 /\ a.written = 0

-----------------------------------------------------------------------------
(* FinishPhase: how far a wrapper of a codec is in `finish`.               *)

FinishPhase == {"Open", "Finishing", "Finished"}

StartForgotten(phase) == phase

StartFinish(phase) == IF phase = "Open" THEN "Finishing" ELSE phase

-----------------------------------------------------------------------------
(* What the traits allow next, as a monitor a driver is judged by.  After  *)
(* Err the state of a codec is undefined; after Boundary only `finish` may *)
(* follow; after the first `finish` only `finish`; after Done nothing.     *)

CodecState == {"live", "ended", "finishing", "done", "failed", "misused"}

AfterProcess(codec, a) ==
  IF codec # "live" THEN "misused"
  ELSE CASE a.tag = "Err"      -> "failed"
         [] a.tag = "Boundary" -> "ended"
         [] OTHER              -> "live"

AfterFlush(codec, a) ==
  IF codec # "live" THEN "misused"
  ELSE IF a.tag = "Err" THEN "failed" ELSE "live"

AfterFinish(codec, a) ==
  IF codec \notin {"live", "ended", "finishing"} THEN "misused"
  ELSE CASE a.tag = "Err"  -> "failed"
         [] a.tag = "Done" -> "done"
         [] OTHER          -> "finishing"

=============================================================================
