------------------------------- MODULE Writer -------------------------------
(***************************************************************************)
(* CodecWriter of both backends and its engines pump_write, pump_flush and *)
(* pump_finish (write.rs): the caller's buffer is the source of a          *)
(* transfer, the sink may be full or fail at `spare` and at `commit`.      *)
(* `finish` gives the writer back when it fails, so it can be called again.*)
(***************************************************************************)
EXTENDS Pump, IoErrors

CONSTANT MaxBuf  \* bound: longest buffer of a write

ASSUME WriterAssumption == MaxBuf \in Nat

VARIABLES
  backend,    \* the backend of the wrapped writer
  method,     \* the method in progress
  buf,        \* length of the caller's buffer
  used,       \* SliceSource::consumed, the bytes taken of it
  closed,     \* finish succeeded: the writer is gone
  result,     \* what the last method returned
  accepted,   \* history: the sum of all Ok(n) of write
  faulty      \* history: a sink error or NoProgress was returned

writeVars == <<backend, method, buf, used, closed, result, accepted, faulty>>
vars      == <<pumpVars, writeVars>>

Ok(n) == [tag |-> "Ok", n |-> n, kind |-> NoKind, io |-> NoIoKind]
Err(r, raw) == [tag |-> r.tag, n |-> 0, kind |-> r.kind, io |-> IoKindOf(backend, r, raw)]
FullSink == Result("SinkExhausted")
InnerError == Result("Inner")

\* How the sink over a raw writer fails.  Its retry loop keeps the
\* interruptions; a raw write of nothing is a failure of its own.
SinkKinds == {k \in RawKinds : ~IsInterrupted(k)} \cup {"WriteZero"}

Methods == {"write", "flush", "finish"}

Init ==
  /\ PumpInit
  /\ backend \in Backends
  /\ method = "none" /\ buf = 0 /\ used = 0 /\ closed = FALSE
  /\ result = Ok(0) /\ accepted = 0 /\ faulty = FALSE

-----------------------------------------------------------------------------
(* The methods of CodecWriter.                                             *)

Operation(m) == IF m = "write" THEN "transfer" ELSE m

\* The bytes offered over the writer's life are bounded, so that it ends.
Starts(m, b) ==
  /\ method = "none" /\ ~closed
  /\ taken + b <= SourceLen
  /\ method' = m /\ buf' = b /\ used' = 0
  /\ Call(Operation(m))
  /\ UNCHANGED <<backend, closed, result, accepted, faulty>>

Begin == \E m \in Methods, b \in 0..MaxBuf : (m # "write" => b = 0) /\ Starts(m, b)

\* SliceSource: the rest of the caller's buffer, and None at its end.
TransferBuf ==
  /\ op = "transfer"
  /\ \/ used = buf /\ SourceEnds
     \/ /\ used < buf /\ Transferring
        /\ \E s \in Spaces, ok \in BOOLEAN :
             \E a \in ProcessAnswers(buf - used, s.len) : Transfers(buf - used, s, a, ok)
  /\ used' = used + (taken' - taken)
  /\ tick' = ~tick
  /\ UNCHANGED <<backend, method, buf, closed, result, accepted, faulty>>

\* The chunk is taken first: a write of nothing never asks for space.
SpaceFails ==
  /\ op = "transfer" => used < buf
  /\ SpareFails
  /\ tick' = ~tick
  /\ UNCHANGED writeVars

DrainPass ==
  /\ \/ FinishAgain
     \/ DrainCalls /\ \E s \in Spaces, ok \in BOOLEAN :
                        \E a \in DrainAnswers(s.len) : Drains(s, a, ok)
  /\ tick' = ~tick
  /\ UNCHANGED writeVars

RefusedCall == Refused /\ tick' = ~tick /\ UNCHANGED writeVars

-----------------------------------------------------------------------------
(* What the method makes of the pump's result.                             *)

Returned == method # "none" /\ op = "idle"

Returns(r, n) ==
  /\ method' = "none" /\ result' = r /\ accepted' = accepted + n
  /\ buf' = 0 /\ used' = 0
  /\ closed' = (method = "finish" /\ r.tag = "Ok")
  /\ faulty' = (faulty \/ r.tag \in {"Sink", "NoProgress"})
  /\ UNCHANGED <<pumpVars, backend>>

\* writer_error_to_io_error, writer_error_to_stream_error.
ReturnsErr(r, kinds) == \E raw \in kinds : Returns(Err(r, raw), 0)

SinkFullIsNoError == FALSE

\* Ok(0) for a full sink would read as the end of the stream.
SinkIsFull == outcome = FullSink /\ used = 0

CodecErrorAtOnce == FALSE

\* The pump latched the error: the next call returns it.
CodecErrorWaits == outcome.tag = "Codec" /\ used > 0

WriteFails ==
  /\ Returned /\ method = "write"
  /\ SinkIsFull \/ (outcome.tag \in {"Codec", "Sink", "NoProgress"} /\ ~CodecErrorWaits)
  /\ ReturnsErr(outcome, SinkKinds)

WriteTakes ==
  /\ Returned /\ method = "write"
  /\ \/ outcome.tag \in {"SourceExhausted", "SinkExhausted"} /\ ~SinkIsFull
     \/ CodecErrorWaits
  /\ Returns(Ok(used), used)

FullSinkIsFine(r) == r.tag \in {"Done", "SinkExhausted"}

DrainSucceeded(r) == r.tag = "Done"

\* pump_flush and pump_finish report a full sink as an error.
DrainReturns ==
  /\ Returned /\ method # "write"
  /\ \/ ~DrainSucceeded(outcome) /\ ReturnsErr(outcome, SinkKinds)
     \/ DrainSucceeded(outcome) /\ Returns(Ok(0), 0)

\* CodecWriter::flush then flushes the wrapped writer, which may fail, and whose
\* interruption is not retried.
InnerFlushFails ==
  /\ Returned /\ method = "flush" /\ DrainSucceeded(outcome)
  /\ ReturnsErr(InnerError, RawKinds)

-----------------------------------------------------------------------------

Work ==
  \/ TransferBuf \/ SpaceFails \/ DrainPass \/ RefusedCall
  \/ WriteFails \/ WriteTakes \/ DrainReturns \/ InnerFlushFails

WriterNext == Begin \/ Work

\* The writer is gone after a finish that succeeded: nothing follows.
Closed == closed /\ UNCHANGED vars

\* A method in progress goes on; nobody has to call one.
WriterSpec == Init /\ [][WriterNext \/ Closed]_vars /\ WF_vars(Work)

-----------------------------------------------------------------------------
(* Properties.                                                             *)

\* The writer of either backend keeps the promise of an encoding writer: no
\* Ok(0) for a buffer with bytes, no loss without a fault reported, no error
\* that write_all would retry, and every method returns.
Promise == INSTANCE ByteWriter WITH
  state <- CASE failed # NoKind -> "broken"
             [] failed = NoKind /\ phase = "Open"      -> "open"
             [] failed = NoKind /\ phase = "Finishing" -> "finishing"
             [] failed = NoKind /\ phase = "Finished"  -> "over",
  made <- emitted, MaxMade <- MaxOut
ImplementsByteWriter == Promise!Spec

\* As long as no sink error or NoProgress was returned, the caller's sum of
\* Ok(n) is what the codec took, and the sink has all that the codec wrote.
BytesAccountedFor ==
  method = "none" /\ ~faulty => accepted = taken /\ emitted = stored

\* A finish that succeeds after no fault has ended the codec and delivered
\* everything; a latched codec error or a full sink never passes for success.
FinishMeansComplete ==
  closed => codec = "done" /\ (~faulty => accepted = taken /\ emitted = stored)

\* What the doc of pump_write says: "if `write` returns an error, it took no
\* bytes of `buf`".
ErrTakesNothing ==
  [][method = "write" /\ method' = "none" /\ result'.tag # "Ok" => used = 0]_vars

=============================================================================
