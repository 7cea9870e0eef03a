------------------------------- MODULE Reader -------------------------------
(***************************************************************************)
(* CodecReader and BufReadCodecReader of both backends, and their engine   *)
(* boundary_aware_pump_read (read.rs): a pump from a ScratchSource or a    *)
(* LendingSource into the caller's buffer, one `read` at a time.  A raw    *)
(* call (`read`, `fill_buf`) is a step of its own: it may be interrupted,  *)
(* return short counts, fail, and report an end that more bytes follow (a  *)
(* growing file).                                                          *)
(***************************************************************************)
EXTENDS Pump, IoErrors

CONSTANTS
  ScratchLen,  \* length of `inbuf`, or of the buffer of the BufRead
  MaxBuf       \* bound: longest buffer of a read

\* ScratchSource::new refuses an empty buffer.
ASSUME ReaderAssumption == ScratchLen \in Nat \ {0} /\ MaxBuf \in Nat

VARIABLES
  wrapper,    \* which of the four readers it is
  pending,    \* bytes pulled and not consumed: len - pos, or the BufRead's buffer
  fetch,      \* retry_fill_buf: its first call, its second one, or the chunk is ready
  raised,     \* the kind of the raw reader's error in this read
  buf,        \* length of the caller's buffer
  filled,     \* SliceSink::written, the bytes put into it
  reading,    \* a read is in progress
  result,     \* what the last read returned
  pulled,     \* history: bytes taken from the raw reader
  delivered,  \* history: the sum of all Ok(n)
  ended       \* history: the source reported its end, or the codec did in-band

sourceVars == <<wrapper, pending, fetch, raised, pulled>>
callVars   == <<buf, filled, reading, result, delivered>>
vars       == <<pumpVars, sourceVars, callVars, ended>>

\* A wrapper is a backend and a source: LendingSource lends the buffer of a
\* BufRead, ScratchSource its own.
StdCodecReader             == [backend |-> "std", lends |-> FALSE]
StdBufReadCodecReader      == [backend |-> "std", lends |-> TRUE]
EmbeddedCodecReader        == [backend |-> "embedded", lends |-> FALSE]
EmbeddedBufReadCodecReader == [backend |-> "embedded", lends |-> TRUE]

Wrappers == {StdCodecReader, StdBufReadCodecReader,
             EmbeddedCodecReader, EmbeddedBufReadCodecReader}

\* Ok(n), or the error of the pump as the backend reports it.
Ok(n)  == [tag |-> "Ok", n |-> n, kind |-> NoKind, io |-> NoIoKind]
Err(r) == [tag |-> r.tag, n |-> 0, kind |-> r.kind,
           io |-> IoKindOf(wrapper.backend, r, raised)]

Init ==
  /\ PumpInit
  /\ wrapper \in Wrappers /\ fetch = "first" /\ raised = NoIoKind
  /\ pending = 0 /\ buf = 0 /\ filled = 0 /\ reading = FALSE /\ result = Ok(0)
  /\ pulled = 0 /\ delivered = 0 /\ ended = FALSE

-----------------------------------------------------------------------------
(* The endpoints.                                                          *)

\* SliceSink::spare: the unfilled rest, and None when there is none.
Rest == IF filled = buf THEN Full ELSE Space(buf - filled)

\* SliceSink::commit follows the pump's commit of what the codec wrote.
Filled == filled' = filled + (stored' - stored)

CallsAgainAlways(n) == TRUE

\* retry_fill_buf calls fill_buf again only for the bytes it is sure to get: an
\* empty result may be transient and is returned at once.
CallsAgain(n) == n > 0

\* ScratchSource reads only into an empty buffer; a BufRead refills only an
\* empty one.
RawCall == op = "step" /\ Transferring /\ pending = 0

\* The second fill_buf is not retried.
Retried(kind) == fetch = "first" /\ IsInterrupted(kind)

ChunkIsReady == pending > 0 /\ (wrapper.lends => fetch = "ready")

-----------------------------------------------------------------------------
(* boundary_aware_pump_read, up to read_into.                              *)

ReturnOk(n) ==
  /\ reading' = FALSE /\ result' = Ok(n) /\ delivered' = delivered + n
  /\ buf' = 0 /\ filled' = 0

ReturnErr(r) ==
  /\ reading' = FALSE /\ result' = Err(r)
  /\ buf' = 0 /\ filled' = 0 /\ UNCHANGED delivered

\* A latched codec error comes before the empty buffer and before the end.
ReadRefused(b) ==
  /\ ~reading
  /\ \/ failed # NoKind /\ ReturnErr(CodecError(failed))
     \/ failed = NoKind /\ (b = 0 \/ phase = "Finished") /\ ReturnOk(0)
  /\ UNCHANGED <<pumpVars, sourceVars, ended>>

\* Pump::is_finishing: never poll the source again once finish began.
FirstOperation == IF phase = "Open" THEN "step" ELSE "finish"

ReadStarts(b) ==
  /\ ~reading /\ failed = NoKind /\ b > 0 /\ phase # "Finished"
  /\ reading' = TRUE /\ buf' = b /\ filled' = 0
  /\ Call(FirstOperation)
  /\ UNCHANGED <<sourceVars, result, delivered, ended>>

-----------------------------------------------------------------------------
(* One pass of the pump, on these endpoints: raw calls, then the codec.    *)

RawInterrupted ==
  /\ RawCall
  /\ \E k \in RawKinds : Retried(k)
  /\ tick' = ~tick
  /\ UNCHANGED <<phase, failed, total, codec, endVars, op, outcome>>
  /\ UNCHANGED <<sourceVars, callVars, ended>>

RawFails ==
  /\ RawCall
  /\ \E k \in RawKinds : ~Retried(k) /\ raised' = k
  /\ ChunkFails
  /\ fetch' = "first"
  /\ tick' = ~tick
  /\ UNCHANGED <<wrapper, pending, pulled, callVars, ended>>

\* Ok(0), or Ok([]): chunk returns None, unless fill_buf is called again.
RawEnds ==
  /\ RawCall
  /\ ended' = TRUE
  /\ tick' = ~tick
  /\ IF wrapper.lends /\ fetch = "first" /\ CallsAgain(0)
       THEN fetch' = "again" /\ UNCHANGED <<phase, failed, total, codec, endVars, op, outcome>>
       ELSE fetch' = "first" /\ SourceEnds
  /\ UNCHANGED <<wrapper, pending, raised, pulled, callVars>>

AfterFillBuf(n) == IF fetch = "first" /\ CallsAgain(n) THEN "again" ELSE "ready"

RawGives ==
  /\ RawCall
  /\ \E n \in 1..ScratchLen :
       /\ pulled + n <= SourceLen
       /\ pulled' = pulled + n /\ pending' = n
       /\ fetch' = IF wrapper.lends THEN AfterFillBuf(n) ELSE "first"
  /\ tick' = ~tick
  /\ UNCHANGED <<phase, failed, total, codec, endVars, op, outcome>>
  /\ UNCHANGED <<wrapper, raised, callVars, ended>>

\* fill_buf on a BufRead that has bytes returns them.
BufferLends ==
  /\ op = "step" /\ Transferring
  /\ wrapper.lends /\ pending > 0 /\ ~ChunkIsReady
  /\ fetch' = AfterFillBuf(pending)
  /\ tick' = ~tick
  /\ UNCHANGED <<phase, failed, total, codec, endVars, op, outcome>>
  /\ UNCHANGED <<wrapper, pending, raised, pulled, callVars, ended>>

TransferInto ==
  /\ op = "step" /\ Transferring /\ ChunkIsReady
  /\ \E a \in BoundedAnswers(pending, Rest.len) : Transfers(pending, Rest, a, TRUE)
  /\ pending' = pending - (taken' - taken)
  /\ fetch' = "first"
  /\ Filled
  /\ ended' = (ended \/ outcome' = Result("InputEnded"))
  /\ tick' = ~tick
  /\ UNCHANGED <<wrapper, raised, pulled, buf, reading, result, delivered>>

FinishInto ==
  /\ op = "finish"
  /\ \/ FinishAgain
     \/ DrainCalls /\ \E a \in DrainAnswers(Rest.len) : Drains(Rest, a, TRUE)
  /\ Filled
  /\ tick' = ~tick
  /\ UNCHANGED <<sourceVars, buf, reading, result, delivered, ended>>

-----------------------------------------------------------------------------
(* read_into goes on, or the read returns.                                 *)

Returned == reading /\ op = "idle"

RetriesNever == FALSE

\* No byte yet: Ok(0) would read as the end of the stream.
Retries == outcome.tag = "Progressed" /\ filled = 0

NextOperation ==
  /\ Returned
  /\ \/ Retries /\ Call("step")
     \/ outcome.tag \in {"SourceExhausted", "InputEnded"} /\ Call("finish")
  /\ UNCHANGED <<sourceVars, callVars, ended>>

\* A codec error after some bytes waits for the next read.
Fails == outcome.tag = "Codec" /\ filled = 0

ReadReturns ==
  /\ Returned /\ ~Retries /\ outcome.tag \notin {"SourceExhausted", "InputEnded"}
  /\ IF Fails \/ outcome.tag \in {"Source", "Sink", "NoProgress"} THEN ReturnErr(outcome)
     ELSE ReturnOk(filled)
  /\ raised' = NoIoKind
  /\ UNCHANGED <<pumpVars, wrapper, pending, fetch, pulled, ended>>

-----------------------------------------------------------------------------

Read == \E b \in 0..MaxBuf : ReadRefused(b) \/ ReadStarts(b)

Work ==
  \/ RawFails \/ RawEnds \/ RawGives \/ BufferLends
  \/ TransferInto \/ FinishInto \/ NextOperation \/ ReadReturns

ReaderNext == Read \/ Work \/ RawInterrupted

\* A read in progress goes on, and a raw call is not interrupted for ever;
\* nobody has to call read.
ReaderSpec == Init /\ [][ReaderNext]_vars /\ WF_vars(Work)

-----------------------------------------------------------------------------
(* Properties.                                                             *)

\* All four readers keep the promise of a decoding reader: every byte the
\* codec wrote is returned once, before any error; Ok(0) with room is the end
\* and stays; a codec error stays; no error makes a caller like io::copy read
\* again; every read returns.
Promise == INSTANCE ByteReader WITH
  state <- IF failed # NoKind THEN "broken"
           ELSE IF phase = "Finished" THEN "over" ELSE "open",
  made <- emitted, given <- delivered, MaxMade <- MaxOut
ImplementsByteReader == Promise!Spec

\* After the end, at EOF or in-band, nothing is pulled from the raw reader any
\* more, not even when it has grown, nor are the bytes after the end consumed.
\* A transient end that fill_buf reported is an end too.
EndStays == [][ended => pulled' = pulled /\ taken' = taken /\ pending' = pending]_vars

\* Between reads, everything the codec wrote has been returned by some Ok(n),
\* and every pulled byte was given to the codec or is in pending().
NoByteAstray == ~reading => delivered = emitted /\ pulled = taken + pending

\* The reader itself never breaks the contract of the codec, also after a
\* Boundary and in a finish that spans several reads.
ReaderKeepsContract == CodecContractKept

\* An interruption is never the caller's affair: no result of either backend has
\* the kind Interrupted, on which std::io::copy would call read again.
InterruptedStaysInside == result.io # "Interrupted"

=============================================================================
