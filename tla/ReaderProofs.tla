---------------------------- MODULE ReaderProofs ----------------------------
(***************************************************************************)
(* The safety of the four readers for every length of scratch buffer and   *)
(* read buffer, every source and every codec: no byte is lost, the codec's *)
(* contract is kept, the end stays the end, an interruption stays inside,  *)
(* and every step is one that ByteReader, the promise to the caller,       *)
(* allows.                                                                 *)
(***************************************************************************)
EXTENDS Reader, PumpProofs

-----------------------------------------------------------------------------
(* The inductive invariant.                                                *)

ReaderTypeOK ==
  /\ wrapper \in Wrappers /\ fetch \in {"first", "again", "ready"}
  /\ raised \in {"Other", NoIoKind}
  /\ pending \in Nat /\ buf \in Nat /\ filled \in Nat
  /\ pulled \in Nat /\ delivered \in Nat
  /\ reading \in BOOLEAN /\ ended \in BOOLEAN

\* Every byte is somewhere: pulled ones in the codec or pending, written ones
\* returned or in the caller's buffer, of which none is left between reads.
CountsInv ==
  /\ pulled = taken + pending
  /\ stored = emitted /\ emitted = delivered + filled
  /\ filled <= buf /\ emitted <= MaxOut
  /\ reading => buf > 0
  /\ ~reading => op = "idle" /\ filled = 0 /\ buf = 0

\* A chunk that fill_buf has seen once is still there, so that the call that
\* is not retried never reaches the raw reader.
FetchInv == fetch # "first" => pending > 0 /\ wrapper.lends

\* What an operation in progress relies on.
OperationInv ==
  /\ op \in {"idle", "step", "finish"}
  /\ op = "step"   => phase = "Open" /\ failed = NoKind /\ filled = 0
  /\ op = "finish" => phase = "Finishing" /\ failed = NoKind

\* What the result of the last operation of a read says of the pump.
OutcomeInv ==
  reading /\ op = "idle" =>
    /\ outcome.tag \in {"Progressed", "SourceExhausted", "InputEnded", "Source",
                        "NoProgress", "SinkExhausted", "Codec", "Done"}
    /\ outcome.tag = "Codec" => outcome = CodecError(failed)
    /\ (outcome.tag = "Codec") <=> (failed # NoKind)
    /\ outcome.tag \in {"Progressed", "SourceExhausted", "InputEnded"} => phase = "Open"
    /\ (outcome.tag = "Done") <=> (phase = "Finished")
    /\ outcome.tag \in {"Source", "NoProgress"} => filled = 0
    /\ outcome.tag = "SinkExhausted" => filled = buf

\* The end, once seen, leads to finish and nowhere else.
EndInv ==
  /\ codec = "ended" => ended
  /\ ended /\ phase = "Open" /\ failed = NoKind =>
       reading /\ op = "idle" /\ outcome.tag \in {"SourceExhausted", "InputEnded"}

\* The results of the past: a codec error is the latched one, and lasts.
ResultInv ==
  /\ result.io # "Interrupted"
  /\ result.tag = "Codec" => ~reading /\ failed # NoKind /\ result = Err(CodecError(failed))

RInv ==
  /\ PumpInv /\ ReaderTypeOK /\ CountsInv /\ FetchInv
  /\ OperationInv /\ OutcomeInv /\ EndInv /\ ResultInv

-----------------------------------------------------------------------------
(* The endpoints, and the results.                                         *)

\* The unfilled rest of the caller's buffer is a space as the pump knows it.
LEMMA RestIsSpace ==
  ASSUME ReaderTypeOK, CountsInv
  PROVE  /\ Rest.len \in Nat /\ Rest.len = buf - filled
         /\ Rest.full <=> (filled = buf)
BY DEF ReaderTypeOK, CountsInv, Rest, Full, Space

\* A codec error is reported the same whatever happened to the raw reader.
LEMMA CodecErrResult ==
  ASSUME NEW k
  PROVE  Err(CodecError(k)) = [tag |-> "Codec", n |-> 0, kind |-> k,
                               io |-> CodecIoKind(wrapper.backend, k)]
<1>1. CodecError(k).tag = "Codec" /\ CodecError(k).kind = k
  BY DEF CodecError
<1>2. IoKindOf(wrapper.backend, CodecError(k), raised) = CodecIoKind(wrapper.backend, k)
  BY <1>1 DEF IoKindOf
<1> QED BY <1>1, <1>2 DEF Err

\* No kind of a codec error is an interruption.
LEMMA CodecKindsInside == ASSUME NEW b, NEW k PROVE CodecIoKind(b, k) # "Interrupted"
BY DEF CodecIoKind

\* Nor is any error that a read returns.
LEMMA ErrKindsInside ==
  ASSUME ReaderTypeOK, NEW r, r.tag \in {"Source", "Sink", "Codec", "NoProgress"}
  PROVE  Err(r).io # "Interrupted" /\ Err(r).tag = r.tag /\ Err(r).n = 0
<1>1. IoKindOf(wrapper.backend, r, raised) \in
        {raised, CodecIoKind(wrapper.backend, r.kind), "Other"}
  BY DEF IoKindOf
<1>2. raised # "Interrupted"
  BY DEF ReaderTypeOK, NoIoKind
<1> QED BY <1>1, <1>2, CodecKindsInside DEF Err

-----------------------------------------------------------------------------
(* The first state, and every step.                                        *)

\* The first state.
LEMMA ReaderInitInv == Init => RInv
<1> SUFFICES ASSUME Init PROVE RInv
  OBVIOUS
<1>1. PumpInv
  BY InitPumpInv DEF Init
<1>2. ReaderTypeOK /\ CountsInv /\ FetchInv
  <2>1. ReaderTypeOK
    BY DEF Init, ReaderTypeOK
  <2>2. CountsInv
    BY PumpAssumption DEF Init, PumpInit, CountsInv
  <2> QED BY <2>1, <2>2 DEF Init, FetchInv
<1>3. OperationInv /\ OutcomeInv /\ EndInv
  BY DEF Init, PumpInit, OperationInv, OutcomeInv, EndInv
<1>4. ResultInv
  BY DEF Init, ResultInv, Ok, NoIoKind
<1> QED BY <1>1, <1>2, <1>3, <1>4 DEF RInv

\* A read that has nothing to do.
LEMMA ReadRefusedInv == ASSUME RInv, NEW b, ReadRefused(b) PROVE RInv'
<1>1. /\ UNCHANGED pumpVars /\ UNCHANGED sourceVars /\ ended' = ended
      /\ ~reading /\ reading' = FALSE /\ buf' = 0 /\ filled' = 0
      /\ \/ failed # NoKind /\ result' = Err(CodecError(failed)) /\ delivered' = delivered
         \/ failed = NoKind /\ result' = Ok(0) /\ delivered' = delivered + 0
  BY DEF ReadRefused, ReturnOk, ReturnErr
<1>2. delivered' = delivered
  BY <1>1 DEF RInv, ReaderTypeOK
<1>3. PumpInv'
  BY <1>1, EndpointKeepsPumpInv DEF RInv, PumpInv, TypeOK, pumpVars, endVars
<1>4. ReaderTypeOK' /\ CountsInv' /\ FetchInv' /\ OperationInv' /\ OutcomeInv' /\ EndInv'
  <2>1. ReaderTypeOK'
    BY <1>1, <1>2 DEF RInv, ReaderTypeOK, sourceVars
  <2>2. CountsInv'
    BY <1>1, <1>2 DEF RInv, CountsInv, sourceVars, pumpVars
  <2>3. FetchInv' /\ OperationInv'
    BY <1>1 DEF RInv, FetchInv, OperationInv, CountsInv, sourceVars, pumpVars
  <2>4. OutcomeInv' /\ EndInv'
    BY <1>1 DEF RInv, OutcomeInv, EndInv, pumpVars
  <2> QED BY <2>1, <2>2, <2>3, <2>4
<1>5. ResultInv'
  <2>1. CASE failed # NoKind /\ result' = Err(CodecError(failed))
    <3>1. /\ Err(CodecError(failed)) = [tag |-> "Codec", n |-> 0, kind |-> failed,
                                        io |-> CodecIoKind(wrapper.backend, failed)]
          /\ CodecIoKind(wrapper.backend, failed) # "Interrupted"
      BY CodecErrResult, CodecKindsInside
    <3>2. Err(CodecError(failed))' = Err(CodecError(failed))
      BY <1>1 DEF Err, CodecError, sourceVars, pumpVars
    <3> QED BY <1>1, <2>1, <3>1, <3>2 DEF ResultInv, pumpVars
  <2>2. CASE result' = Ok(0)
    BY <2>2 DEF ResultInv, Ok, NoIoKind
  <2> QED BY <1>1, <2>1, <2>2
<1> QED BY <1>3, <1>4, <1>5 DEF RInv

\* A read that starts an operation of the pump.
LEMMA ReadStartsInv == ASSUME RInv, NEW b \in Nat, ReadStarts(b) PROVE RInv'
<1>1. /\ ~reading /\ failed = NoKind /\ b > 0 /\ phase # "Finished"
      /\ reading' = TRUE /\ buf' = b /\ filled' = 0 /\ Call(FirstOperation)
      /\ UNCHANGED sourceVars /\ result' = result /\ delivered' = delivered /\ ended' = ended
  BY DEF ReadStarts
<1>2. /\ op' = FirstOperation /\ failed' = failed /\ codec' = codec /\ UNCHANGED endVars
      /\ phase' = phase /\ phase \in {"Open", "Finishing"}
      /\ FirstOperation = (IF phase = "Open" THEN "step" ELSE "finish")
  BY <1>1 DEF Call, StartFinish, FirstOperation, RInv, PumpInv, TypeOK, FinishPhase
<1>3. codec = "ended" => FirstOperation = "finish"
  BY <1>1, <1>2 DEF RInv, EndInv
<1>4. PumpInv'
  BY <1>1, <1>2, <1>3, CallKeepsPumpInv DEF RInv, Operations
<1>5. ReaderTypeOK' /\ CountsInv' /\ FetchInv' /\ OperationInv'
  BY <1>1, <1>2 DEF RInv, ReaderTypeOK, CountsInv, FetchInv, OperationInv, sourceVars, endVars
<1>6. OutcomeInv' /\ EndInv'
  BY <1>1, <1>2 DEF RInv, OutcomeInv, EndInv
<1>7. ResultInv'
  BY <1>1, <1>2 DEF RInv, ResultInv
<1> QED BY <1>4, <1>5, <1>6, <1>7 DEF RInv

\* What a read does with the source: the results of the past stay.
LEMMA ResultStays ==
  ASSUME RInv, reading' = reading, result' = result, failed = NoKind
  PROVE  ResultInv'
BY DEF RInv, ResultInv

\* A raw call gives bytes, or is interrupted, or a chunk is looked at again.
LEMMA RawGivesInv == RInv /\ (RawInterrupted \/ RawGives \/ BufferLends) => RInv'
<1> SUFFICES ASSUME RInv, RawInterrupted \/ RawGives \/ BufferLends PROVE RInv'
  OBVIOUS
<1>1. /\ UNCHANGED <<phase, failed, total, codec, endVars, op, outcome>>
      /\ UNCHANGED <<wrapper, raised, callVars, ended>>
      /\ failed = NoKind /\ op = "step" /\ tick' \in BOOLEAN
      /\ \/ UNCHANGED <<pending, fetch, pulled>>
         \/ /\ pending = 0 /\ \E n \in 1..ScratchLen : pulled' = pulled + n /\ pending' = n
            /\ fetch' \in {"first", "again", "ready"} /\ (fetch' # "first" => wrapper.lends)
         \/ /\ pending > 0 /\ UNCHANGED <<pending, pulled>>
            /\ fetch' \in {"again", "ready"} /\ wrapper.lends
  BY DEF RawInterrupted, RawGives, BufferLends, RawCall, Transferring, sourceVars, AfterFillBuf,
         RInv, PumpInv, TypeOK
<1>2. PumpInv'
  BY <1>1, EndpointKeepsPumpInv DEF RInv
<1>3. ReaderTypeOK' /\ FetchInv' /\ pulled' = taken' + pending'
  BY <1>1, ReaderAssumption
     DEF RInv, ReaderTypeOK, FetchInv, CountsInv, PumpInv, TypeOK, callVars, endVars
<1>4. CountsInv'
  BY <1>1, <1>3 DEF RInv, CountsInv, callVars, endVars
<1>5. OperationInv' /\ OutcomeInv' /\ EndInv'
  BY <1>1 DEF RInv, OperationInv, OutcomeInv, EndInv, callVars
<1>6. ResultInv'
  BY <1>1, ResultStays DEF callVars
<1> QED BY <1>2, <1>3, <1>4, <1>5, <1>6 DEF RInv

\* The first raw call of a read is the only one that can be interrupted.
LEMMA RawFailsInv == RInv /\ RawFails => RInv'
<1> SUFFICES ASSUME RInv, RawFails PROVE RInv'
  OBVIOUS
<1>1. /\ ChunkFails /\ pending = 0 /\ op = "step" /\ failed = NoKind /\ phase = "Open"
      /\ tick' \in BOOLEAN /\ fetch' = "first"
      /\ UNCHANGED <<wrapper, pending, pulled, callVars, ended>>
  BY DEF RawFails, RawCall, Transferring, RInv, PumpInv, TypeOK
<1>2. raised' = "Other"
  <2>1. fetch = "first"
    BY <1>1 DEF RInv, FetchInv, ReaderTypeOK
  <2> QED BY <2>1 DEF RawFails, Retried, IsInterrupted, RawKinds
<1>3. PumpInv'
  BY <1>1, QuietReturnInv DEF QuietReturn, RInv
<1>4. /\ op' = "idle" /\ outcome' = SourceError /\ UNCHANGED <<phase, failed, codec, endVars>>
  BY <1>1 DEF ChunkFails, Return
<1>5. ReaderTypeOK' /\ FetchInv' /\ OperationInv'
  BY <1>1, <1>2, <1>4 DEF RInv, ReaderTypeOK, FetchInv, OperationInv, callVars
<1>6. CountsInv'
  BY <1>1, <1>4 DEF RInv, CountsInv, callVars, endVars
<1>7. OutcomeInv' /\ EndInv'
  BY <1>1, <1>4
     DEF RInv, OperationInv, OutcomeInv, EndInv, SourceError, Result, callVars
<1>8. ResultInv'
  BY <1>1, ResultStays DEF callVars
<1> QED BY <1>3, <1>5, <1>6, <1>7, <1>8 DEF RInv

\* The source ends: fill_buf is not called again, and the transfer is over.
LEMMA RawEndsInv == RInv /\ RawEnds => RInv'
<1> SUFFICES ASSUME RInv, RawEnds PROVE RInv'
  OBVIOUS
<1>1. /\ SourceEnds /\ pending = 0 /\ op = "step" /\ failed = NoKind /\ phase = "Open"
      /\ tick' \in BOOLEAN /\ fetch' = "first" /\ ended' = TRUE
      /\ UNCHANGED <<wrapper, pending, raised, pulled, callVars>>
  BY DEF RawEnds, RawCall, CallsAgain, Transferring, RInv, PumpInv, TypeOK
<1>2. PumpInv'
  BY <1>1, QuietReturnInv DEF QuietReturn, RInv
<1>3. /\ op' = "idle" /\ outcome' = Result("SourceExhausted")
      /\ UNCHANGED <<phase, failed, codec, endVars>>
  BY <1>1 DEF SourceEnds, Return
<1>4. reading
  BY <1>1 DEF RInv, CountsInv
<1>5. ReaderTypeOK' /\ FetchInv' /\ OperationInv'
  BY <1>1, <1>3 DEF RInv, ReaderTypeOK, FetchInv, OperationInv, callVars
<1>6. CountsInv'
  BY <1>1, <1>3 DEF RInv, CountsInv, callVars, endVars
<1>7. OutcomeInv' /\ EndInv'
  BY <1>1, <1>3, <1>4 DEF RInv, OperationInv, OutcomeInv, EndInv, Result, callVars
<1>8. ResultInv'
  BY <1>1, ResultStays DEF callVars
<1> QED BY <1>2, <1>5, <1>6, <1>7, <1>8 DEF RInv

\* What a codec call of a read moves and how it ends.
LEMMA TransferIntoMoves ==
  ASSUME RInv, TransferInto
  PROVE  \E c \in 0..pending, w \in 0..(buf - filled) :
           /\ taken' = taken + c /\ pending' = pending - c /\ w \in Nat /\ c \in Nat
           /\ emitted' = emitted + w /\ stored' = stored + w /\ filled' = filled + w
           /\ w > 0 => emitted' <= MaxOut
           /\ phase = "Open" /\ phase' = "Open" /\ failed = NoKind
           /\ \/ /\ failed' \in ErrorKind /\ op' = "idle" /\ outcome' = CodecError(failed')
                 /\ codec' = "failed"
              \/ /\ failed' = NoKind /\ op' = "idle" /\ w = 0 /\ codec' = "live"
                 /\ outcome' = Stall(Rest)
              \/ /\ failed' = NoKind /\ op' = "idle" /\ codec' = "ended"
                 /\ outcome' = Result("InputEnded")
              \/ /\ failed' = NoKind /\ op' = "idle" /\ codec' = "live"
                 /\ outcome' = Result("Progressed")
<1>1. PICK a \in BoundedAnswers(pending, Rest.len) : Transfers(pending, Rest, a, TRUE)
  BY DEF TransferInto
<1>2. Rest.len \in Nat /\ Rest.len = buf - filled /\ pending \in Nat /\ PumpInv /\ op = "step"
  BY RestIsSpace DEF RInv, ReaderTypeOK, TransferInto
<1>3. PICK s : s = Rest
  OBVIOUS
<1>4. TRUE \in BOOLEAN
  OBVIOUS
<1>5. PICK c \in Nat, w \in Nat : Transferred(pending, s, a, TRUE, c, w)
  BY <1>1, <1>2, <1>3, <1>4, TransferCases
<1>6. /\ c \in 0..pending /\ w \in 0..(buf - filled)
      /\ taken' = taken + c /\ emitted' = emitted + w /\ stored' = stored + w
      /\ w > 0 => emitted' <= MaxOut
      /\ phase = "Open" /\ phase' = "Open" /\ failed = NoKind
  BY <1>2, <1>3, <1>5 DEF Transferred, Counted
<1>7. pending' = pending - c /\ filled' = filled + w
  BY <1>2, <1>6 DEF TransferInto, Filled, RInv, ReaderTypeOK, PumpInv, TypeOK
<1>8. \/ /\ failed' \in ErrorKind /\ op' = "idle" /\ outcome' = CodecError(failed')
         /\ codec' = "failed"
      \/ /\ failed' = NoKind /\ op' = "idle" /\ w = 0 /\ codec' = "live"
         /\ outcome' = Stall(Rest)
      \/ /\ failed' = NoKind /\ op' = "idle" /\ codec' = "ended"
         /\ outcome' = Result("InputEnded")
      \/ /\ failed' = NoKind /\ op' = "idle" /\ codec' = "live"
         /\ outcome' = Result("Progressed")
  BY <1>2, <1>3, <1>5 DEF Transferred, EndPass, Return
<1> QED BY <1>6, <1>7, <1>8

\* A codec call of a read.
LEMMA TransferIntoInv == RInv /\ TransferInto => RInv'
<1> SUFFICES ASSUME RInv, TransferInto PROVE RInv'
  OBVIOUS
<1>1. PICK c \in 0..pending, w \in 0..(buf - filled) :
         /\ taken' = taken + c /\ pending' = pending - c /\ w \in Nat /\ c \in Nat
         /\ emitted' = emitted + w /\ stored' = stored + w /\ filled' = filled + w
         /\ w > 0 => emitted' <= MaxOut
         /\ phase = "Open" /\ phase' = "Open" /\ failed = NoKind
         /\ \/ /\ failed' \in ErrorKind /\ op' = "idle" /\ outcome' = CodecError(failed')
               /\ codec' = "failed"
            \/ /\ failed' = NoKind /\ op' = "idle" /\ w = 0 /\ codec' = "live"
               /\ outcome' = Stall(Rest)
            \/ /\ failed' = NoKind /\ op' = "idle" /\ codec' = "ended"
               /\ outcome' = Result("InputEnded")
            \/ /\ failed' = NoKind /\ op' = "idle" /\ codec' = "live"
               /\ outcome' = Result("Progressed")
  BY TransferIntoMoves
<1>2. /\ op = "step" /\ reading /\ fetch' = "first" /\ tick' \in BOOLEAN /\ filled = 0
      /\ ended' = (ended \/ outcome' = Result("InputEnded"))
      /\ UNCHANGED <<wrapper, raised, pulled, buf, reading, result, delivered>>
  BY DEF TransferInto, RInv, CountsInv, OperationInv, PumpInv, TypeOK
<1>3. PumpInv'
  <2>1. PICK a \in BoundedAnswers(pending, Rest.len) : Transfers(pending, Rest, a, TRUE)
    BY DEF TransferInto
  <2>2. PICK s : s = Rest
    OBVIOUS
  <2>3. Rest.len \in Nat /\ pending \in Nat /\ TRUE \in BOOLEAN
    BY RestIsSpace DEF RInv, ReaderTypeOK
  <2> QED BY <1>2, <2>1, <2>2, <2>3, TransferKeepsPumpInv DEF RInv
<1>4. ReaderTypeOK' /\ FetchInv'
  BY <1>1, <1>2 DEF RInv, ReaderTypeOK, FetchInv
<1>5. CountsInv'
  BY <1>1, <1>2 DEF RInv, ReaderTypeOK, CountsInv, PumpInv, TypeOK
<1>6. OperationInv'
  BY <1>1 DEF OperationInv
<1>7. OutcomeInv'
  <2>1. (Stall(Rest) = Result("SinkExhausted") /\ filled = buf) \/ Stall(Rest) = NoProgress
    BY RestIsSpace DEF Stall, RInv
  <2>2. w = 0 => filled' = filled
    BY <1>1 DEF RInv, ReaderTypeOK
  <2> QED BY <1>1, <1>2, <2>1, <2>2
          DEF OutcomeInv, CodecError, NoProgress, Result, ErrorKind, NoKind
<1>8. EndInv'
  <2>1. ~ended
    BY <1>1, <1>2 DEF RInv, EndInv
  <2>2. CASE failed' # NoKind
    BY <1>1, <2>2 DEF EndInv
  <2>3. CASE op' = "idle" /\ codec' = "ended" /\ outcome' = Result("InputEnded")
    BY <1>2, <2>3 DEF EndInv, Result
  <2>4. CASE /\ codec' = "live"
             /\ outcome'.tag \in {"SinkExhausted", "NoProgress", "Progressed"}
    <3>1. outcome' # Result("InputEnded")
      BY <2>4 DEF Result
    <3>2. ~ended'
      BY <1>2, <2>1, <3>1
    <3> QED BY <2>4, <3>2 DEF EndInv
  <2> QED BY <1>1, <2>2, <2>3, <2>4 DEF Result, Stall, NoProgress, ErrorKind, NoKind
<1>9. ResultInv'
  BY <1>1, <1>2, ResultStays
<1> QED BY <1>3, <1>4, <1>5, <1>6, <1>7, <1>8, <1>9 DEF RInv

\* What a codec call of a read's finish makes and how it ends.
LEMMA FinishIntoMoves ==
  ASSUME RInv, FinishInto
  PROVE  \E w \in 0..(buf - filled) :
           /\ taken' = taken /\ w \in Nat
           /\ emitted' = emitted + w /\ stored' = stored + w /\ filled' = filled + w
           /\ w > 0 => emitted' <= MaxOut
           /\ phase = "Finishing" /\ failed = NoKind
           /\ \/ /\ failed' \in ErrorKind /\ op' = "idle" /\ outcome' = CodecError(failed')
                 /\ phase' = phase /\ codec' = "failed"
              \/ /\ failed' = NoKind /\ phase' = phase /\ codec' = "finishing"
                 /\ \/ /\ op' = "idle" /\ outcome' = Result("SinkExhausted") /\ w = 0
                       /\ filled = buf
                    \/ UNCHANGED <<op, outcome>>
              \/ /\ failed' = NoKind /\ phase' = "Finished" /\ op' = "idle"
                 /\ outcome' = Result("Done") /\ codec' = "done"
<1>1. /\ op = "finish" /\ phase = "Finishing" /\ failed = NoKind /\ PumpInv
      /\ Rest.len \in Nat /\ Rest.len = buf - filled /\ (Rest.full <=> filled = buf)
  BY RestIsSpace DEF FinishInto, RInv, OperationInv
<1>2. PICK a \in DrainAnswers(Rest.len) : Drains(Rest, a, TRUE)
  BY <1>1 DEF FinishInto, FinishAgain, DrainCalls
<1>3. PICK s : s = Rest
  OBVIOUS
<1>4. TRUE \in BOOLEAN
  OBVIOUS
<1>5. PICK w \in Nat : Drained(s, a, TRUE, w)
  BY <1>1, <1>2, <1>3, <1>4, DrainCases
<1>6. /\ w \in 0..(buf - filled)
      /\ taken' = taken /\ emitted' = emitted + w /\ stored' = stored + w
      /\ w > 0 => emitted' <= MaxOut
  BY <1>1, <1>3, <1>5 DEF Drained, Counted
<1>7. filled' = filled + w
  BY <1>6 DEF FinishInto, Filled, RInv, ReaderTypeOK, PumpInv, TypeOK
<1>8. s.len = 0 => Stall(s) = Result("SinkExhausted") /\ filled = buf
  BY <1>1, <1>3 DEF Stall, RInv, ReaderTypeOK
<1>9. \/ /\ failed' \in ErrorKind /\ op' = "idle" /\ outcome' = CodecError(failed')
         /\ phase' = phase /\ codec' = "failed"
      \/ /\ failed' = NoKind /\ phase' = phase /\ codec' = "finishing"
         /\ \/ /\ op' = "idle" /\ outcome' = Result("SinkExhausted") /\ w = 0
               /\ filled = buf
            \/ UNCHANGED <<op, outcome>>
      \/ /\ failed' = NoKind /\ phase' = "Finished" /\ op' = "idle"
         /\ outcome' = Result("Done") /\ codec' = "done"
  BY <1>1, <1>5, <1>8 DEF Drained, Return
<1> QED BY <1>1, <1>6, <1>7, <1>9

\* A codec call of a read's finish.
LEMMA FinishIntoInv == RInv /\ FinishInto => RInv'
<1> SUFFICES ASSUME RInv, FinishInto PROVE RInv'
  OBVIOUS
<1>1. PICK w \in 0..(buf - filled) :
         /\ taken' = taken /\ w \in Nat
         /\ emitted' = emitted + w /\ stored' = stored + w /\ filled' = filled + w
         /\ w > 0 => emitted' <= MaxOut
         /\ phase = "Finishing" /\ failed = NoKind
         /\ \/ /\ failed' \in ErrorKind /\ op' = "idle" /\ outcome' = CodecError(failed')
               /\ phase' = phase /\ codec' = "failed"
            \/ /\ failed' = NoKind /\ phase' = phase /\ codec' = "finishing"
               /\ \/ /\ op' = "idle" /\ outcome' = Result("SinkExhausted") /\ w = 0
                     /\ filled = buf
                  \/ UNCHANGED <<op, outcome>>
            \/ /\ failed' = NoKind /\ phase' = "Finished" /\ op' = "idle"
               /\ outcome' = Result("Done") /\ codec' = "done"
  BY FinishIntoMoves
<1>2. /\ op = "finish" /\ reading /\ tick' \in BOOLEAN
      /\ UNCHANGED <<sourceVars, buf, reading, result, delivered, ended>>
  BY DEF FinishInto, RInv, CountsInv, PumpInv, TypeOK
<1>3. PumpInv'
  <2>1. PICK a \in DrainAnswers(Rest.len) : Drains(Rest, a, TRUE)
    BY <1>1 DEF FinishInto, FinishAgain, DrainCalls
  <2>2. PICK s : s = Rest
    OBVIOUS
  <2>3. Rest.len \in Nat /\ TRUE \in BOOLEAN
    BY RestIsSpace DEF RInv
  <2> QED BY <1>2, <2>1, <2>2, <2>3, DrainKeepsPumpInv DEF RInv
<1>4. ReaderTypeOK' /\ FetchInv'
  BY <1>1, <1>2 DEF RInv, ReaderTypeOK, FetchInv, sourceVars
<1>5. CountsInv'
  BY <1>1, <1>2 DEF RInv, ReaderTypeOK, CountsInv, PumpInv, TypeOK, sourceVars
<1>6. OperationInv'
  BY <1>1, <1>2 DEF OperationInv, RInv
<1>7. OutcomeInv'
  <2>1. w = 0 => filled' = filled
    BY <1>1 DEF RInv, ReaderTypeOK
  <2> QED BY <1>1, <1>2, <2>1 DEF OutcomeInv, CodecError, Result, ErrorKind, NoKind
<1>8. EndInv'
  BY <1>1, <1>2 DEF RInv, EndInv
<1>9. ResultInv'
  BY <1>1, <1>2, ResultStays DEF sourceVars
<1> QED BY <1>3, <1>4, <1>5, <1>6, <1>7, <1>8, <1>9 DEF RInv

\* read_into goes on with the next operation.
LEMMA NextOperationInv == RInv /\ NextOperation => RInv'
<1> SUFFICES ASSUME RInv, NextOperation PROVE RInv'
  OBVIOUS
<1>1. /\ reading /\ op = "idle" /\ UNCHANGED <<sourceVars, callVars, ended>>
      /\ \/ outcome.tag = "Progressed" /\ filled = 0 /\ Call("step")
         \/ outcome.tag \in {"SourceExhausted", "InputEnded"} /\ Call("finish")
  BY DEF NextOperation, Returned, Retries
<1>2. phase = "Open" /\ failed = NoKind
  BY <1>1 DEF RInv, OutcomeInv
<1>3. /\ failed' = failed /\ codec' = codec /\ UNCHANGED endVars
      /\ \/ op' = "step" /\ phase' = "Open" /\ filled = 0 /\ outcome.tag = "Progressed"
         \/ op' = "finish" /\ phase' = "Finishing"
  BY <1>1, <1>2 DEF Call, StartFinish
<1>4. ~ended \/ op' = "finish"
  BY <1>1, <1>2, <1>3 DEF RInv, EndInv
<1>5. PumpInv'
  <2>1. "step" \in Operations /\ "finish" \in Operations
    BY DEF Operations
  <2>2. CASE Call("step")
    <3>1. codec # "ended"
      BY <1>3, <1>4, <2>2 DEF RInv, EndInv, Call
    <3> QED BY <2>1, <2>2, <3>1, CallKeepsPumpInv DEF RInv
  <2>3. CASE Call("finish")
    BY <2>1, <2>3, CallKeepsPumpInv DEF RInv
  <2> QED BY <1>1, <2>2, <2>3
<1>6. ReaderTypeOK' /\ CountsInv' /\ FetchInv'
  <2>1. ReaderTypeOK'
    BY <1>1 DEF RInv, ReaderTypeOK, sourceVars, callVars
  <2>2. CountsInv'
    BY <1>1, <1>3 DEF RInv, CountsInv, sourceVars, callVars, endVars
  <2> QED BY <1>1, <2>1, <2>2 DEF RInv, FetchInv, sourceVars
<1>7. OperationInv' /\ OutcomeInv'
  BY <1>1, <1>2, <1>3 DEF OperationInv, OutcomeInv, callVars
<1>8. EndInv'
  BY <1>1, <1>2, <1>3, <1>4 DEF RInv, EndInv
<1>9. ResultInv'
  BY <1>1, <1>2, ResultStays DEF callVars
<1> QED BY <1>5, <1>6, <1>7, <1>8, <1>9 DEF RInv

\* The read returns: an error only when nothing was put into the buffer.
LEMMA ReadReturnsCases ==
  ASSUME RInv, ReadReturns
  PROVE  /\ reading /\ op = "idle" /\ reading' = FALSE /\ buf' = 0 /\ filled' = 0
         /\ raised' = NoIoKind
         /\ UNCHANGED pumpVars /\ UNCHANGED <<wrapper, pending, fetch, pulled, ended>>
         /\ delivered' = delivered + filled
         /\ \/ /\ filled > 0 /\ result' = Ok(filled)
               /\ outcome.tag \in {"Progressed", "SinkExhausted", "Codec", "Done"}
            \/ /\ filled = 0 /\ result' = Ok(0) /\ phase = "Finished" /\ failed = NoKind
            \/ /\ filled = 0 /\ result' = Err(CodecError(failed)) /\ failed # NoKind
            \/ /\ filled = 0 /\ failed = NoKind /\ phase # "Finished"
               /\ outcome.tag \in {"Source", "NoProgress"} /\ result' = Err(outcome)
<1>1. /\ reading /\ op = "idle" /\ raised' = NoIoKind
      /\ UNCHANGED pumpVars /\ UNCHANGED <<wrapper, pending, fetch, pulled, ended>>
      /\ ~(outcome.tag = "Progressed" /\ filled = 0)
      /\ outcome.tag \notin {"SourceExhausted", "InputEnded"}
      /\ IF (outcome.tag = "Codec" /\ filled = 0) \/ outcome.tag \in {"Source", "Sink", "NoProgress"}
         THEN ReturnErr(outcome) ELSE ReturnOk(filled)
  BY DEF ReadReturns, Returned, Retries, Fails
<1>2. /\ outcome.tag \in {"Progressed", "SourceExhausted", "InputEnded", "Source",
                          "NoProgress", "SinkExhausted", "Codec", "Done"}
      /\ outcome.tag = "Codec" => outcome = CodecError(failed)
      /\ (outcome.tag = "Codec") <=> (failed # NoKind)
      /\ (outcome.tag = "Done") <=> (phase = "Finished")
      /\ outcome.tag \in {"Source", "NoProgress"} => filled = 0
      /\ outcome.tag = "SinkExhausted" => filled = buf
  BY <1>1 DEF RInv, OutcomeInv
<1>3. buf > 0 /\ filled \in Nat /\ buf \in Nat /\ delivered \in Nat
  BY <1>1 DEF RInv, CountsInv, ReaderTypeOK
<1>4. reading' = FALSE /\ buf' = 0 /\ filled' = 0 /\ delivered' = delivered + filled
  BY <1>1, <1>2, <1>3 DEF ReturnErr, ReturnOk
<1>5. CASE outcome.tag \in {"Source", "NoProgress"}
  BY <1>1, <1>2, <1>4, <1>5 DEF ReturnErr
<1>6. CASE outcome.tag = "Codec"
  BY <1>1, <1>2, <1>3, <1>4, <1>6 DEF ReturnErr, ReturnOk
<1>7. CASE outcome.tag \in {"Progressed", "SinkExhausted"}
  BY <1>1, <1>2, <1>3, <1>4, <1>7 DEF ReturnOk
<1>8. CASE outcome.tag = "Done"
  BY <1>1, <1>2, <1>3, <1>4, <1>8 DEF ReturnOk
<1> QED BY <1>1, <1>2, <1>5, <1>6, <1>7, <1>8

\* A read returns.
LEMMA ReadReturnsInv == RInv /\ ReadReturns => RInv'
<1> SUFFICES ASSUME RInv, ReadReturns PROVE RInv'
  OBVIOUS
<1>1. /\ reading /\ op = "idle" /\ reading' = FALSE /\ buf' = 0 /\ filled' = 0
      /\ raised' = NoIoKind
      /\ UNCHANGED pumpVars /\ UNCHANGED <<wrapper, pending, fetch, pulled, ended>>
      /\ delivered' = delivered + filled
  BY ReadReturnsCases
<1>2. \/ result' \in {Ok(0), Ok(filled)}
      \/ result' = Err(CodecError(failed)) /\ failed # NoKind
      \/ result' = Err(outcome) /\ outcome.tag \in {"Source", "NoProgress"}
  BY ReadReturnsCases
<1>3. ~(ended /\ phase = "Open" /\ failed = NoKind)
  BY DEF ReadReturns, RInv, EndInv
<1>4. PumpInv'
  BY <1>1, EndpointKeepsPumpInv DEF RInv, PumpInv, TypeOK, pumpVars, endVars
<1>5. ReaderTypeOK' /\ CountsInv' /\ FetchInv'
  <2>1. ReaderTypeOK'
    <3>1. delivered' \in Nat
      BY <1>1 DEF RInv, ReaderTypeOK
    <3>2. FALSE \in BOOLEAN /\ 0 \in Nat
      OBVIOUS
    <3> QED BY <1>1, <3>1, <3>2 DEF RInv, ReaderTypeOK
  <2>2. CountsInv'
    BY <1>1 DEF RInv, ReaderTypeOK, CountsInv, pumpVars
  <2> QED BY <1>1, <2>1, <2>2 DEF RInv, FetchInv
<1>6. OperationInv' /\ OutcomeInv' /\ EndInv'
  BY <1>1, <1>3 DEF RInv, OperationInv, OutcomeInv, EndInv, pumpVars
<1>7. ResultInv'
  <2>1. CASE result' \in {Ok(0), Ok(filled)}
    BY <2>1 DEF Ok, ResultInv, NoIoKind
  <2>2. CASE result' = Err(CodecError(failed)) /\ failed # NoKind
    <3>1. /\ Err(CodecError(failed)) = [tag |-> "Codec", n |-> 0, kind |-> failed,
                                        io |-> CodecIoKind(wrapper.backend, failed)]
          /\ CodecIoKind(wrapper.backend, failed) # "Interrupted"
      BY CodecErrResult, CodecKindsInside
    <3>2. failed' = failed /\ wrapper' = wrapper
      BY <1>1 DEF pumpVars
    <3>3. Err(CodecError(failed))' = Err(CodecError(failed))
      BY <3>2 DEF Err, CodecError, IoKindOf
    <3> QED BY <1>1, <2>2, <3>1, <3>2, <3>3 DEF ResultInv
  <2>3. CASE result' = Err(outcome) /\ outcome.tag \in {"Source", "NoProgress"}
    BY <2>3, ErrKindsInside DEF RInv, ResultInv
  <2> QED BY <1>2, <2>1, <2>2, <2>3
<1> QED BY <1>4, <1>5, <1>6, <1>7 DEF RInv

\* RInv is inductive.
LEMMA ReaderStepInv == RInv /\ [ReaderNext]_vars => RInv'
<1> SUFFICES ASSUME RInv, [ReaderNext]_vars PROVE RInv'
  OBVIOUS
<1>1. CASE Read
  BY <1>1, ReadRefusedInv, ReadStartsInv, ReaderAssumption DEF Read
<1>2. CASE Work \/ RawInterrupted
  BY <1>2, RawFailsInv, RawEndsInv, RawGivesInv, TransferIntoInv, FinishIntoInv,
     NextOperationInv, ReadReturnsInv DEF Work
<1>3. CASE UNCHANGED vars
  <2>1. UNCHANGED pumpVars /\ UNCHANGED sourceVars /\ UNCHANGED callVars /\ ended' = ended
    BY <1>3 DEF vars
  <2>2. PumpInv'
    BY <2>1, EndpointKeepsPumpInv DEF RInv, PumpInv, TypeOK, pumpVars, endVars
  <2>3. ReaderTypeOK' /\ FetchInv'
    BY <2>1 DEF RInv, ReaderTypeOK, FetchInv, sourceVars, callVars
  <2>4. CountsInv' /\ OperationInv'
    BY <2>1 DEF RInv, CountsInv, OperationInv, sourceVars, callVars, pumpVars
  <2>5. OutcomeInv' /\ EndInv' /\ ResultInv'
    BY <2>1 DEF RInv, OutcomeInv, EndInv, ResultInv, Err, sourceVars, callVars, pumpVars
  <2> QED BY <2>2, <2>3, <2>4, <2>5 DEF RInv
<1> QED BY <1>1, <1>2, <1>3 DEF ReaderNext

\* ReaderSpec implies it.
LEMMA ReaderSpecInv == ReaderSpec => []RInv
<1> QED BY ReaderInitInv, ReaderStepInv, PTL DEF ReaderSpec

-----------------------------------------------------------------------------
(* Results.                                                                *)

\* The reader never makes a call its codec's traits leave undefined: not after
\* a Boundary, not after an error, and not in a finish over several reads.
THEOREM ReaderKeepsItsContract == ReaderSpec => []ReaderKeepsContract
<1>1. RInv => ReaderKeepsContract
  BY DEF RInv, PumpInv, ReaderKeepsContract
<1> QED BY <1>1, ReaderSpecInv, PTL

\* Between reads every byte the codec wrote has been returned, and every byte
\* pulled from the raw reader was given to the codec or is in pending().
THEOREM ReaderLosesNothing == ReaderSpec => []NoByteAstray
<1>1. RInv => NoByteAstray
  BY DEF RInv, CountsInv, ReaderTypeOK, NoByteAstray
<1> QED BY <1>1, ReaderSpecInv, PTL

\* No read of either backend returns an error of the kind Interrupted.
THEOREM ReaderKeepsInterruptions == ReaderSpec => []InterruptedStaysInside
<1>1. RInv => InterruptedStaysInside
  BY DEF RInv, ResultInv, InterruptedStaysInside
<1> QED BY <1>1, ReaderSpecInv, PTL

\* Once the end was seen, no raw call and no codec call of a transfer follows.
THEOREM ReaderEndStays == ReaderSpec => EndStays
<1>1. ASSUME RInv, [ReaderNext]_vars, ended
      PROVE  pulled' = pulled /\ taken' = taken /\ pending' = pending
  <2>1. ~(op = "step")
    BY <1>1 DEF RInv, OperationInv, EndInv
  <2>2. CASE Read
    BY <2>2 DEF Read, ReadRefused, ReadStarts, Call, sourceVars, endVars, pumpVars
  <2>3. CASE FinishInto
    <3>1. taken' = taken
      BY <1>1, <2>3, FinishIntoMoves
    <3> QED BY <2>3, <3>1 DEF FinishInto, sourceVars
  <2>4. CASE NextOperation \/ ReadReturns
    BY <2>4 DEF NextOperation, ReadReturns, Call, sourceVars, endVars, pumpVars
  <2>5. CASE UNCHANGED vars
    BY <2>5 DEF vars, pumpVars, sourceVars
  <2> QED BY <1>1, <2>1, <2>2, <2>3, <2>4, <2>5
          DEF ReaderNext, Work, RawInterrupted, RawFails, RawEnds, RawGives, BufferLends, RawCall,
              TransferInto
<1>2. RInv /\ [ReaderNext]_vars => [ended => pulled' = pulled /\ taken' = taken /\ pending' = pending]_vars
  BY <1>1
<1> QED BY <1>2, ReaderSpecInv, PTL DEF ReaderSpec, EndStays

-----------------------------------------------------------------------------
(* Every step is one that ByteReader allows.  That a read returns, the     *)
(* promise's last conjunct, rests on fairness and stays with the runs.     *)

\* The state of the codec as the caller of read sees it.
State == IF failed # NoKind THEN "broken" ELSE IF phase = "Finished" THEN "over" ELSE "open"

\* A read that has nothing to do repeats the error or the end.
LEMMA RefusedIsRefuse == ASSUME RInv, RInv', NEW b, ReadRefused(b) PROVE Promise!Refuse
<1>1. /\ UNCHANGED pumpVars /\ UNCHANGED sourceVars /\ ended' = ended
      /\ ~reading /\ reading' = FALSE /\ buf' = 0 /\ filled' = 0
      /\ \/ failed # NoKind /\ result' = Err(CodecError(failed)) /\ delivered' = delivered
         \/ failed = NoKind /\ result' = Ok(0) /\ delivered' = delivered + 0
  BY DEF ReadRefused, ReturnOk, ReturnErr
<1>2. delivered' = delivered
  BY <1>1 DEF RInv, ReaderTypeOK
<1>3. reading' = reading
  BY <1>1 DEF RInv, ReaderTypeOK
<1>4. buf' = buf
  BY <1>1 DEF RInv, CountsInv
<1>5. State' = State /\ emitted' = emitted
  BY <1>1 DEF State, pumpVars
<1>6. result'.io # "Interrupted"
  BY DEF RInv, ResultInv
<1>7. CASE failed # NoKind /\ result' = Err(CodecError(failed))
  <2>1. result'.tag = "Codec"
    BY <1>7, CodecErrResult
  <2>2. result.tag = "Codec" => result' = result
    BY <1>7 DEF RInv, ResultInv
  <2>3. State = "broken"
    BY <1>7 DEF State
  <2> QED BY <1>1, <1>2, <1>3, <1>4, <1>5, <1>6, <2>1, <2>2, <2>3
          DEF Promise!Refuse, Promise!CodecErr, State
<1>8. CASE failed = NoKind /\ result' = Ok(0)
  <2>1. State # "broken"
    BY <1>8 DEF State
  <2>2. result'.tag = "Ok" /\ result'.n = 0
    BY <1>8 DEF Ok
  <2> QED BY <1>1, <1>2, <1>3, <1>4, <1>5, <1>6, <2>1, <2>2 DEF Promise!Refuse, Promise!OkOf, State
<1> QED BY <1>1, <1>7, <1>8

\* A read that starts an operation of the pump starts.
LEMMA StartsIsStart == ASSUME RInv, NEW b \in Nat, ReadStarts(b) PROVE Promise!Start(b)
<1>1. /\ ~reading /\ failed = NoKind /\ b > 0 /\ phase # "Finished"
      /\ reading' = TRUE /\ buf' = b /\ Call(FirstOperation)
      /\ result' = result /\ delivered' = delivered
  BY DEF ReadStarts
<1>2. phase' = phase /\ failed' = failed /\ emitted' = emitted
  BY <1>1 DEF Call, StartFinish, FirstOperation, RInv, PumpInv, TypeOK, FinishPhase, endVars
<1>3. State = "open" /\ State' = State
  BY <1>1, <1>2 DEF State
<1> QED BY <1>1, <1>2, <1>3 DEF Promise!Start, State

\* A codec call makes bytes for the caller's buffer, no more than fit.
LEMMA MovesAreWork == ASSUME RInv, TransferInto \/ FinishInto PROVE Promise!Work
<1>1. /\ reading /\ UNCHANGED <<reading, buf, result, delivered>>
      /\ emitted \in Nat /\ emitted = delivered + filled /\ filled <= buf
      /\ delivered \in Nat /\ filled \in Nat /\ buf \in Nat /\ emitted <= MaxOut
  BY DEF TransferInto, FinishInto, RInv, CountsInv, OperationInv, ReaderTypeOK, PumpInv, TypeOK
<1>2. PICK w \in 0..(buf - filled) :
         /\ w \in Nat /\ emitted' = emitted + w /\ (w > 0 => emitted' <= MaxOut)
         /\ failed = NoKind /\ phase # "Finished"
  BY TransferIntoMoves, FinishIntoMoves
<1>3. State = "open" /\ State' \in {"open", "over", "broken"}
  BY <1>2 DEF State
<1>4. emitted' \in emitted..MaxOut /\ emitted' <= delivered + buf
  BY <1>1, <1>2, PumpAssumption
<1> QED BY <1>1, <1>3, <1>4 DEF Promise!Work, State

\* A read returns what was made, and says nothing else before.
LEMMA ReturnsAreReturn == ASSUME RInv, RInv', ReadReturns PROVE Promise!Return
<1>1. /\ reading /\ reading' = FALSE /\ buf' = 0 /\ UNCHANGED pumpVars
      /\ delivered' = delivered + filled
      /\ \/ filled > 0 /\ result' = Ok(filled)
         \/ filled = 0 /\ result' = Ok(0) /\ phase = "Finished" /\ failed = NoKind
         \/ filled = 0 /\ result' = Err(CodecError(failed)) /\ failed # NoKind
         \/ /\ filled = 0 /\ failed = NoKind /\ phase # "Finished"
            /\ outcome.tag \in {"Source", "NoProgress"} /\ result' = Err(outcome)
  BY ReadReturnsCases
<1>2. /\ emitted = delivered + filled /\ delivered \in Nat /\ filled \in Nat
      /\ result.tag # "Codec"
  BY <1>1 DEF RInv, CountsInv, ReaderTypeOK, ResultInv
<1>3. emitted' = emitted /\ State' = State /\ delivered' = emitted
  BY <1>1, <1>2 DEF pumpVars, State
<1>4. result'.io # "Interrupted"
  BY DEF RInv, ResultInv
<1>5. CASE filled > 0 /\ result' = Ok(filled)
  <2>1. emitted > delivered /\ emitted - delivered = filled
    BY <1>2, <1>5
  <2>2. result'.tag = "Ok" /\ result'.n = filled
    BY <1>5 DEF Ok
  <2> QED BY <1>1, <1>3, <1>4, <2>1, <2>2 DEF Promise!Return, Promise!OkOf, State
<1>6. CASE filled = 0
  <2>1. ~(emitted > delivered)
    BY <1>2, <1>6
  <2>2. CASE result' = Ok(0) /\ phase = "Finished" /\ failed = NoKind
    <3>1. State = "over" /\ result'.tag = "Ok" /\ result'.n = 0
      BY <2>2 DEF State, Ok
    <3> QED BY <1>1, <1>3, <1>4, <2>1, <3>1 DEF Promise!Return, Promise!OkOf, State
  <2>3. CASE result' = Err(CodecError(failed)) /\ failed # NoKind
    <3>1. State = "broken" /\ result'.tag = "Codec"
      BY <2>3, CodecErrResult DEF State
    <3> QED BY <1>1, <1>2, <1>3, <1>4, <2>1, <3>1 DEF Promise!Return, Promise!CodecErr, State
  <2>4. CASE /\ failed = NoKind /\ phase # "Finished"
             /\ outcome.tag \in {"Source", "NoProgress"} /\ result' = Err(outcome)
    <3>1. State = "open" /\ result'.tag \in {"Source", "NoProgress"}
      BY <2>4 DEF State, Err
    <3> QED BY <1>1, <1>3, <1>4, <2>1, <3>1 DEF Promise!Return, State
  <2> QED BY <1>1, <1>2, <1>6, <2>2, <2>3, <2>4
<1> QED BY <1>1, <1>2, <1>5, <1>6

\* The caller of read does not see what happens at the raw reader.
LEMMA RawIsHidden ==
  ASSUME RInv,
         RawInterrupted \/ RawFails \/ RawEnds \/ RawGives \/ BufferLends \/ NextOperation
           \/ UNCHANGED vars
  PROVE  UNCHANGED Promise!vars
<1>1. /\ UNCHANGED <<failed, emitted, delivered, reading, buf, result>>
      /\ phase' = phase \/ (phase = "Open" /\ phase' = "Finishing")
  <2>1. CASE NextOperation
    <3>1. UNCHANGED <<failed, emitted, delivered, reading, buf, result>>
      BY <2>1 DEF NextOperation, Call, callVars, endVars
    <3>2. phase' = phase \/ (phase = "Open" /\ phase' = "Finishing")
      BY <2>1 DEF NextOperation, Call, StartFinish
    <3> QED BY <3>1, <3>2
  <2>2. CASE UNCHANGED vars
    BY <2>2 DEF vars, pumpVars, callVars
  <2> QED BY <2>1, <2>2 DEF RawInterrupted, RawFails, RawEnds, RawGives, BufferLends, ChunkFails,
                            SourceEnds, callVars, endVars
<1>2. State' = State
  BY <1>1 DEF State
<1> QED BY <1>1, <1>2 DEF Promise!vars, State

\* The readers start as ByteReader says, and every step of theirs is one of
\* its steps, or nothing the caller sees.
THEOREM ReaderMovesAsPromised == ReaderSpec => Promise!Init /\ [][Promise!Next]_(Promise!vars)
<1>1. Init => Promise!Init
  <2> SUFFICES ASSUME Init PROVE Promise!Init
    OBVIOUS
  <2>1. result.tag = "Ok" /\ result.n = 0
    BY DEF Init, Ok
  <2> QED BY <2>1 DEF Init, PumpInit, Promise!Init, State
<1>2. ASSUME RInv, [ReaderNext]_vars PROVE [Promise!Next]_(Promise!vars)
  <2>0. RInv'
    BY <1>2, ReaderStepInv
  <2>1. CASE Read
    <3>1. PICK b \in 0..MaxBuf : ReadRefused(b) \/ ReadStarts(b)
      BY <2>1 DEF Read
    <3>2. b \in Nat
      BY ReaderAssumption
    <3>3. CASE ReadStarts(b)
      <4>1. Promise!Start(b) /\ buf' = b
        BY <1>2, <3>2, <3>3, StartsIsStart DEF ReadStarts
      <4> QED BY <4>1 DEF Promise!Next
    <3> QED BY <1>2, <2>0, <3>1, <3>3, RefusedIsRefuse DEF Promise!Next
  <2> QED BY <1>2, <2>0, <2>1, MovesAreWork, ReturnsAreReturn, RawIsHidden
          DEF ReaderNext, Work, Promise!Next
<1>3. RInv /\ [ReaderNext]_vars => [Promise!Next]_(Promise!vars)
  BY <1>2
<1> QED BY <1>1, <1>3, ReaderSpecInv, PTL DEF ReaderSpec

\* The totals of the pump stay exact under the reader, over any word size.
THEOREM ReaderTotalsExact == ReaderSpec => []TotalsExact
<1>1. RInv => TotalsExact
  BY DEF RInv, PumpInv
<1> QED BY <1>1, ReaderSpecInv, PTL

=============================================================================
