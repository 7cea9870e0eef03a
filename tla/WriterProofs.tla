---------------------------- MODULE WriterProofs ----------------------------
(***************************************************************************)
(* The safety of the writers for every length of buffer, every sink and    *)
(* every codec: the bytes are accounted for until a fault is reported, a   *)
(* finish that succeeds is complete, and every step is one that ByteWriter,*)
(* the promise to the caller, allows.                                      *)
(***************************************************************************)
EXTENDS Writer, PumpProofs

-----------------------------------------------------------------------------
(* The inductive invariant.                                                *)

WriterTypeOK ==
  /\ backend \in Backends /\ method \in Methods \cup {"none"}
  /\ buf \in Nat /\ used \in Nat /\ accepted \in Nat
  /\ closed \in BOOLEAN /\ faulty \in BOOLEAN

\* An operation of the pump is the one of the method in progress; the codec
\* of a writer ends by finish only.
MethodInv ==
  /\ op # "idle" => method # "none" /\ op = Operation(method)
  /\ codec # "ended"
  /\ method = "finish" => phase # "Open"
  /\ op = "transfer" /\ used > 0 => phase = "Open"
  /\ closed => method = "none" /\ phase = "Finished"

\* Until a fault is reported the sums agree, but for the fault that the method
\* is about to report.
CountsInv ==
  /\ used <= buf /\ emitted <= MaxOut
  /\ method # "write" => buf = 0
  /\ ~faulty => accepted + used = taken
  /\ ~faulty /\ stored # emitted => method # "none" /\ op = "idle" /\ outcome.tag = "Sink"

\* What the result of the pump says when the method has still to return.
OutcomeInv ==
  method # "none" /\ op = "idle" =>
    /\ outcome.tag \in {"SinkExhausted", "Codec", "Sink", "NoProgress"}
         \cup IF method = "write" THEN {"SourceExhausted"} ELSE {"Done"}
    /\ failed # NoKind => outcome.tag \in {"Codec", "Sink"}
    /\ outcome.tag = "SinkExhausted" => outcome = FullSink
    /\ outcome.tag = "Codec" => failed # NoKind \/ (phase # "Open" /\ method # "finish" /\ used = 0)
    /\ outcome.tag = "SourceExhausted" => used = buf
    /\ outcome.tag \in {"SourceExhausted", "SinkExhausted", "Done"} /\ method # "finish" =>
         phase = "Open"
    /\ outcome.tag = "Done" /\ method = "finish" => phase = "Finished"
    /\ outcome.tag = "SinkExhausted" /\ method = "finish" => phase = "Finishing"

WInv == PumpInv /\ WriterTypeOK /\ MethodInv /\ CountsInv /\ OutcomeInv

-----------------------------------------------------------------------------
(* The first state, and every step of a method.                            *)

\* The first state.
LEMMA WriterInitInv == Init => WInv
<1> SUFFICES ASSUME Init PROVE WInv
  OBVIOUS
<1>1. PumpInv
  BY InitPumpInv DEF Init
<1>2. WriterTypeOK
  BY DEF Init, WriterTypeOK
<1>3. MethodInv
  BY DEF Init, PumpInit, MethodInv
<1>4. CountsInv /\ OutcomeInv
  BY PumpAssumption DEF Init, PumpInit, CountsInv, OutcomeInv
<1> QED BY <1>1, <1>2, <1>3, <1>4 DEF WInv

\* The operation of a method.
LEMMA OperationTyped ==
  ASSUME NEW m \in Methods
  PROVE  /\ Operation(m) \in Operations
         /\ Operation(m) = "finish" <=> m = "finish"
         /\ Operation(m) = "transfer" <=> m = "write"
         /\ Operation(m) = "flush" <=> m = "flush"
BY DEF Operation, Operations, Methods

\* A method is called.
LEMMA BeginCases ==
  ASSUME WInv, Begin
  PROVE  \E m \in Methods, b \in Nat :
           /\ method = "none" /\ ~closed /\ op = "idle"
           /\ (m # "write" => b = 0)
           /\ method' = m /\ buf' = b /\ used' = 0
           /\ Call(Operation(m)) /\ op' = Operation(m)
           /\ phase' = (IF m = "finish" /\ phase = "Open" THEN "Finishing" ELSE phase)
           /\ UNCHANGED <<backend, closed, result, accepted, faulty, failed, codec, endVars>>
<1>1. PICK m \in Methods, b \in 0..MaxBuf : (m # "write" => b = 0) /\ Starts(m, b)
  BY DEF Begin
<1>2. b \in Nat
  BY WriterAssumption
<1>3. /\ method = "none" /\ ~closed /\ method' = m /\ buf' = b /\ used' = 0
      /\ Call(Operation(m)) /\ UNCHANGED <<backend, closed, result, accepted, faulty>>
  BY <1>1 DEF Starts
<1>4. /\ op = "idle" /\ op' = Operation(m) /\ UNCHANGED <<failed, codec, endVars>>
      /\ phase' = (IF m = "finish" /\ phase = "Open" THEN "Finishing" ELSE phase)
  BY <1>3, OperationTyped DEF Call, StartFinish
<1> QED BY <1>1, <1>2, <1>3, <1>4

\* The call keeps the invariant.
LEMMA BeginInv == WInv /\ Begin => WInv'
<1> SUFFICES ASSUME WInv, Begin PROVE WInv'
  OBVIOUS
<1>1. PICK m \in Methods, b \in Nat :
         /\ method = "none" /\ ~closed /\ op = "idle"
         /\ (m # "write" => b = 0)
         /\ method' = m /\ buf' = b /\ used' = 0
         /\ Call(Operation(m)) /\ op' = Operation(m)
         /\ phase' = (IF m = "finish" /\ phase = "Open" THEN "Finishing" ELSE phase)
         /\ UNCHANGED <<backend, closed, result, accepted, faulty, failed, codec, endVars>>
  BY BeginCases
<1>2. codec # "ended"
  BY DEF WInv, MethodInv
<1>3. PICK o \in Operations : o = Operation(m) /\ o # "idle"
  BY OperationTyped DEF Operations
<1>4. PumpInv'
  BY <1>1, <1>2, <1>3, CallKeepsPumpInv DEF WInv
<1>5. WriterTypeOK'
  BY <1>1 DEF WInv, WriterTypeOK
<1>6. MethodInv'
  BY <1>1, <1>2 DEF MethodInv, Methods
<1>7. used = 0
  BY <1>1 DEF WInv, CountsInv, WriterTypeOK
<1>8. CountsInv'
  BY <1>1, <1>7 DEF WInv, CountsInv, WriterTypeOK, endVars
<1>9. OutcomeInv'
  BY <1>1, <1>3 DEF OutcomeInv
<1> QED BY <1>4, <1>5, <1>6, <1>8, <1>9 DEF WInv

\* Codec::process never reports an in-band end.
LEMMA NeverEnds ==
  ASSUME NEW i \in Nat, NEW s, s.len \in Nat, NEW ok, NEW a \in ProcessAnswers(i, s.len),
         Transfers(i, s, a, ok)
  PROVE  codec' # "ended"
<1>1. PICK v : v = Validated(a, i, s.len)
  OBVIOUS
<1>2. v.tag # "Boundary"
  BY <1>1, ProcessAnswer
<1>3. codec' = AfterProcess(codec, v)
  BY <1>1 DEF Transfers, StepFails, StepStalls, StepMoves
<1> QED BY <1>2, <1>3 DEF AfterProcess

\* The space that a sink over a raw writer lends.
LEMMA SpacesTyped == ASSUME NEW s \in Spaces PROVE s.len \in Nat
BY PumpAssumption DEF Spaces, Space, Full

\* What a codec call of a write moves and how it ends.
LEMMA TransferBufMoves ==
  ASSUME WInv, TransferBuf, ~(used = buf /\ SourceEnds)
  PROVE  \E c \in 0..(buf - used), w \in Nat, k \in Nat :
           /\ PumpInv' /\ codec' # "ended" /\ c \in Nat /\ k <= w
           /\ taken' = taken + c /\ used' = used + c
           /\ emitted' = emitted + w /\ stored' = stored + k
           /\ w > 0 => emitted' <= MaxOut
           /\ phase = "Open" /\ phase' = "Open" /\ failed = NoKind
           /\ \/ k = w /\ failed' = NoKind /\ UNCHANGED <<op, outcome>>
              \/ k = w /\ failed' = NoKind /\ op' = "idle"
                 /\ outcome' \in {FullSink, NoProgress}
              \/ k = w /\ failed' # NoKind /\ op' = "idle" /\ outcome'.tag = "Codec"
              \/ op' = "idle" /\ outcome'.tag = "Sink"
<1>1. PICK s \in Spaces, ok \in BOOLEAN :
         \E a \in ProcessAnswers(buf - used, s.len) : Transfers(buf - used, s, a, ok)
  BY DEF TransferBuf
<1>2. PICK a \in ProcessAnswers(buf - used, s.len) : Transfers(buf - used, s, a, ok)
  BY <1>1
<1>3. PICK i \in Nat : i = buf - used
  BY DEF WInv, WriterTypeOK, CountsInv
<1>4. /\ s.len \in Nat /\ a \in BoundedAnswers(i, s.len) /\ PumpInv
      /\ op = "transfer" /\ tick' \in BOOLEAN /\ used' = used + (taken' - taken)
  BY <1>2, <1>3, SpacesTyped DEF BoundedAnswers, TransferBuf, WInv, PumpInv, TypeOK
<1>5. codec' # "ended"
  BY <1>2, <1>3, <1>4, NeverEnds
<1>6. PumpInv'
  BY <1>2, <1>3, <1>4, TransferKeepsPumpInv
<1>7. PICK c \in Nat, w \in Nat : Transferred(i, s, a, ok, c, w)
  BY <1>2, <1>3, <1>4, TransferCases
<1>8. PICK k \in 0..w : k = Counted(w, ok) /\ k \in Nat /\ (ok = TRUE => k = w)
  BY DEF Counted
<1>9. /\ c \in 0..(buf - used) /\ taken' = taken + c
      /\ emitted' = emitted + w /\ stored' = stored + k
      /\ w > 0 => emitted' <= MaxOut
      /\ phase = "Open" /\ phase' = "Open" /\ failed = NoKind
  BY <1>3, <1>7, <1>8 DEF Transferred
<1>10. used' = used + c
  BY <1>4, <1>9 DEF WInv, WriterTypeOK, PumpInv, TypeOK
<1>11. \/ k = w /\ failed' = NoKind /\ UNCHANGED <<op, outcome>>
       \/ k = w /\ failed' = NoKind /\ op' = "idle"
          /\ outcome' \in {FullSink, NoProgress}
       \/ k = w /\ failed' # NoKind /\ op' = "idle" /\ outcome'.tag = "Codec"
       \/ op' = "idle" /\ outcome'.tag = "Sink"
  <2>1. CASE ok = TRUE
    <3>1. \/ failed' \in ErrorKind /\ op' = "idle" /\ outcome' = CodecError(failed')
          \/ failed' = NoKind /\ op' = "idle" /\ outcome' = Stall(s)
          \/ failed' = NoKind /\ UNCHANGED <<op, outcome>>
      BY <1>4, <1>5, <1>7, <2>1 DEF Transferred, Return, EndPass
    <3>2. CodecError(failed').tag = "Codec" /\ Stall(s) \in {FullSink, NoProgress}
      BY DEF CodecError, Stall, FullSink
    <3>3. NoKind \notin ErrorKind
      BY DEF ErrorKind, NoKind
    <3> QED BY <1>8, <2>1, <3>1, <3>2, <3>3
  <2>2. CASE ok = FALSE
    <3>1. \/ op' = "idle" /\ outcome' = SinkError
          \/ w = 0 /\ failed' = NoKind /\ op' = "idle" /\ outcome' = Stall(s)
      BY <1>5, <1>7, <2>2 DEF Transferred, Return
    <3> QED BY <1>8, <3>1 DEF Stall, FullSink, SinkError, Result
  <2> QED BY <2>1, <2>2
<1> QED BY <1>5, <1>6, <1>8, <1>9, <1>10, <1>11

\* A pass of a write.
LEMMA TransferBufInv == WInv /\ TransferBuf => WInv'
<1> SUFFICES ASSUME WInv, TransferBuf PROVE WInv'
  OBVIOUS
<1>1. /\ op = "transfer" /\ method = "write" /\ ~closed
      /\ UNCHANGED <<backend, method, buf, closed, result, accepted, faulty>>
  BY DEF TransferBuf, WInv, MethodInv, WriterTypeOK, Operation, Methods
<1>2. CASE used = buf /\ SourceEnds
  <2>1. /\ op' = "idle" /\ outcome' = Result("SourceExhausted") /\ phase = "Open" /\ failed = NoKind
        /\ UNCHANGED <<phase, failed, codec, endVars>> /\ tick' \in BOOLEAN
        /\ used' = used + (taken' - taken)
    BY <1>2 DEF SourceEnds, Return, Transferring, TransferBuf, WInv, PumpInv, TypeOK
  <2>2. used' = used
    BY <2>1 DEF endVars, WInv, WriterTypeOK, PumpInv, TypeOK
  <2>3. PumpInv'
    BY <1>2, <2>1, QuietReturnInv DEF QuietReturn, WInv
  <2>4. WriterTypeOK' /\ MethodInv'
    BY <1>1, <2>1, <2>2 DEF WInv, WriterTypeOK, MethodInv
  <2>5. CountsInv'
    BY <1>1, <2>1, <2>2 DEF WInv, CountsInv, endVars
  <2>6. OutcomeInv'
    BY <1>1, <1>2, <2>1, <2>2 DEF OutcomeInv, Result
  <2> QED BY <2>3, <2>4, <2>5, <2>6 DEF WInv
<1>3. CASE ~(used = buf /\ SourceEnds)
  <2>1. PICK c \in 0..(buf - used), w \in Nat, k \in Nat :
           /\ PumpInv' /\ codec' # "ended" /\ c \in Nat /\ k <= w
           /\ taken' = taken + c /\ used' = used + c
           /\ emitted' = emitted + w /\ stored' = stored + k
           /\ w > 0 => emitted' <= MaxOut
           /\ phase = "Open" /\ phase' = "Open" /\ failed = NoKind
           /\ \/ k = w /\ failed' = NoKind /\ UNCHANGED <<op, outcome>>
              \/ k = w /\ failed' = NoKind /\ op' = "idle"
                 /\ outcome' \in {FullSink, NoProgress}
              \/ k = w /\ failed' # NoKind /\ op' = "idle" /\ outcome'.tag = "Codec"
              \/ op' = "idle" /\ outcome'.tag = "Sink"
    BY <1>3, TransferBufMoves
  <2>2. WriterTypeOK'
    BY <1>1, <2>1 DEF WInv, WriterTypeOK
  <2>3. MethodInv'
    BY <1>1, <2>1 DEF WInv, MethodInv
  <2>4. CountsInv'
    <3>1. faulty \/ accepted' + used' = taken'
      BY <1>1, <2>1 DEF WInv, CountsInv, WriterTypeOK, PumpInv, TypeOK
    <3>2. /\ used' <= buf' /\ emitted' <= MaxOut
      BY <1>1, <2>1, PumpAssumption DEF WInv, CountsInv, WriterTypeOK, PumpInv, TypeOK
    <3>3. ~faulty => stored = emitted
      BY <1>1 DEF WInv, CountsInv
    <3>4. ~faulty' /\ stored' # emitted' => op' = "idle" /\ outcome'.tag = "Sink"
      BY <1>1, <2>1, <3>3 DEF WInv, PumpInv, TypeOK
    <3> QED BY <1>1, <3>1, <3>2, <3>4 DEF CountsInv
  <2>5. OutcomeInv'
    BY <1>1, <2>1 DEF OutcomeInv, FullSink, NoProgress, Result
  <2> QED BY <2>1, <2>2, <2>3, <2>4, <2>5 DEF WInv
<1> QED BY <1>2, <1>3

\* `spare` fails.
LEMMA SpaceFailsInv == WInv /\ SpaceFails => WInv'
<1> SUFFICES ASSUME WInv, SpaceFails PROVE WInv'
  OBVIOUS
<1>1. /\ op' = "idle" /\ outcome' = SinkError /\ op # "idle" /\ UNCHANGED writeVars
      /\ UNCHANGED <<phase, failed, codec, endVars>> /\ tick' \in BOOLEAN /\ SpareFails
  BY DEF SpaceFails, SpareFails, Return, Transferring, Draining, WInv, PumpInv, TypeOK
<1>2. PumpInv'
  BY <1>1, QuietReturnInv DEF QuietReturn, WInv
<1>3. WriterTypeOK' /\ MethodInv'
  BY <1>1 DEF WInv, WriterTypeOK, MethodInv, writeVars
<1>4. CountsInv'
  BY <1>1 DEF WInv, CountsInv, writeVars, endVars
<1>5. OutcomeInv'
  BY <1>1 DEF OutcomeInv, SinkError, Result
<1> QED BY <1>2, <1>3, <1>4, <1>5 DEF WInv

\* The pump refuses the operation.
LEMMA RefusedCallInv == WInv /\ RefusedCall => WInv'
<1> SUFFICES ASSUME WInv, RefusedCall PROVE WInv'
  OBVIOUS
<1>1. /\ op' = "idle" /\ op # "idle" /\ UNCHANGED writeVars /\ outcome'.tag = "Codec"
      /\ failed # NoKind \/ (failed = NoKind /\ phase # "Open" /\ op # "finish")
      /\ UNCHANGED <<phase, failed, codec, endVars>> /\ tick' \in BOOLEAN /\ Refused
  BY DEF RefusedCall, Refused, Return, CodecError, WInv, PumpInv, TypeOK
<1>2. PumpInv'
  BY <1>1, QuietReturnInv DEF QuietReturn, WInv
<1>3. WriterTypeOK' /\ MethodInv'
  BY <1>1 DEF WInv, WriterTypeOK, MethodInv, writeVars
<1>4. CountsInv'
  BY <1>1 DEF WInv, CountsInv, writeVars, endVars
<1>5. failed # NoKind \/ (phase # "Open" /\ method # "finish" /\ used = 0)
  BY <1>1 DEF WInv, MethodInv, WriterTypeOK, CountsInv, Operation
<1>6. OutcomeInv'
  BY <1>1, <1>5 DEF OutcomeInv, writeVars
<1> QED BY <1>2, <1>3, <1>4, <1>6 DEF WInv

\* What a codec call of a flush or a finish makes and how it ends.
LEMMA DrainMovesCases ==
  ASSUME WInv, DrainPass, ~FinishAgain
  PROVE  \E w \in Nat, k \in Nat :
           /\ PumpInv' /\ codec' # "ended" /\ k <= w /\ taken' = taken
           /\ emitted' = emitted + w /\ stored' = stored + k
           /\ w > 0 => emitted' <= MaxOut
           /\ failed = NoKind
           /\ \/ op = "flush" /\ phase = "Open" /\ phase' = "Open"
              \/ op = "finish" /\ phase = "Finishing" /\ phase' \in {"Finishing", "Finished"}
           /\ \/ k = w /\ failed' = NoKind /\ UNCHANGED <<op, outcome>> /\ phase' = phase
              \/ k = w /\ failed' = NoKind /\ op' = "idle" /\ phase' = phase
                 /\ outcome' \in {FullSink, NoProgress}
              \/ k = w /\ failed' # NoKind /\ op' = "idle" /\ outcome'.tag = "Codec" /\ phase' = phase
              \/ k = w /\ failed' = NoKind /\ op' = "idle" /\ outcome'.tag = "Done"
                 /\ (op = "finish" => phase' = "Finished")
              \/ op' = "idle" /\ outcome'.tag = "Sink"
<1>1. PICK s \in Spaces, ok \in BOOLEAN : \E a \in DrainAnswers(s.len) : Drains(s, a, ok)
  BY DEF DrainPass
<1>2. PICK a \in DrainAnswers(s.len) : Drains(s, a, ok)
  BY <1>1
<1>3. s.len \in Nat /\ PumpInv /\ tick' \in BOOLEAN
  BY SpacesTyped DEF DrainPass, WInv, PumpInv, TypeOK
<1>4. PumpInv'
  BY <1>2, <1>3, DrainKeepsPumpInv
<1>5. PICK w \in Nat : Drained(s, a, ok, w)
  BY <1>2, <1>3, DrainCases
<1>6. PICK k \in 0..w : k = Counted(w, ok) /\ k \in Nat /\ (ok = TRUE => k = w)
  BY DEF Counted
<1>7. /\ codec' # "ended" /\ taken' = taken
      /\ emitted' = emitted + w /\ stored' = stored + k
      /\ w > 0 => emitted' <= MaxOut
      /\ failed = NoKind
      /\ \/ op = "flush" /\ phase = "Open" /\ phase' = "Open"
         \/ op = "finish" /\ phase = "Finishing" /\ phase' \in {"Finishing", "Finished"}
  BY <1>5, <1>6 DEF Drained
<1>8. \/ k = w /\ failed' = NoKind /\ UNCHANGED <<op, outcome>> /\ phase' = phase
      \/ k = w /\ failed' = NoKind /\ op' = "idle" /\ phase' = phase
         /\ outcome' \in {FullSink, NoProgress}
      \/ k = w /\ failed' # NoKind /\ op' = "idle" /\ outcome'.tag = "Codec" /\ phase' = phase
      \/ k = w /\ failed' = NoKind /\ op' = "idle" /\ outcome'.tag = "Done"
         /\ (op = "finish" => phase' = "Finished")
      \/ op' = "idle" /\ outcome'.tag = "Sink"
  <2>1. CASE ok = TRUE
    <3>1. \/ /\ failed' \in ErrorKind /\ op' = "idle" /\ outcome' = CodecError(failed')
             /\ phase' = phase
          \/ failed' = NoKind /\ op' = "idle" /\ outcome' = Stall(s) /\ phase' = phase
          \/ failed' = NoKind /\ UNCHANGED <<op, outcome>> /\ phase' = phase
          \/ /\ failed' = NoKind /\ op' = "idle" /\ outcome' = Result("Done")
             /\ op = "finish" => phase' = "Finished"
      BY <1>5, <2>1 DEF Drained, Return
    <3>2. /\ CodecError(failed').tag = "Codec" /\ Result("Done").tag = "Done"
          /\ Stall(s) \in {FullSink, NoProgress}
      BY DEF CodecError, Stall, FullSink, Result
    <3>3. NoKind \notin ErrorKind
      BY DEF ErrorKind, NoKind
    <3> QED BY <1>6, <2>1, <3>1, <3>2, <3>3
  <2>2. CASE ok = FALSE
    <3>1. \/ op' = "idle" /\ outcome' = SinkError
          \/ w = 0 /\ failed' = NoKind /\ op' = "idle" /\ outcome' = Stall(s) /\ phase' = phase
      BY <1>5, <2>2 DEF Drained, Return
    <3> QED BY <1>6, <3>1 DEF Stall, FullSink, SinkError, Result
  <2> QED BY <2>1, <2>2
<1> QED BY <1>4, <1>6, <1>7, <1>8

\* A pass of a flush or a finish.
LEMMA DrainPassInv == WInv /\ DrainPass => WInv'
<1> SUFFICES ASSUME WInv, DrainPass PROVE WInv'
  OBVIOUS
<1>1. /\ UNCHANGED writeVars /\ tick' \in BOOLEAN
      /\ op \in {"flush", "finish"} /\ method = op /\ ~closed
  BY DEF DrainPass, FinishAgain, DrainCalls, Draining, WInv, MethodInv, WriterTypeOK, Methods,
         Operation, PumpInv, TypeOK
<1>2. CASE FinishAgain
  <2>1. /\ op' = "idle" /\ outcome' = Result("Done") /\ op = "finish" /\ phase = "Finished"
        /\ failed = NoKind /\ UNCHANGED <<phase, failed, codec, endVars>>
    BY <1>2 DEF FinishAgain, Return, Draining, DrainCalls
  <2>2. PumpInv'
    BY <1>1, <1>2, QuietReturnInv DEF QuietReturn, WInv
  <2>3. WriterTypeOK' /\ MethodInv'
    BY <1>1, <2>1 DEF WInv, WriterTypeOK, MethodInv, writeVars
  <2>4. CountsInv'
    BY <1>1, <2>1 DEF WInv, CountsInv, writeVars, endVars
  <2>5. OutcomeInv'
    BY <1>1, <2>1 DEF OutcomeInv, Result, writeVars
  <2> QED BY <2>2, <2>3, <2>4, <2>5 DEF WInv
<1>3. CASE ~FinishAgain
  <2>1. PICK w \in Nat, k \in Nat :
           /\ PumpInv' /\ codec' # "ended" /\ k <= w /\ taken' = taken
           /\ emitted' = emitted + w /\ stored' = stored + k
           /\ w > 0 => emitted' <= MaxOut
           /\ failed = NoKind
           /\ \/ op = "flush" /\ phase = "Open" /\ phase' = "Open"
              \/ op = "finish" /\ phase = "Finishing" /\ phase' \in {"Finishing", "Finished"}
           /\ \/ k = w /\ failed' = NoKind /\ UNCHANGED <<op, outcome>> /\ phase' = phase
              \/ k = w /\ failed' = NoKind /\ op' = "idle" /\ phase' = phase
                 /\ outcome' \in {FullSink, NoProgress}
              \/ k = w /\ failed' # NoKind /\ op' = "idle" /\ outcome'.tag = "Codec" /\ phase' = phase
              \/ k = w /\ failed' = NoKind /\ op' = "idle" /\ outcome'.tag = "Done"
                 /\ (op = "finish" => phase' = "Finished")
              \/ op' = "idle" /\ outcome'.tag = "Sink"
    BY <1>3, DrainMovesCases
  <2>2. WriterTypeOK'
    BY <1>1 DEF WInv, WriterTypeOK, writeVars
  <2>3. MethodInv'
    BY <1>1, <2>1 DEF WInv, MethodInv, writeVars
  <2>4. CountsInv'
    <3>1. emitted' <= MaxOut
      BY <2>1, PumpAssumption DEF WInv, CountsInv, PumpInv, TypeOK
    <3>2. ~faulty => stored = emitted
      BY <1>1 DEF WInv, CountsInv
    <3>3. ~faulty /\ stored' # emitted' => op' = "idle" /\ outcome'.tag = "Sink"
      BY <2>1, <3>2 DEF WInv, PumpInv, TypeOK
    <3> QED BY <1>1, <2>1, <3>1, <3>3 DEF WInv, CountsInv, writeVars
  <2>5. OutcomeInv'
    BY <1>1, <2>1 DEF OutcomeInv, writeVars, FullSink, NoProgress, Result
  <2> QED BY <2>1, <2>2, <2>3, <2>4, <2>5 DEF WInv
<1> QED BY <1>2, <1>3

-----------------------------------------------------------------------------
(* A method returns.                                                       *)

\* What it makes of the pump's result: Ok, an error after which nothing is
\* lost, or a fault.
SaysOk ==
  /\ result' = Ok(used) /\ accepted' = accepted + used /\ faulty' = faulty
  /\ closed' = (method = "finish") /\ outcome.tag # "Sink"
  /\ \/ /\ method = "write" /\ (buf > 0 => used > 0)
        /\ (failed = NoKind /\ phase = "Open") \/ used > 0
     \/ method = "flush" /\ failed = NoKind /\ phase = "Open"
     \/ method = "finish" /\ failed = NoKind /\ phase = "Finished"

SaysHarmless ==
  /\ result'.n = 0 /\ accepted' = accepted /\ faulty' = faulty /\ closed' = FALSE
  /\ used = 0 /\ outcome.tag # "Sink"
  /\ \/ result'.tag = "Codec" /\ (failed # NoKind \/ (phase # "Open" /\ method # "finish"))
     \/ /\ result'.tag = "SinkExhausted" /\ failed = NoKind
        /\ phase = IF method = "finish" THEN "Finishing" ELSE "Open"
     \/ /\ result'.tag = "Inner" /\ method = "flush" /\ failed = NoKind /\ phase = "Open"

SaysFault ==
  /\ result'.tag \in {"Sink", "NoProgress"} /\ result'.n = 0
  /\ accepted' = accepted /\ faulty' = TRUE /\ closed' = FALSE

\* An error of the pump as a method returns it.
LEMMA ErrResult ==
  ASSUME WInv, NEW r, NEW raw \in SinkKinds,
         r.tag \in {"Codec", "Sink", "NoProgress", "SinkExhausted"},
         Returns(Err(r, raw), 0)
  PROVE  /\ result'.tag = r.tag /\ result'.n = 0 /\ result'.io # "Interrupted"
         /\ accepted' = accepted /\ closed' = FALSE
         /\ faulty' = (faulty \/ r.tag \in {"Sink", "NoProgress"})
<1>1. IoKindOf(backend, r, raw) \in {raw, CodecIoKind(backend, r.kind), "WriteZero", "Other"}
  BY DEF IoKindOf
<1>2. CodecIoKind(backend, r.kind) # "Interrupted" /\ raw # "Interrupted"
  BY DEF CodecIoKind, SinkKinds, IsInterrupted, RawKinds
<1>3. result' = Err(r, raw) /\ accepted' = accepted + 0
  BY DEF Returns
<1>4. Err(r, raw).tag = r.tag /\ Err(r, raw).n = 0 /\ Err(r, raw).io # "Interrupted"
  BY <1>1, <1>2 DEF Err
<1>5. closed' = FALSE /\ faulty' = (faulty \/ r.tag \in {"Sink", "NoProgress"})
  BY <1>4 DEF Returns
<1>6. accepted' = accepted
  BY <1>3 DEF WInv, WriterTypeOK
<1> QED BY <1>3, <1>4, <1>5, <1>6

\* Every way to return is one of the three.
LEMMA ReturnCases ==
  ASSUME WInv, WriteFails \/ WriteTakes \/ DrainReturns \/ InnerFlushFails
  PROVE  /\ method # "none" /\ op = "idle" /\ method' = "none" /\ buf' = 0 /\ used' = 0
         /\ UNCHANGED pumpVars /\ backend' = backend
         /\ SaysOk \/ SaysHarmless \/ SaysFault
         /\ method # "flush" => result'.io # "Interrupted"
<1>1. /\ method # "none" /\ op = "idle" /\ method' = "none" /\ buf' = 0 /\ used' = 0
      /\ UNCHANGED pumpVars /\ backend' = backend
  BY DEF WriteFails, WriteTakes, DrainReturns, InnerFlushFails, ReturnsErr, Returns, Returned
<1>2. /\ outcome.tag \in {"SinkExhausted", "Codec", "Sink", "NoProgress"}
           \cup IF method = "write" THEN {"SourceExhausted"} ELSE {"Done"}
      /\ failed # NoKind => outcome.tag \in {"Codec", "Sink"}
      /\ outcome.tag = "SinkExhausted" => outcome = FullSink
      /\ outcome.tag = "Codec" => failed # NoKind \/ (phase # "Open" /\ method # "finish" /\ used = 0)
      /\ outcome.tag = "SourceExhausted" => used = buf
      /\ outcome.tag \in {"SourceExhausted", "SinkExhausted", "Done"} /\ method # "finish" =>
           phase = "Open"
      /\ outcome.tag = "Done" /\ method = "finish" => phase = "Finished"
      /\ outcome.tag = "SinkExhausted" /\ method = "finish" => phase = "Finishing"
  BY <1>1 DEF WInv, OutcomeInv
<1>3. /\ used \in Nat /\ buf \in Nat /\ used <= buf /\ accepted \in Nat
      /\ method # "write" => used = 0
      /\ method \in {"write", "flush", "finish"} /\ faulty \in BOOLEAN
  BY <1>1 DEF WInv, WriterTypeOK, CountsInv, Methods
<1>4. ASSUME NEW raw \in SinkKinds, Returns(Err(outcome, raw), 0),
             outcome.tag \in {"Codec", "Sink", "NoProgress", "SinkExhausted"},
             outcome.tag \in {"Codec", "SinkExhausted"} => used = 0
      PROVE  (SaysHarmless \/ SaysFault) /\ result'.io # "Interrupted"
  <2>1. /\ result'.tag = outcome.tag /\ result'.n = 0 /\ result'.io # "Interrupted"
        /\ accepted' = accepted /\ closed' = FALSE
        /\ faulty' = (faulty \/ outcome.tag \in {"Sink", "NoProgress"})
    BY <1>4, ErrResult
  <2>2. CASE outcome.tag \in {"Sink", "NoProgress"}
    BY <2>1, <2>2 DEF SaysFault
  <2>3. CASE outcome.tag = "Codec"
    <3>1. faulty' = faulty
      BY <1>3, <2>1, <2>3
    <3> QED BY <1>2, <1>4, <2>1, <2>3, <3>1 DEF SaysHarmless
  <2>4. CASE outcome.tag = "SinkExhausted"
    <3>1. faulty' = faulty
      BY <1>3, <2>1, <2>4
    <3>2. phase = IF method = "finish" THEN "Finishing" ELSE "Open"
      BY <1>2, <2>4
    <3>3. failed = NoKind
      BY <1>2, <2>4
    <3> QED BY <1>4, <2>1, <2>4, <3>1, <3>2, <3>3 DEF SaysHarmless
  <2> QED BY <1>4, <2>1, <2>2, <2>3, <2>4
<1>5. ASSUME NEW n \in Nat, Returns(Ok(n), n)
      PROVE  /\ result' = Ok(n) /\ accepted' = accepted + n /\ faulty' = faulty
             /\ closed' = (method = "finish") /\ result'.io # "Interrupted"
  <2>1. Ok(n).tag = "Ok" /\ Ok(n).io # "Interrupted"
    BY DEF Ok, NoIoKind
  <2>2. result' = Ok(n) /\ accepted' = accepted + n
    BY <1>5 DEF Returns
  <2>3. closed' = (method = "finish") /\ faulty' = (faulty \/ FALSE)
    BY <1>5, <2>1 DEF Returns
  <2> QED BY <1>3, <2>1, <2>2, <2>3
<1>6. CASE WriteFails
  <2>1. /\ method = "write"
        /\ (outcome = FullSink /\ used = 0)
             \/ (outcome.tag \in {"Codec", "Sink", "NoProgress"} /\ ~(outcome.tag = "Codec" /\ used > 0))
    BY <1>6 DEF WriteFails, SinkIsFull, CodecErrorWaits
  <2>2. PICK raw \in SinkKinds : Returns(Err(outcome, raw), 0)
    BY <1>6 DEF WriteFails, ReturnsErr
  <2>3. /\ outcome.tag \in {"Codec", "Sink", "NoProgress", "SinkExhausted"}
        /\ outcome.tag \in {"Codec", "SinkExhausted"} => used = 0
    BY <1>3, <2>1 DEF FullSink, Result
  <2> QED BY <1>1, <1>4, <2>2, <2>3
<1>7. CASE WriteTakes
  <2>1. /\ method = "write" /\ Returns(Ok(used), used)
        /\ \/ outcome.tag \in {"SourceExhausted", "SinkExhausted"} /\ ~(outcome = FullSink /\ used = 0)
           \/ outcome.tag = "Codec" /\ used > 0
    BY <1>7 DEF WriteTakes, SinkIsFull, CodecErrorWaits
  <2>2. outcome.tag = "SinkExhausted" => used > 0
    BY <1>2, <1>3, <2>1
  <2>3. /\ result' = Ok(used) /\ accepted' = accepted + used /\ faulty' = faulty
        /\ closed' = (method = "finish") /\ result'.io # "Interrupted"
    BY <1>3, <1>5, <2>1
  <2>4. SaysOk
    BY <1>2, <1>3, <2>1, <2>2, <2>3 DEF SaysOk
  <2> QED BY <1>1, <2>3, <2>4
<1>8. CASE DrainReturns
  <2>1. method # "write"
    BY <1>8 DEF DrainReturns
  <2>2. CASE outcome.tag # "Done" /\ ReturnsErr(outcome, SinkKinds)
    <3>1. PICK raw \in SinkKinds : Returns(Err(outcome, raw), 0)
      BY <2>2 DEF ReturnsErr
    <3>2. /\ outcome.tag \in {"Codec", "Sink", "NoProgress", "SinkExhausted"}
          /\ used = 0
      BY <1>2, <1>3, <2>1, <2>2
    <3> QED BY <1>1, <1>4, <3>1, <3>2
  <2>3. CASE outcome.tag = "Done" /\ Returns(Ok(0), 0)
    <3>1. /\ result' = Ok(0) /\ accepted' = accepted + 0 /\ faulty' = faulty
          /\ closed' = (method = "finish") /\ result'.io # "Interrupted"
      BY <1>5, <2>3
    <3>2. used = 0 /\ failed = NoKind
      BY <1>2, <1>3, <2>1, <2>3
    <3>3. SaysOk
      BY <1>2, <1>3, <2>1, <2>3, <3>1, <3>2 DEF SaysOk
    <3> QED BY <1>1, <3>1, <3>3
  <2> QED BY <1>8, <2>2, <2>3 DEF DrainReturns, DrainSucceeded
<1>9. CASE InnerFlushFails
  <2>1. method = "flush" /\ outcome.tag = "Done"
    BY <1>9 DEF InnerFlushFails, DrainSucceeded
  <2>2. PICK raw \in RawKinds : Returns(Err(InnerError, raw), 0)
    BY <1>9 DEF InnerFlushFails, ReturnsErr
  <2>3. Err(InnerError, raw).tag = "Inner" /\ Err(InnerError, raw).n = 0
    BY DEF Err, InnerError, Result
  <2>4. /\ result'.tag = "Inner" /\ result'.n = 0 /\ accepted' = accepted + 0
        /\ closed' = FALSE /\ faulty' = (faulty \/ FALSE)
    BY <2>2, <2>3 DEF Returns
  <2>5. used = 0 /\ failed = NoKind /\ phase = "Open" /\ faulty' = faulty /\ accepted' = accepted
    BY <1>2, <1>3, <2>1, <2>4
  <2>6. SaysHarmless
    BY <2>1, <2>4, <2>5 DEF SaysHarmless
  <2> QED BY <1>1, <2>1, <2>6
<1> QED BY <1>6, <1>7, <1>8, <1>9

\* Returning keeps the invariant.
LEMMA ReturnInv ==
  WInv /\ (WriteFails \/ WriteTakes \/ DrainReturns \/ InnerFlushFails) => WInv'
<1> SUFFICES ASSUME WInv, WriteFails \/ WriteTakes \/ DrainReturns \/ InnerFlushFails
             PROVE  WInv'
  OBVIOUS
<1>1. /\ method # "none" /\ op = "idle" /\ method' = "none" /\ buf' = 0 /\ used' = 0
      /\ UNCHANGED pumpVars /\ backend' = backend
      /\ SaysOk \/ SaysHarmless \/ SaysFault
  BY ReturnCases
<1>2. used \in Nat /\ accepted \in Nat /\ faulty \in BOOLEAN
  BY DEF WInv, WriterTypeOK
<1>3. /\ accepted' \in Nat /\ closed' \in BOOLEAN /\ faulty' \in BOOLEAN
      /\ closed' => phase = "Finished"
      /\ ~faulty' => ~faulty /\ accepted' = accepted + used /\ outcome.tag # "Sink"
  <2>1. CASE SaysOk
    <3>1. /\ accepted' = accepted + used /\ faulty' = faulty /\ outcome.tag # "Sink"
          /\ closed' = (method = "finish") /\ (method = "finish" => phase = "Finished")
      BY <2>1 DEF SaysOk
    <3>2. closed' \in {TRUE, FALSE}
      BY <3>1, Zenon
    <3>3. closed' => phase = "Finished"
      BY <3>1
    <3>4. accepted' \in Nat /\ faulty' \in BOOLEAN
      BY <1>2, <3>1
    <3> QED BY <3>1, <3>2, <3>3, <3>4
  <2>2. CASE SaysHarmless
    <3>1. /\ accepted' = accepted /\ faulty' = faulty /\ closed' = FALSE
          /\ used = 0 /\ outcome.tag # "Sink"
      BY <2>2 DEF SaysHarmless
    <3>2. accepted = accepted + used
      BY <1>2, <3>1
    <3> QED BY <1>2, <3>1, <3>2
  <2>3. CASE SaysFault
    BY <1>2, <2>3 DEF SaysFault
  <2> QED BY <1>1, <2>1, <2>2, <2>3
<1>4. PumpInv'
  BY <1>1, EndpointKeepsPumpInv DEF WInv, PumpInv, TypeOK, pumpVars, endVars
<1>5. WriterTypeOK'
  BY <1>1, <1>3 DEF WInv, WriterTypeOK
<1>6. MethodInv'
  BY <1>1, <1>3 DEF WInv, MethodInv, pumpVars
<1>7. CountsInv'
  <2>1. ~faulty' => accepted + used = taken /\ stored = emitted
    BY <1>3 DEF WInv, CountsInv
  <2>2. ~faulty' => accepted' + used' = taken'
    BY <1>1, <1>2, <1>3, <2>1 DEF pumpVars
  <2> QED BY <1>1, <2>1, <2>2 DEF WInv, CountsInv, pumpVars
<1>8. OutcomeInv'
  BY <1>1 DEF OutcomeInv
<1> QED BY <1>4, <1>5, <1>6, <1>7, <1>8 DEF WInv

\* WInv is inductive.
LEMMA WriterStepInv == WInv /\ [WriterNext \/ Closed]_vars => WInv'
<1> SUFFICES ASSUME WInv, [WriterNext \/ Closed]_vars PROVE WInv'
  OBVIOUS
<1>1. CASE UNCHANGED vars
  <2>1. UNCHANGED pumpVars /\ UNCHANGED writeVars
    BY <1>1 DEF vars
  <2>2. PumpInv'
    BY <2>1, EndpointKeepsPumpInv DEF WInv, PumpInv, TypeOK, pumpVars, endVars
  <2>3. WriterTypeOK' /\ MethodInv'
    BY <2>1 DEF WInv, WriterTypeOK, MethodInv, writeVars, pumpVars
  <2>4. CountsInv' /\ OutcomeInv'
    BY <2>1 DEF WInv, CountsInv, OutcomeInv, writeVars, pumpVars
  <2> QED BY <2>2, <2>3, <2>4 DEF WInv
<1> QED BY <1>1, BeginInv, TransferBufInv, SpaceFailsInv, DrainPassInv, RefusedCallInv, ReturnInv
        DEF WriterNext, Work, Closed

\* WriterSpec implies it.
LEMMA WriterSpecInv == WriterSpec => []WInv
<1> QED BY WriterInitInv, WriterStepInv, PTL DEF WriterSpec

-----------------------------------------------------------------------------
(* Results.                                                                *)

\* Until a fault of the sink or a stuck codec is reported, the counts that
\* write returned are what the codec took, and nothing it wrote is missing.
THEOREM WriterAccountsForBytes == WriterSpec => []BytesAccountedFor
<1>1. WInv => BytesAccountedFor
  <2> SUFFICES ASSUME WInv, method = "none", ~faulty PROVE accepted = taken /\ emitted = stored
    BY DEF BytesAccountedFor
  <2>1. buf = 0 /\ used = 0 /\ accepted + used = taken
    BY DEF WInv, CountsInv, WriterTypeOK
  <2> QED BY <2>1 DEF WInv, CountsInv, WriterTypeOK
<1> QED BY <1>1, WriterSpecInv, PTL

\* Once finish has succeeded the codec is done; and if no call before it reported
\* a sink error or NoProgress, the counts that write returned are what the codec
\* took, and the sink has all that the codec wrote.  Flushing the wrapped writer
\* is left to the caller, as the doc of finish says.
THEOREM WriterFinishIsComplete == WriterSpec => []FinishMeansComplete
<1>1. WInv => FinishMeansComplete
  <2> SUFFICES ASSUME WInv, closed
               PROVE  codec = "done" /\ (~faulty => accepted = taken /\ emitted = stored)
    BY DEF FinishMeansComplete
  <2>1. method = "none" /\ phase = "Finished"
    BY DEF WInv, MethodInv
  <2>2. buf = 0 /\ used = 0
    BY <2>1 DEF WInv, CountsInv, WriterTypeOK
  <2> QED BY <2>1, <2>2 DEF WInv, CountsInv, WriterTypeOK, PumpInv, PumpAgreesWithCodec
<1> QED BY <1>1, WriterSpecInv, PTL

-----------------------------------------------------------------------------
(* Every step is one that ByteWriter allows.  That a method returns, the   *)
(* promise's last conjunct, rests on fairness and stays with the runs.     *)

\* The state of the codec as the caller of the writer sees it.
State ==
  CASE failed # NoKind -> "broken"
    [] failed = NoKind /\ phase = "Open"      -> "open"
    [] failed = NoKind /\ phase = "Finishing" -> "finishing"
    [] failed = NoKind /\ phase = "Finished"  -> "over"

\* The latch comes before the phase.
LEMMA StateIs ==
  ASSUME WInv
  PROVE  /\ State = "broken" <=> failed # NoKind
         /\ State = "open" <=> failed = NoKind /\ phase = "Open"
         /\ State = "finishing" <=> failed = NoKind /\ phase = "Finishing"
         /\ State = "over" <=> failed = NoKind /\ phase = "Finished"
         /\ State \in {"broken", "open", "finishing", "over"}
<1>1. phase \in {"Open", "Finishing", "Finished"}
  BY DEF WInv, PumpInv, TypeOK, FinishPhase
<1> QED BY <1>1 DEF State

\* The same after a step.
LEMMA StateWillBe ==
  ASSUME WInv'
  PROVE  /\ State' = "broken" <=> failed' # NoKind
         /\ State' = "open" <=> failed' = NoKind /\ phase' = "Open"
         /\ State' = "finishing" <=> failed' = NoKind /\ phase' = "Finishing"
         /\ State' = "over" <=> failed' = NoKind /\ phase' = "Finished"
         /\ State' \in {"broken", "open", "finishing", "over"}
<1>1. phase' \in {"Open", "Finishing", "Finished"}
  BY DEF WInv, PumpInv, TypeOK, FinishPhase
<1> QED BY <1>1 DEF State

\* A method is called.
LEMMA BeginIsStart == ASSUME WInv, WInv', Begin PROVE Promise!Start(method', buf')
<1>1. PICK m \in Methods, b \in Nat :
         /\ method = "none" /\ ~closed /\ op = "idle"
         /\ (m # "write" => b = 0)
         /\ method' = m /\ buf' = b /\ used' = 0
         /\ Call(Operation(m)) /\ op' = Operation(m)
         /\ phase' = (IF m = "finish" /\ phase = "Open" THEN "Finishing" ELSE phase)
         /\ UNCHANGED <<backend, closed, result, accepted, faulty, failed, codec, endVars>>
  BY BeginCases
<1>2. State' = IF m = "finish" /\ State = "open" THEN "finishing" ELSE State
  BY <1>1, StateIs, StateWillBe
<1>3. /\ method = "none" /\ ~closed /\ used' = 0
      /\ UNCHANGED <<result, accepted, emitted, stored, faulty, closed>>
  BY <1>1 DEF endVars
<1>4. State' = IF method' = "finish" /\ State = "open" THEN "finishing" ELSE State
  BY <1>1, <1>2
<1> QED BY <1>3, <1>4 DEF Promise!Start, State

\* A codec call of any method: what the caller sees of it.
LEMMA MoveIsWork ==
  ASSUME WInv, WInv', method # "none", failed = NoKind,
         phase = IF method = "finish" THEN "Finishing" ELSE "Open",
         phase' = phase \/ (method = "finish" /\ phase' = "Finished"),
         NEW c \in Nat, NEW w \in Nat, NEW k \in Nat, k <= w,
         used' = used + c, c <= buf - used, emitted' = emitted + w, stored' = stored + k,
         w > 0 => emitted' <= MaxOut,
         UNCHANGED <<method, buf, result, accepted, faulty, closed>>
  PROVE  Promise!Work
<1>1. /\ used \in Nat /\ buf \in Nat /\ emitted \in Nat /\ stored \in Nat
      /\ used <= buf /\ emitted <= MaxOut /\ MaxOut \in Nat
  BY PumpAssumption DEF WInv, WriterTypeOK, CountsInv, PumpInv, TypeOK
<1>2. used' \in used..buf
  BY <1>1
<1>3. emitted' \in emitted..MaxOut /\ stored' \in stored..(stored + (emitted' - emitted))
  BY <1>1
<1>4. State = IF method = "finish" THEN "finishing" ELSE "open"
  BY StateIs
<1>5. State' \in {State, "broken"} \cup {s \in {"over"} : method = "finish"}
  BY <1>4, StateWillBe
<1> QED BY <1>2, <1>3, <1>4, <1>5 DEF Promise!Work, State

\* A pass of a write works, or sees the end of the buffer.
LEMMA TransferBufIsWork ==
  ASSUME WInv, WInv', TransferBuf, ~(used = buf /\ SourceEnds) PROVE Promise!Work
<1>1. /\ method = "write"
      /\ UNCHANGED <<method, buf, closed, result, accepted, faulty>>
  BY DEF TransferBuf, WInv, MethodInv, WriterTypeOK, Operation, Methods
<1>2. PICK c \in 0..(buf - used), w \in Nat, k \in Nat :
         /\ c \in Nat /\ k <= w /\ used' = used + c
         /\ emitted' = emitted + w /\ stored' = stored + k
         /\ w > 0 => emitted' <= MaxOut
         /\ phase = "Open" /\ phase' = "Open" /\ failed = NoKind
  BY TransferBufMoves
<1>3. c <= buf - used
  BY <1>2 DEF WInv, WriterTypeOK
<1> QED BY <1>1, <1>2, <1>3, MoveIsWork

\* A pass of a flush or a finish works.
LEMMA DrainPassIsWork == ASSUME WInv, WInv', DrainPass, ~FinishAgain PROVE Promise!Work
<1>1. UNCHANGED writeVars /\ op \in {"flush", "finish"} /\ method = op
  BY DEF DrainPass, FinishAgain, DrainCalls, Draining, WInv, MethodInv, WriterTypeOK, Methods,
         Operation, PumpInv, TypeOK
<1>2. PICK w \in Nat, k \in Nat :
         /\ k <= w /\ emitted' = emitted + w /\ stored' = stored + k
         /\ w > 0 => emitted' <= MaxOut
         /\ failed = NoKind
         /\ \/ op = "flush" /\ phase = "Open" /\ phase' = "Open"
            \/ op = "finish" /\ phase = "Finishing" /\ phase' \in {"Finishing", "Finished"}
  BY DrainMovesCases
<1>3. /\ used' = used + 0 /\ 0 <= buf - used
      /\ UNCHANGED <<method, buf, result, accepted, faulty, closed>>
  BY <1>1 DEF WInv, WriterTypeOK, CountsInv, writeVars
<1>4. /\ phase = IF method = "finish" THEN "Finishing" ELSE "Open"
      /\ phase' = phase \/ (method = "finish" /\ phase' = "Finished")
      /\ method # "none"
  BY <1>1, <1>2
<1> QED BY <1>2, <1>3, <1>4, MoveIsWork

\* A method returns what ByteWriter lets it return in that state.
LEMMA ReturnsAreReturn ==
  ASSUME WInv, WInv', WriteFails \/ WriteTakes \/ DrainReturns \/ InnerFlushFails
  PROVE  Promise!Return
<1>1. /\ method # "none" /\ op = "idle" /\ method' = "none" /\ buf' = 0 /\ used' = 0
      /\ UNCHANGED pumpVars
      /\ SaysOk \/ SaysHarmless \/ SaysFault
      /\ method # "flush" => result'.io # "Interrupted"
  BY ReturnCases
<1>2. /\ State' = State /\ emitted' = emitted /\ stored' = stored
      /\ method \in {"write", "flush", "finish"} /\ accepted \in Nat /\ used \in Nat
      /\ method # "write" => used = 0
      /\ outcome.tag # "Sink" => (faulty \/ emitted = stored)
  BY <1>1 DEF WInv, WriterTypeOK, CountsInv, Methods, State, pumpVars
<1>3. /\ State = "broken" <=> failed # NoKind
      /\ State = "open" <=> failed = NoKind /\ phase = "Open"
      /\ State = "finishing" <=> failed = NoKind /\ phase = "Finishing"
      /\ State = "over" <=> failed = NoKind /\ phase = "Finished"
  BY StateIs
<1>4. CASE SaysOk
  <2>1. result'.tag = "Ok" /\ result'.n = used /\ Promise!Arrived /\ faulty' = faulty
    BY <1>2, <1>4 DEF SaysOk, Ok, Promise!Arrived
  <2>2. /\ accepted' = accepted + result'.n
        /\ closed' = (method = "finish")
    BY <2>1, <1>4 DEF SaysOk
  <2>3. Promise!Ok(used) /\ (method # "write" => Promise!Ok(0))
    BY <1>2, <2>1 DEF Promise!Ok
  <2>4. CASE method = "write"
    <3>1. (State = "open" \/ used > 0) /\ (buf > 0 => used > 0) /\ closed' = FALSE
      BY <1>3, <1>4, <2>2, <2>4 DEF SaysOk
    <3>2. Promise!WriteReturns
      BY <2>3, <2>4, <3>1 DEF Promise!WriteReturns, State
    <3> QED BY <1>1, <1>2, <2>2, <3>2 DEF Promise!Return, State
  <2>5. CASE method = "flush"
    <3>1. State = "open" /\ closed' = FALSE
      BY <1>3, <1>4, <2>2, <2>5 DEF SaysOk
    <3>2. Promise!FlushReturns
      BY <2>3, <2>5, <3>1 DEF Promise!FlushReturns, State
    <3> QED BY <1>1, <1>2, <2>2, <3>2 DEF Promise!Return, State
  <2>6. CASE method = "finish"
    <3>1. State = "over" /\ closed' = TRUE
      BY <1>3, <1>4, <2>2, <2>6 DEF SaysOk
    <3>2. Promise!FinishReturns
      BY <2>3, <2>6, <3>1 DEF Promise!FinishReturns, State
    <3> QED BY <1>1, <1>2, <2>2, <3>2 DEF Promise!Return, State
  <2> QED BY <1>2, <2>4, <2>5, <2>6
<1>5. CASE SaysHarmless
  <2>1. /\ result'.n = 0 /\ accepted' = accepted + result'.n /\ faulty' = faulty
        /\ closed' = FALSE /\ used = 0 /\ Promise!Arrived
    BY <1>2, <1>5 DEF SaysHarmless, Promise!Arrived
  <2>2. CASE result'.tag = "Codec" /\ (failed # NoKind \/ (phase # "Open" /\ method # "finish"))
    <3>1. Promise!Harmless({"Codec"}) /\ State # "open" /\ (method = "finish" => State = "broken")
      BY <1>3, <2>1, <2>2 DEF Promise!Harmless
    <3>2. Promise!WriteReturns \/ Promise!FlushReturns \/ Promise!FinishReturns
      BY <1>2, <2>1, <3>1
         DEF Promise!WriteReturns, Promise!FlushReturns, Promise!FinishReturns, State
    <3> QED BY <1>1, <1>2, <2>1, <3>2 DEF Promise!Return, State
  <2>3. CASE /\ result'.tag = "SinkExhausted" /\ failed = NoKind
             /\ phase = IF method = "finish" THEN "Finishing" ELSE "Open"
    <3>1. /\ Promise!Harmless({"SinkExhausted"}) /\ Promise!Harmless({"SinkExhausted", "Inner"})
          /\ State = IF method = "finish" THEN "finishing" ELSE "open"
      BY <1>3, <2>1, <2>3 DEF Promise!Harmless
    <3>2. Promise!WriteReturns \/ Promise!FlushReturns \/ Promise!FinishReturns
      BY <1>2, <2>1, <3>1
         DEF Promise!WriteReturns, Promise!FlushReturns, Promise!FinishReturns, State
    <3> QED BY <1>1, <1>2, <2>1, <3>2 DEF Promise!Return, State
  <2>4. CASE result'.tag = "Inner" /\ method = "flush" /\ failed = NoKind /\ phase = "Open"
    <3>1. Promise!Harmless({"SinkExhausted", "Inner"}) /\ State = "open"
      BY <1>3, <2>1, <2>4 DEF Promise!Harmless
    <3>2. Promise!FlushReturns
      BY <2>1, <2>4, <3>1 DEF Promise!FlushReturns, State
    <3> QED BY <1>1, <1>2, <2>1, <3>2 DEF Promise!Return, State
  <2> QED BY <1>5, <2>2, <2>3, <2>4 DEF SaysHarmless
<1>6. CASE SaysFault
  <2>1. /\ Promise!Fault /\ closed' = FALSE /\ accepted' = accepted + result'.n
    BY <1>2, <1>6 DEF SaysFault, Promise!Fault
  <2>2. Promise!WriteReturns \/ Promise!FlushReturns \/ Promise!FinishReturns
    BY <1>2, <2>1 DEF Promise!WriteReturns, Promise!FlushReturns, Promise!FinishReturns
  <2> QED BY <1>1, <1>2, <2>1, <2>2 DEF Promise!Return, State
<1> QED BY <1>1, <1>4, <1>5, <1>6

\* A pass that moves nothing is not seen.
LEMMA QuietIsHidden ==
  ASSUME WInv,
         (used = buf /\ SourceEnds /\ TransferBuf) \/ SpaceFails \/ (DrainPass /\ FinishAgain)
           \/ RefusedCall \/ Closed \/ UNCHANGED vars
  PROVE  UNCHANGED Promise!vars
<1>1. UNCHANGED <<phase, failed, emitted, stored, method, buf, result, accepted, faulty, closed>>
  BY DEF SourceEnds, TransferBuf, SpaceFails, SpareFails, DrainPass, FinishAgain, RefusedCall,
         Refused, Closed, vars, pumpVars, writeVars, endVars
<1>2. used' = used
  <2>1. CASE used = buf /\ SourceEnds /\ TransferBuf
    <3>1. taken' = taken /\ used' = used + (taken' - taken)
      BY <2>1 DEF SourceEnds, TransferBuf, endVars
    <3> QED BY <3>1 DEF WInv, WriterTypeOK, PumpInv, TypeOK
  <2> QED BY <2>1 DEF SpaceFails, DrainPass, FinishAgain, RefusedCall, Closed, vars, writeVars
<1>3. State' = State
  BY <1>1 DEF State
<1> QED BY <1>1, <1>2, <1>3 DEF Promise!vars, State

\* The writers start as ByteWriter says, and every step of theirs is one of
\* its steps, or nothing the caller sees.
THEOREM WriterMovesAsPromised == WriterSpec => Promise!Init /\ [][Promise!Next]_(Promise!vars)
<1>1. Init => Promise!Init
  <2> SUFFICES ASSUME Init PROVE Promise!Init
    OBVIOUS
  <2>1. result.tag = "Ok" /\ result.n = 0
    BY DEF Init, Ok
  <2>2. State = "open"
    BY DEF Init, PumpInit, State
  <2> QED BY <2>1, <2>2 DEF Init, PumpInit, Promise!Init, State
<1>2. ASSUME WInv, WInv', [WriterNext \/ Closed]_vars PROVE [Promise!Next]_(Promise!vars)
  <2>1. CASE TransferBuf
    BY <1>2, <2>1, TransferBufIsWork, QuietIsHidden DEF Promise!Next
  <2>2. CASE DrainPass
    BY <1>2, <2>2, DrainPassIsWork, QuietIsHidden DEF Promise!Next
  <2> QED BY <1>2, <2>1, <2>2, BeginIsStart, ReturnsAreReturn, QuietIsHidden
          DEF WriterNext, Work, Promise!Next
<1>3. WInv /\ WInv' /\ [WriterNext \/ Closed]_vars => [Promise!Next]_(Promise!vars)
  BY <1>2
<1> QED BY <1>1, <1>3, WriterSpecInv, PTL DEF WriterSpec

\* Under the writer the pump makes no call that the codec traits leave undefined,
\* and its totals stay exact: what Pump promises holds on these endpoints too.
THEOREM WriterKeepsCodecContract == WriterSpec => [](CodecContractKept /\ TotalsExact)
<1>1. WInv => CodecContractKept /\ TotalsExact
  BY DEF WInv, PumpInv
<1> QED BY <1>1, WriterSpecInv, PTL

=============================================================================
