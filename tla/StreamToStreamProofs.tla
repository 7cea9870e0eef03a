------------------------ MODULE StreamToStreamProofs ------------------------
(***************************************************************************)
(* The safety of stream_to_stream for every source, every sink and every   *)
(* honest codec: an Ok is complete, a full sink is reported only when      *)
(* something had no place, and encode_str never panics.                    *)
(***************************************************************************)
EXTENDS StreamToStream, PumpProofs

-----------------------------------------------------------------------------
(* The inductive invariant.                                                *)

Callers == {"bounded", "encode_str"}

Parts == {"start", "transfer", "finish", "returned"}

StreamTypeOK ==
  /\ caller \in Callers /\ part \in Parts
  /\ held \in Nat /\ ended \in BOOLEAN

\* The endpoints are honest: nobody gives or stores more than there is.
RoomInv == taken <= SourceLen /\ (caller = "bounded" => stored <= SinkCap)

\* Where the pump is in each part.  No operation starts on a failed codec.
PartInv ==
  /\ part \in {"start", "returned"} => op = "idle"
  /\ part \in {"start", "transfer"} => phase = "Open" /\ (ended <=> codec = "ended")
  /\ part = "start" => ~ended
  /\ part = "transfer" => op \in {"transfer", "idle"}
  /\ part = "finish" => op \in {"finish", "idle"} /\ (InputLeft = 0 \/ ended)
  /\ op # "idle" \/ part = "start" => failed = NoKind /\ outcome = Pending

\* A byte is missing only after the sink failed, which is the last result.
MissingInv == stored # emitted => op = "idle" /\ outcome.tag = "Sink"

TransferResults ==
  {"SourceExhausted", "InputEnded", "SinkExhausted", "Codec", "Source", "Sink", "NoProgress"}

FinishResults == {"Done", "SinkExhausted", "Codec", "Sink", "NoProgress"}

\* What a result of the pump says of the two ends and of the codec.
SaysInv ==
  op = "idle" /\ part \in {"transfer", "finish"} =>
    /\ outcome.tag \in IF part = "transfer" THEN TransferResults ELSE FinishResults
    /\ outcome.tag = "SourceExhausted" => InputLeft = 0
    /\ outcome.tag = "InputEnded"      => ended
    /\ outcome.tag = "Done"            => codec = "done" /\ held = 0
    /\ outcome.tag \in {"Source", "Sink", "SinkExhausted"} => caller = "bounded"
    /\ outcome.tag = "SinkExhausted"   => SinkRoom = 0 /\ (InputLeft > 0 \/ held > 0)
    /\ outcome.tag \notin {"SourceExhausted", "InputEnded"} \/ failed = NoKind

ResultInv ==
  /\ part # "returned" => result = Pending
  /\ OkMeansComplete /\ ExactFitSucceeds /\ NeverUnreachable

SInv == PumpInv /\ StreamTypeOK /\ RoomInv /\ PartInv /\ MissingInv /\ SaysInv /\ ResultInv

-----------------------------------------------------------------------------
(* The first state, and the steps of stream_to_stream itself.              *)

\* The first state.
LEMMA StreamInitInv == Init => SInv
<1> SUFFICES ASSUME Init PROVE SInv
  OBVIOUS
<1>1. PumpInv
  BY InitPumpInv DEF Init
<1>2. StreamTypeOK /\ MissingInv /\ SaysInv
  BY DEF Init, PumpInit, StreamTypeOK, Callers, Parts, MissingInv, SaysInv
<1>3. RoomInv
  BY PumpAssumption DEF Init, PumpInit, RoomInv
<1>4. PartInv
  BY DEF Init, PumpInit, PartInv
<1>5. ResultInv
  BY DEF Init, ResultInv, OkMeansComplete, ExactFitSucceeds, NeverUnreachable, Pending, Result
<1> QED BY <1>1, <1>2, <1>3, <1>4, <1>5 DEF SInv

\* As long as nothing was returned, the promises about the result are kept.
LEMMA NoResultYet == ASSUME result' = Pending PROVE ResultInv'
BY DEF ResultInv, OkMeansComplete, ExactFitSucceeds, NeverUnreachable, Pending, Result

\* The transfer starts.
LEMMA StartInv == SInv /\ Start => SInv'
<1> SUFFICES ASSUME SInv, Start PROVE SInv'
  OBVIOUS
<1>1. /\ part = "start" /\ part' = "transfer" /\ Call("transfer")
      /\ UNCHANGED <<caller, result, held, ended>>
  BY DEF Start
<1>2. /\ op' = "transfer" /\ outcome' = Pending /\ phase' = phase
      /\ UNCHANGED <<failed, codec, taken, emitted, stored>>
  BY <1>1 DEF Call, endVars
<1>3. codec # "ended" /\ phase = "Open" /\ failed = NoKind /\ stored = emitted /\ ~ended
  BY <1>1 DEF SInv, PartInv, MissingInv, StreamTypeOK, Pending, Result
<1>4. PumpInv'
  <2>1. "transfer" \in Operations
    BY DEF Operations
  <2> QED BY <1>1, <1>3, <2>1, CallKeepsPumpInv DEF SInv
<1>5. StreamTypeOK' /\ RoomInv' /\ MissingInv' /\ SaysInv'
  BY <1>1, <1>2, <1>3 DEF SInv, StreamTypeOK, Parts, RoomInv, MissingInv, SaysInv
<1>6. PartInv'
  BY <1>1, <1>2, <1>3 DEF PartInv
<1>7. ResultInv'
  BY <1>1, NoResultYet DEF SInv, ResultInv
<1> QED BY <1>4, <1>5, <1>6, <1>7 DEF SInv

\* The end of the input leads to finish.
LEMMA StartFinishingInv == SInv /\ StartFinishing => SInv'
<1> SUFFICES ASSUME SInv, StartFinishing PROVE SInv'
  OBVIOUS
<1>1. /\ part = "transfer" /\ op = "idle" /\ part' = "finish" /\ Call("finish")
      /\ outcome.tag \in {"SourceExhausted", "InputEnded"}
      /\ UNCHANGED <<caller, result, held, ended>>
  BY DEF StartFinishing, InputEnds
<1>2. /\ op' = "finish" /\ outcome' = Pending
      /\ UNCHANGED <<failed, codec, taken, emitted, stored>>
  BY <1>1 DEF Call, endVars
<1>3. failed = NoKind /\ stored = emitted /\ (InputLeft = 0 \/ ended)
  BY <1>1 DEF SInv, SaysInv, MissingInv
<1>4. PumpInv'
  <2>1. "finish" \in Operations
    BY DEF Operations
  <2> QED BY <1>1, <2>1, CallKeepsPumpInv DEF SInv
<1>5. StreamTypeOK' /\ RoomInv' /\ MissingInv' /\ SaysInv'
  BY <1>1, <1>2, <1>3 DEF SInv, StreamTypeOK, Parts, RoomInv, MissingInv, SaysInv
<1>6. PartInv'
  BY <1>1, <1>2, <1>3 DEF PartInv, InputLeft
<1>7. ResultInv'
  BY <1>1, NoResultYet DEF SInv, ResultInv
<1> QED BY <1>4, <1>5, <1>6, <1>7 DEF SInv

\* The result of the pump becomes that of the function.
LEMMA ReturnResultInv == SInv /\ ReturnResult => SInv'
<1> SUFFICES ASSUME SInv, ReturnResult PROVE SInv'
  OBVIOUS
<1>1. /\ op = "idle" /\ part' = "returned" /\ UNCHANGED <<pumpVars, caller, held, ended>>
      /\ \/ part = "finish"
         \/ part = "transfer" /\ outcome.tag \notin {"SourceExhausted", "InputEnded"}
      /\ result' = IF outcome.tag = "Done" THEN Result("Ok")
                   ELSE IF caller = "encode_str" THEN EncodeError(outcome) ELSE outcome
  BY DEF ReturnResult, InputEnds
<1>2. UNCHANGED <<phase, failed, codec, taken, emitted, stored, op, outcome, tick, total>>
  BY <1>1 DEF pumpVars
<1>3. /\ outcome.tag \in {"Done", "SinkExhausted", "Codec", "Source", "Sink", "NoProgress"}
      /\ outcome.tag = "Done" => part = "finish" /\ codec = "done" /\ held = 0
      /\ outcome.tag \in {"Source", "Sink", "SinkExhausted"} => caller = "bounded"
      /\ outcome.tag = "SinkExhausted" => SinkRoom = 0 /\ (InputLeft > 0 \/ held > 0)
  BY <1>1 DEF SInv, SaysInv, TransferResults, FinishResults
<1>4. PumpInv'
  BY <1>2, EndpointKeepsPumpInv DEF SInv, PumpInv, TypeOK, endVars
<1>5. StreamTypeOK' /\ RoomInv' /\ MissingInv' /\ SaysInv'
  BY <1>1, <1>2 DEF SInv, StreamTypeOK, Parts, RoomInv, MissingInv, SaysInv
<1>6. PartInv'
  BY <1>1, <1>2 DEF SInv, PartInv
<1>7. ResultInv'
  <2>1. CASE outcome.tag = "Done"
    <3>1. result'.tag = "Ok"
      BY <1>1, <2>1 DEF Result
    <3>2. codec = "done" /\ held = 0 /\ stored = emitted /\ (InputLeft = 0 \/ ended)
      BY <1>1, <1>3, <2>1 DEF SInv, MissingInv, PartInv
    <3> QED BY <1>1, <1>2, <3>1, <3>2
            DEF ResultInv, OkMeansComplete, ExactFitSucceeds, NeverUnreachable, InputLeft
  <2>2. CASE outcome.tag # "Done"
    <3>1. result' = outcome
      BY <1>1, <1>3, <2>2 DEF EncodeError, SInv, StreamTypeOK, Callers
    <3> QED BY <1>1, <1>2, <1>3, <3>1
            DEF ResultInv, OkMeansComplete, ExactFitSucceeds, NeverUnreachable, InputLeft, SinkRoom
  <2> QED BY <2>1, <2>2
<1> QED BY <1>4, <1>5, <1>6, <1>7 DEF SInv

-----------------------------------------------------------------------------
(* A pass of the transfer and of the finish.                               *)

\* The space of an honest sink.  It is full only without room for a byte.
LEMMA HonestSpace ==
  ASSUME SInv, NEW s \in HonestSpaces
  PROVE  /\ s.len \in Nat /\ SinkRoom \in Int
         /\ caller = "bounded" => s.len <= SinkRoom
         /\ s.full \/ s.len = 0 => caller = "bounded" /\ SinkRoom = 0
         /\ s.full <=> s.len = 0
<1>1. stored \in Nat /\ SinkCap \in Nat /\ (caller = "bounded" => stored <= SinkCap)
      /\ caller \in {"bounded", "encode_str"} /\ MaxSpare \in Nat
  BY PumpAssumption DEF SInv, PumpInv, TypeOK, RoomInv, StreamTypeOK, Callers
<1>2. SinkRoom \in Int
  BY <1>1 DEF SinkRoom
<1>3. CASE SinkRoom = 0 /\ ~Grows
  <2>1. s = Full /\ caller = "bounded"
    BY <1>1, <1>3 DEF HonestSpaces, Grows
  <2> QED BY <1>2, <1>3, <2>1 DEF Full
<1>4. CASE ~(SinkRoom = 0 /\ ~Grows)
  <2>1. PICK n \in 1..MaxSpare : s = Space(n) /\ (Grows \/ n <= SinkRoom)
    BY <1>4 DEF HonestSpaces
  <2>2. s.len = n /\ s.full = FALSE
    BY <2>1 DEF Space
  <2> QED BY <1>1, <1>2, <2>1, <2>2 DEF Grows
<1> QED BY <1>3, <1>4

\* What holds once a byte or more moved, or the codec failed.
LEMMA MoveKeepsRest ==
  ASSUME SInv, StreamTypeOK', PumpInv', caller' = caller, result' = result, part' = part,
         part \in {"transfer", "finish"}, op # "idle",
         NEW c \in Nat, NEW w \in Nat, NEW ok \in BOOLEAN, c <= InputLeft,
         caller = "bounded" => w <= SinkRoom,
         taken' = taken + c, emitted' = emitted + w, stored' = stored + Counted(w, ok),
         ok \/ w = 0 \/ (op' = "idle" /\ outcome'.tag = "Sink")
  PROVE  RoomInv' /\ MissingInv' /\ ResultInv'
<1>1. /\ taken \in Nat /\ stored \in Nat /\ emitted \in Nat
      /\ SourceLen \in Nat /\ SinkCap \in Nat /\ stored = emitted
  BY PumpAssumption DEF SInv, PumpInv, TypeOK, MissingInv
<1>2. PICK k \in Nat : k = Counted(w, ok) /\ k <= w /\ (ok \/ w = 0 => k = w)
  BY DEF Counted
<1>3. RoomInv'
  BY <1>1, <1>2 DEF SInv, RoomInv, InputLeft, SinkRoom
<1>4. MissingInv'
  BY <1>1, <1>2 DEF MissingInv
<1>5. ResultInv'
  BY NoResultYet DEF SInv, ResultInv
<1> QED BY <1>3, <1>4, <1>5

\* A pass of the transfer that ends without a codec call.
LEMMA QuietTransferInv ==
  ASSUME SInv, Transfer,
         \/ Fallible /\ ChunkFails /\ UNCHANGED held
         \/ InputLeft = 0 /\ SourceEnds /\ UNCHANGED held
         \/ InputLeft > 0 /\ Fallible /\ SpareFails /\ UNCHANGED held
  PROVE  SInv'
<1>1. /\ part = "transfer" /\ part' = part /\ tick' \in BOOLEAN
      /\ UNCHANGED <<caller, result, held>> /\ ended' = (codec' = "ended")
  BY DEF Transfer, SInv, PumpInv, TypeOK
<1>2. /\ op' = "idle" /\ UNCHANGED <<phase, failed, codec, endVars>> /\ op # "idle"
      /\ \/ outcome' = SourceError /\ caller = "bounded"
         \/ outcome' = Result("SourceExhausted") /\ InputLeft = 0
         \/ outcome' = SinkError /\ caller = "bounded"
  BY DEF ChunkFails, SourceEnds, SpareFails, Return, Transferring, Draining, Fallible
<1>3. PumpInv'
  BY <1>1, QuietReturnInv DEF QuietReturn, SInv
<1>4. ended' = ended /\ phase = "Open" /\ failed = NoKind
  <2>1. /\ phase = "Open" /\ failed = NoKind /\ (ended <=> codec = "ended")
        /\ ended \in {TRUE, FALSE}
    BY <1>1, <1>2 DEF SInv, PartInv, StreamTypeOK
  <2>2. ended' = (codec = "ended")
    BY <1>1, <1>2
  <2>3. ended' = ended
    BY <2>1, <2>2, Zenon
  <2> QED BY <2>1, <2>3
<1>5. StreamTypeOK' /\ RoomInv' /\ MissingInv'
  BY <1>1, <1>2, <1>4 DEF SInv, StreamTypeOK, RoomInv, MissingInv, endVars
<1>6. PartInv'
  BY <1>1, <1>2, <1>4 DEF SInv, PartInv, StreamTypeOK
<1>7. SaysInv'
  BY <1>1, <1>2, <1>4
     DEF SaysInv, TransferResults, SourceError, SinkError, Result, InputLeft, endVars
<1>8. ResultInv'
  BY <1>1, NoResultYet DEF SInv, ResultInv
<1> QED BY <1>3, <1>5, <1>6, <1>7, <1>8 DEF SInv

\* A codec call of the transfer.
LEMMA TransferCallInv ==
  ASSUME SInv, Transfer,
         NEW i \in HonestChunks, NEW s \in HonestSpaces, NEW ok \in Commits,
         NEW a \in BoundedAnswers(i, s.len), a = Validated(a, i, s.len),
         Transfers(i, s, a, ok), Holds(a)
  PROVE  SInv'
<1>1. /\ part = "transfer" /\ part' = part /\ tick' \in BOOLEAN /\ UNCHANGED <<caller, result>>
      /\ ended' = (codec' = "ended") /\ held' \in Nat /\ MaxHeld \in Nat
  BY StreamAssumption DEF Transfer, Holds, SInv, PumpInv, TypeOK
<1>2. /\ i \in Nat /\ i > 0 /\ i <= InputLeft /\ InputLeft \in Int
      /\ taken \in Nat /\ SourceLen \in Nat
  BY PumpAssumption DEF HonestChunks, InputLeft, SInv, PumpInv, TypeOK
<1>3. /\ s.len \in Nat /\ SinkRoom \in Int
      /\ caller = "bounded" => s.len <= SinkRoom
      /\ s.full \/ s.len = 0 => caller = "bounded" /\ SinkRoom = 0
      /\ s.full <=> s.len = 0
  BY HonestSpace
<1>4. ok \in BOOLEAN /\ (~ok => caller = "bounded")
  BY DEF Commits, Fallible
<1>5. PumpInv
  BY DEF SInv
<1>6. PumpInv'
  BY <1>1, <1>2, <1>3, <1>4, <1>5, TransferKeepsPumpInv
<1>7. PICK c \in Nat, w \in Nat : Transferred(i, s, a, ok, c, w)
  BY <1>2, <1>3, <1>4, <1>5, TransferCases
<1>8. /\ c <= i /\ w <= s.len
      /\ taken' = taken + c /\ emitted' = emitted + w /\ stored' = stored + Counted(w, ok)
      /\ failed = NoKind /\ phase = "Open" /\ phase' = "Open" /\ op \in {"transfer", "step"}
  BY <1>7 DEF Transferred
<1>9. op = "transfer"
  BY <1>1, <1>8 DEF SInv, PartInv
<1>10. \/ /\ op' = "idle" /\ outcome'.tag \in {"Codec", "InputEnded"} /\ ok = TRUE
          /\ outcome'.tag = "InputEnded" => codec' = "ended" /\ failed' = NoKind
       \/ op' = "idle" /\ outcome'.tag = "Sink" /\ ok = FALSE
       \/ op' = "idle" /\ outcome' = Stall(s) /\ c = 0 /\ w = 0
       \/ op' = op /\ outcome' = outcome /\ failed' = NoKind /\ ok = TRUE
  <2>1. CASE ok = TRUE
    BY <1>7, <1>9, <2>1 DEF Transferred, Return, EndPass, CodecError, Result
  <2>2. CASE ok = FALSE
    BY <1>7, <2>2 DEF Transferred, Return, SinkError, Result
  <2> QED BY <1>4, <2>1, <2>2
<1>11. StreamTypeOK'
  <2>1. ended' \in {TRUE, FALSE}
    BY <1>1, Zenon
  <2> QED BY <1>1, <2>1 DEF SInv, StreamTypeOK
<1>12. RoomInv' /\ MissingInv' /\ ResultInv'
  <2>1. c <= InputLeft
    BY <1>2, <1>8
  <2>2. caller = "bounded" => w <= SinkRoom
    BY <1>3, <1>8
  <2>3. ok \/ w = 0 \/ (op' = "idle" /\ outcome'.tag = "Sink")
    BY <1>4, <1>10
  <2> QED BY <1>1, <1>4, <1>6, <1>8, <1>9, <1>11, <2>1, <2>2, <2>3, MoveKeepsRest
<1>13. PartInv'
  BY <1>1, <1>8, <1>9, <1>10 DEF SInv, PartInv
<1>14. SaysInv'
  <2>1. CASE op' = "idle" /\ outcome' = Stall(s) /\ c = 0 /\ w = 0
    <3>1. stored' = stored /\ taken' = taken
      BY <1>5, <1>8, <2>1 DEF Counted, PumpInv, TypeOK
    <3>2. SinkRoom' = SinkRoom /\ InputLeft' = InputLeft /\ InputLeft > 0
      BY <1>2, <3>1 DEF SinkRoom, InputLeft
    <3>3. \/ outcome'.tag = "NoProgress"
          \/ outcome'.tag = "SinkExhausted" /\ SinkRoom = 0 /\ caller = "bounded"
      BY <1>3, <2>1 DEF Stall, NoProgress, Result
    <3> QED BY <1>1, <3>2, <3>3 DEF SaysInv, TransferResults
  <2>2. CASE op' = "idle" /\ outcome'.tag = "Sink" /\ ok = FALSE
    BY <1>1, <1>4, <2>2 DEF SaysInv, TransferResults
  <2>3. CASE op' = "idle" /\ outcome'.tag \in {"Codec", "InputEnded"} /\ ok = TRUE
    <3>1. outcome'.tag = "InputEnded" => codec' = "ended" /\ failed' = NoKind
      BY <1>9, <1>10, <2>3 DEF Stall, NoProgress, Result
    <3> QED BY <1>1, <2>3, <3>1 DEF SaysInv, TransferResults
  <2>4. CASE op' = op
    BY <1>9, <2>4 DEF SaysInv
  <2> QED BY <1>10, <2>1, <2>2, <2>3, <2>4
<1> QED BY <1>6, <1>11, <1>12, <1>13, <1>14 DEF SInv

\* A pass of the transfer.
LEMMA TransferInv == SInv /\ Transfer => SInv'
<1> SUFFICES ASSUME SInv, Transfer PROVE SInv'
  OBVIOUS
<1>1. \/ \/ Fallible /\ ChunkFails /\ UNCHANGED held
         \/ InputLeft = 0 /\ SourceEnds /\ UNCHANGED held
         \/ InputLeft > 0 /\ Fallible /\ SpareFails /\ UNCHANGED held
      \/ \E i \in HonestChunks, s \in HonestSpaces, ok \in Commits :
           \E a \in BoundedAnswers(i, s.len) :
             a = Validated(a, i, s.len) /\ Transfers(i, s, a, ok) /\ Holds(a)
  BY DEF Transfer
<1> QED BY <1>1, QuietTransferInv, TransferCallInv

\* `spare` fails in the finish.
LEMMA QuietFinishInv == SInv /\ Finish /\ Fallible /\ SpareFails /\ UNCHANGED held => SInv'
<1> SUFFICES ASSUME SInv, Finish, Fallible, SpareFails, UNCHANGED held PROVE SInv'
  OBVIOUS
<1>1. /\ part = "finish" /\ part' = part /\ tick' \in BOOLEAN
      /\ UNCHANGED <<caller, result, held, ended>>
  BY DEF Finish, SInv, PumpInv, TypeOK
<1>2. /\ op' = "idle" /\ UNCHANGED <<phase, failed, codec, endVars>>
      /\ outcome' = SinkError /\ caller = "bounded"
  BY DEF SpareFails, Return, Fallible
<1>3. PumpInv'
  BY <1>1, QuietReturnInv DEF QuietReturn, SInv
<1>4. op # "idle"
  BY DEF SpareFails, Transferring, Draining
<1>5. StreamTypeOK' /\ RoomInv' /\ MissingInv'
  BY <1>1, <1>2, <1>4 DEF SInv, StreamTypeOK, RoomInv, MissingInv, endVars
<1>6. PartInv'
  BY <1>1, <1>2 DEF SInv, PartInv, InputLeft, endVars
<1>7. SaysInv'
  BY <1>1, <1>2 DEF SaysInv, FinishResults, SinkError, Result
<1>8. ResultInv'
  BY <1>1, NoResultYet DEF SInv, ResultInv
<1> QED BY <1>3, <1>5, <1>6, <1>7, <1>8 DEF SInv

\* A codec call of the finish.
LEMMA FinishCallInv ==
  ASSUME SInv, Finish,
         NEW s \in HonestSpaces, NEW ok \in Commits,
         NEW a \in DrainAnswers(s.len), a = Validated(a, 0, s.len),
         Drains(s, a, ok), HoldsAtFinish(a)
  PROVE  SInv'
<1>1. /\ part = "finish" /\ part' = part /\ tick' \in BOOLEAN
      /\ UNCHANGED <<caller, result, ended>>
      /\ held' \in Nat /\ (a.tag = "Done" => held' = 0) /\ (a.tag = "OutputFilled" => held' > 0)
  BY StreamAssumption DEF Finish, HoldsAtFinish, SInv, PumpInv, TypeOK
<1>2. /\ s.len \in Nat /\ SinkRoom \in Int
      /\ caller = "bounded" => s.len <= SinkRoom
      /\ s.full \/ s.len = 0 => caller = "bounded" /\ SinkRoom = 0
      /\ s.full <=> s.len = 0
  BY HonestSpace
<1>3. ok \in BOOLEAN /\ (~ok => caller = "bounded")
  BY DEF Commits, Fallible
<1>4. PumpInv /\ taken \in Nat /\ SourceLen \in Nat /\ taken <= SourceLen
  BY PumpAssumption DEF SInv, PumpInv, TypeOK, RoomInv
<1>5. PumpInv'
  BY <1>1, <1>2, <1>3, <1>4, DrainKeepsPumpInv
<1>6. PICK w \in Nat : Drained(s, a, ok, w)
  BY <1>2, <1>3, <1>4, DrainCases
<1>7. /\ w <= s.len
      /\ taken' = taken /\ emitted' = emitted + w /\ stored' = stored + Counted(w, ok)
      /\ failed = NoKind /\ op \in {"flush", "finish"}
  BY <1>6 DEF Drained
<1>8. op = "finish"
  BY <1>1, <1>7 DEF SInv, PartInv
<1>9. \/ op' = "idle" /\ outcome'.tag = "Codec" /\ ok = TRUE
      \/ op' = "idle" /\ outcome'.tag = "Done" /\ codec' = "done" /\ held' = 0 /\ ok = TRUE
      \/ op' = "idle" /\ outcome'.tag = "Sink" /\ ok = FALSE
      \/ op' = "idle" /\ outcome' = Stall(s) /\ w = 0 /\ held' > 0
      \/ op' = op /\ outcome' = outcome /\ failed' = NoKind /\ ok = TRUE
  <2>1. CASE ok = TRUE
    BY <1>1, <1>6, <1>8, <2>1 DEF Drained, Return, CodecError, Result
  <2>2. CASE ok = FALSE
    BY <1>1, <1>6, <2>2 DEF Drained, Return, SinkError, Result
  <2> QED BY <1>3, <2>1, <2>2
<1>10. StreamTypeOK'
  BY <1>1 DEF SInv, StreamTypeOK
<1>11. RoomInv' /\ MissingInv' /\ ResultInv'
  <2>1. 0 <= InputLeft /\ taken' = taken + 0
    BY <1>4, <1>7 DEF InputLeft
  <2>2. caller = "bounded" => w <= SinkRoom
    BY <1>2, <1>7
  <2>3. ok \/ w = 0 \/ (op' = "idle" /\ outcome'.tag = "Sink")
    BY <1>3, <1>9
  <2> QED BY <1>1, <1>3, <1>5, <1>7, <1>8, <1>10, <2>1, <2>2, <2>3, MoveKeepsRest
<1>12. PartInv'
  <2>1. InputLeft' = 0 \/ ended'
    BY <1>1, <1>7 DEF SInv, PartInv, InputLeft
  <2>2. op' # "idle" => failed' = NoKind /\ outcome' = Pending
    BY <1>8, <1>9 DEF SInv, PartInv
  <2> QED BY <1>1, <1>8, <1>9, <2>1, <2>2 DEF PartInv
<1>13. SaysInv'
  <2>1. CASE op' = "idle" /\ outcome' = Stall(s) /\ w = 0 /\ held' > 0
    <3>1. stored' = stored
      BY <1>4, <1>7, <2>1 DEF Counted, PumpInv, TypeOK
    <3>2. \/ outcome'.tag = "NoProgress"
          \/ outcome'.tag = "SinkExhausted" /\ SinkRoom = 0 /\ caller = "bounded"
      BY <1>2, <2>1 DEF Stall, NoProgress, Result
    <3> QED BY <1>1, <2>1, <3>1, <3>2 DEF SaysInv, FinishResults, SinkRoom
  <2>2. CASE op' = "idle" /\ outcome'.tag \in {"Codec", "Done", "Sink"}
    BY <1>1, <1>3, <1>8, <1>9, <2>2 DEF SaysInv, FinishResults, Stall, NoProgress, Result
  <2>3. CASE op' = op
    BY <1>8, <2>3 DEF SaysInv
  <2> QED BY <1>9, <2>1, <2>2, <2>3
<1> QED BY <1>5, <1>10, <1>11, <1>12, <1>13 DEF SInv

\* SInv is inductive.
LEMMA StreamStepInv == SInv /\ [Work \/ Returned]_vars => SInv'
<1> SUFFICES ASSUME SInv, [Work \/ Returned]_vars PROVE SInv'
  OBVIOUS
<1>1. CASE UNCHANGED vars
  <2>1. UNCHANGED pumpVars /\ UNCHANGED <<caller, part, result, held, ended>>
    BY <1>1 DEF vars
  <2>2. UNCHANGED <<phase, failed, codec, taken, emitted, stored, op, outcome, tick, total>>
    BY <2>1 DEF pumpVars
  <2>3. PumpInv'
    BY <2>2, EndpointKeepsPumpInv DEF SInv, PumpInv, TypeOK, endVars
  <2>4. StreamTypeOK' /\ RoomInv' /\ MissingInv' /\ PartInv'
    BY <2>1, <2>2 DEF SInv, StreamTypeOK, RoomInv, MissingInv, PartInv, InputLeft
  <2>5. SaysInv'
    BY <2>1, <2>2 DEF SInv, SaysInv, InputLeft, SinkRoom
  <2>6. ResultInv'
    BY <2>1, <2>2
       DEF SInv, ResultInv, OkMeansComplete, ExactFitSucceeds, NeverUnreachable, InputLeft, SinkRoom
  <2> QED BY <2>3, <2>4, <2>5, <2>6 DEF SInv
<1>2. CASE Finish
  <2>1. \/ Fallible /\ SpareFails /\ UNCHANGED held
        \/ \E s \in HonestSpaces, ok \in Commits :
             \E a \in DrainAnswers(s.len) :
               a = Validated(a, 0, s.len) /\ Drains(s, a, ok) /\ HoldsAtFinish(a)
    BY <1>2 DEF Finish
  <2> QED BY <1>2, <2>1, QuietFinishInv, FinishCallInv
<1> QED BY <1>1, <1>2, StartInv, TransferInv, StartFinishingInv, ReturnResultInv
        DEF Work, Returned

\* StreamSpec implies it.
LEMMA StreamSpecInv == StreamSpec => []SInv
<1> QED BY StreamInitInv, StreamStepInv, PTL DEF StreamSpec

-----------------------------------------------------------------------------
(* Results.                                                                *)

\* An Ok of stream_to_stream: the input went in up to its end, the codec has
\* nothing left to write, and every byte it wrote is in the sink.
THEOREM StreamOkIsComplete == StreamSpec => []OkMeansComplete
<1>1. SInv => OkMeansComplete
  BY DEF SInv, ResultInv
<1> QED BY <1>1, StreamSpecInv, PTL

\* A full sink is reported only when input or output had no place: an output
\* that fits exactly succeeds.
THEOREM StreamExactFit == StreamSpec => []ExactFitSucceeds
<1>1. SInv => ExactFitSucceeds
  BY DEF SInv, ResultInv
<1> QED BY <1>1, StreamSpecInv, PTL

\* encode_str never reaches its unreachable!.
THEOREM StreamNeverPanics == StreamSpec => []NeverUnreachable
<1>1. SInv => NeverUnreachable
  BY DEF SInv, ResultInv
<1> QED BY <1>1, StreamSpecInv, PTL

\* Under stream_to_stream the pump makes no call that the codec traits leave undefined,
\* and its totals stay exact: what Pump promises holds on these endpoints too.
THEOREM StreamKeepsCodecContract == StreamSpec => [](CodecContractKept /\ TotalsExact)
<1>1. SInv => CodecContractKept /\ TotalsExact
  BY DEF SInv, PumpInv
<1> QED BY <1>1, StreamSpecInv, PTL

=============================================================================
