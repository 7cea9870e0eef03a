---------------------------- MODULE ChainProofs ----------------------------
(***************************************************************************)
(* The safety of Chain for every length of staging, every pair of codecs   *)
(* and every order of calls: an inductive invariant, the safety            *)
(* properties that follow from it, and the proof, step by step, that Chain *)
(* implements LatchingCodec, its promise to the caller.                    *)
(***************************************************************************)
EXTENDS Chain, Integers, TLAPS

-----------------------------------------------------------------------------
(* What the chain knows of a codec's answer once it is validated.          *)

\* An answer the chain can rely on: typed, and an error names its kind.
Sound(a) == a \in Answers /\ (a.tag = "Err" => a.kind \in ErrorKind)

\* A codec that says it consumed its input took all of it, and one that says
\* it filled its output wrote all of it.
TagHonest(v, i, o) ==
  /\ v.tag = "InputConsumed" => v.consumed = i
  /\ v.tag = "OutputFilled"  => v.written = o

\* Validation keeps an answer sound and puts its counts inside the buffers.
LEMMA ValidatedAnswer ==
  ASSUME NEW i \in Nat, NEW o \in Nat, NEW a, Sound(a), TagHonest(a, i, o)
  PROVE  LET v == Validated(a, i, o) IN
           /\ Sound(v) /\ v.consumed \in 0..i /\ v.written \in 0..o
           /\ v.tag = a.tag \/ v.tag = "Err"
           /\ TagHonest(v, i, o)
BY DEF Validated, Sound, Answers, Answer, AnswerTags, ErrorKind, TagHonest

\* The failures a codec may answer with are sound.
LEMMA FailureSound ==
  ASSUME NEW i \in Nat, NEW o \in Nat, NEW a \in FailureAnswers(i, o)
  PROVE  Sound(a) /\ a.tag = "Err"
BY CodecKindsAssumption
   DEF FailureAnswers, Claims, Answer, Sound, Answers, AnswerTags

\* A validated answer of Codec::process.
LEMMA ProcessAnswer ==
  ASSUME NEW i \in Nat, NEW o \in Nat, NEW a \in ProcessAnswers(i, o)
  PROVE  LET v == Validated(a, i, o) IN
           /\ Sound(v) /\ v.consumed \in 0..i /\ v.written \in 0..o
           /\ v.tag \in {"InputConsumed", "OutputFilled", "Err"}
           /\ TagHonest(v, i, o)
<1>1. /\ Sound(a) /\ TagHonest(a, i, o)
      /\ a.tag \in {"InputConsumed", "OutputFilled", "Err"}
  <2>1. CASE a \in FailureAnswers(i, o)
    BY <2>1, FailureSound DEF TagHonest
  <2>2. CASE a \notin FailureAnswers(i, o)
    BY <2>2 DEF ProcessAnswers, Answer, Sound, Answers, AnswerTags, TagHonest
  <2> QED BY <2>1, <2>2
<1> QED BY <1>1, ValidatedAnswer

\* A validated answer of DrainCodec::flush or DrainCodec::finish.
LEMMA DrainAnswer ==
  ASSUME NEW o \in Nat, NEW a \in DrainAnswers(o)
  PROVE  LET v == Validated(a, 0, o) IN
           /\ Sound(v) /\ v.consumed = 0 /\ v.written \in 0..o
           /\ v.tag \in {"Done", "OutputFilled", "Err"}
           /\ TagHonest(v, 0, o)
<1>1. Sound(a) /\ TagHonest(a, 0, o) /\ a.tag \in {"Done", "OutputFilled", "Err"}
  <2>1. CASE a \in FailureAnswers(0, o)
    BY <2>1, FailureSound DEF TagHonest
  <2>2. CASE a \notin FailureAnswers(0, o)
    BY <2>2 DEF DrainAnswers, Answer, Sound, Answers, AnswerTags, TagHonest
  <2> QED BY <2>1, <2>2
<1> QED BY <1>1, ValidatedAnswer

-----------------------------------------------------------------------------
(* The inductive invariant.                                                *)

\* An emptied staging is rewound, and a pass that has drained staging left
\* bytes there only because the output is full.  Without this `first` could
\* be given a staging buffer that is in use.
StagingInv ==
  /\ Staged = 0 => stage = [start |-> 0, end |-> 0]
  /\ drained => Staged = 0 \/ Room = 0

\* A call reports what it really moved; one that will be refused moves nothing.
CallInv ==
  /\ call.op = "idle" => call = NoCall
  /\ call.op \in {"flush", "finish"} => call.input = 0
  /\ call.op = "finish" => phase # "Open"
  /\ call # NoCall => pos = moved
  /\ call = NoCall \/ (call.op \in {"process", "flush"} /\ phase # "Open") =>
       pos = Nothing /\ ~drained

\* The flags of the chain and the codecs tell the same story: `second` is
\* left alone until `first` has finished, and an error ends its codec.
CodecsInv ==
  /\ failure.tag = "None" =>
       /\ first \in {"live", "finishing", "done"} /\ second \in {"live", "finishing", "done"}
       /\ phase = "Open" => first = "live"
       /\ first = "done" <=> firstFinished
       /\ second = "done" <=> phase = "Finished"
       /\ second # "live" => firstFinished /\ Staged = 0
  /\ failure.tag = "FirstPending" => first = "failed" /\ second = "live"
  /\ failure.tag # "None" => phase # "Finished"

\* A flush cycle in which `first` is through has taken no input since.
FlushInv ==
  /\ firstFlushed => "first" \notin holding
  /\ firstFlushed /\ call.op = "process" => phase # "Open"

\* No error is forgotten, and none is kept that did not happen.
CauseInv == failure.tag = "None" => cause = NoKind

IInv ==
  /\ TypeOK
  /\ CodecsNeverMisused
  /\ NothingLostBetween
  /\ FirstErrorWins
  /\ StagingInv
  /\ CallInv
  /\ CodecsInv
  /\ FlushInv
  /\ CauseInv

-----------------------------------------------------------------------------
(* The lengths of the three buffers.                                       *)

\* Staged, left and room are lengths, and the cursors lie inside their buffers.
LEMMA Sizes ==
  ASSUME TypeOK
  PROVE  /\ Staged \in 0..StagingLen /\ Left \in 0..call.input /\ Room \in 0..call.output
         /\ call.input \in 0..MaxInput /\ call.output \in 0..MaxOutput
         /\ stage.end \in 0..StagingLen /\ stage.start \in 0..StagingLen
         /\ stage.start <= stage.end
         /\ pos.consumed \in 0..call.input /\ pos.written \in 0..call.output
         /\ stage = [start |-> stage.start, end |-> stage.end]
         /\ pos = [consumed |-> pos.consumed, written |-> pos.written]
         /\ StagingLen \in Nat \ {0}
BY ChainAssumption DEF TypeOK, Counts, Staged, Left, Room

\* A kept error has a kind.
LEMMA FailureTyped ==
  ASSUME TypeOK
  PROVE  /\ failure.tag \in {"None", "FirstPending", "Latched"}
         /\ failure.tag = "None" => failure = NoFailure
         /\ failure.tag # "None" => failure.kind \in ErrorKind
BY DEF TypeOK, NoFailure

\* Taking n staged bytes leaves the rest, and rewinds an emptied staging.
LEMMA DropStagedTakes ==
  ASSUME TypeOK, NEW n \in 0..Staged, stage' = DropStaged(n)
  PROVE  /\ stage' \in [start : 0..StagingLen, end : 0..StagingLen]
         /\ stage'.start <= stage'.end
         /\ Staged' = Staged - n
         /\ Staged' = 0 => stage' = [start |-> 0, end |-> 0]
BY Sizes DEF DropStaged, Staged

\* The first state.
LEMMA InitInv == Init => IInv
<1> SUFFICES ASSUME Init PROVE IInv
  OBVIOUS
<1>1. Staged = 0 /\ NoCall.op = "idle"
  BY DEF Init, Staged, NoCall, CallOf
<1>2. /\ stage \in [start : 0..StagingLen, end : 0..StagingLen] /\ stage.start <= stage.end
      /\ mid \in 0..MaxMid /\ inFlight \in 0..StagingLen
  BY ChainAssumption DEF Init
<1>3. /\ call \in [op : {"idle", "process", "flush", "finish"},
                   input : 0..MaxInput, output : 0..MaxOutput]
      /\ pos \in Counts(call.input, call.output) /\ moved \in Counts(MaxInput, MaxOutput)
  BY ChainAssumption DEF Init, NoCall, CallOf, Nothing, Counts
<1>4. outcome \in Answers
  BY DEF Init, NoAnswer, Answer, Answers, AnswerTags
<1>5. TypeOK
  BY <1>2, <1>3, <1>4 DEF Init, TypeOK, FinishPhase, CodecState
<1> QED BY <1>1, <1>5
     DEF Init, IInv, CodecsNeverMisused, NothingLostBetween, FirstErrorWins,
         StagingInv, CallInv, CodecsInv, FlushInv, CauseInv, NoFailure

-----------------------------------------------------------------------------
(* Every step keeps it: a call, and returns that call neither codec.       *)

\* A call of the caller.
LEMMA CallerInv == IInv /\ Caller => IInv'
<1> SUFFICES ASSUME IInv, NEW op \in {"process", "flush", "finish"},
                    NEW i \in 0..MaxInput, NEW o \in 0..MaxOutput,
                    op # "process" => i = 0, Call(CallOf(op, i, o))
             PROVE  IInv'
  BY DEF Caller
<1>1. /\ call = NoCall /\ call' = [op |-> op, input |-> i, output |-> o]
      /\ phase' = IF op = "finish" /\ phase = "Open" THEN "Finishing" ELSE phase
      /\ firstFlushed' = (IF op = "process" /\ phase = "Open" THEN FALSE ELSE firstFlushed)
      /\ moved' = Nothing /\ mid' = 0
      /\ UNCHANGED <<failure, firstFinished, stage, pos, drained, outcome>>
      /\ UNCHANGED <<first, second, inFlight, holding, cause>>
  BY DEF Call, CallOf, FlushedAtCall, StartFinish
<1>2. pos = Nothing /\ ~drained /\ Staged' = Staged
  BY <1>1 DEF IInv, CallInv, Staged
<1>3. call'.op = op /\ call'.input = i /\ call' # NoCall
  BY <1>1 DEF NoCall, CallOf
<1>4. TypeOK'
  <2>1. mid' \in 0..MaxMid
    BY <1>1, ChainAssumption
  <2>2. pos' \in Counts(call'.input, call'.output) /\ moved' \in Counts(MaxInput, MaxOutput)
    BY <1>1, <1>2, ChainAssumption DEF Nothing, Counts
  <2>3. phase' \in FinishPhase /\ firstFlushed' \in BOOLEAN
    BY <1>1 DEF IInv, TypeOK, FinishPhase
  <2> QED BY <1>1, <2>1, <2>2, <2>3 DEF IInv, TypeOK
<1>5. StagingInv' /\ CallInv' /\ FlushInv'
  BY <1>1, <1>2, <1>3 DEF IInv, StagingInv, CallInv, FlushInv, Room
<1>6. CodecsInv'
  BY <1>1, <1>2 DEF IInv, CodecsInv
<1> QED BY <1>1, <1>2, <1>4, <1>5, <1>6
     DEF IInv, CodecsNeverMisused, NothingLostBetween, FirstErrorWins, CauseInv

\* Every return leaves the chain ready for the next call.
LEMMA Returned ==
  ASSUME TypeOK, NEW a \in Answers, Return(a)
  PROVE  /\ call' = NoCall /\ call'.op = "idle" /\ outcome' = a
         /\ call' \in [op : {"idle", "process", "flush", "finish"},
                       input : 0..MaxInput, output : 0..MaxOutput]
         /\ pos' \in Counts(call'.input, call'.output) /\ drained' = FALSE
         /\ outcome' \in Answers /\ phase' \in FinishPhase
         /\ a.tag # "Done" => phase' = phase
         /\ firstFlushed' \in BOOLEAN /\ (firstFlushed' => firstFlushed)
         /\ CallInv'
<1>1. /\ call' = NoCall /\ outcome' = a /\ pos' = Nothing /\ drained' = FALSE
      /\ phase' = IF call.op = "finish" /\ a.tag = "Done" THEN "Finished" ELSE phase
      /\ firstFlushed' \in BOOLEAN /\ (firstFlushed' => firstFlushed)
  BY DEF Return, TypeOK
<1>2. call' = [op |-> "idle", input |-> 0, output |-> 0]
  BY <1>1 DEF NoCall, CallOf
<1>3. pos' \in Counts(call'.input, call'.output)
  BY <1>1, <1>2 DEF Nothing, Counts
<1>4. phase' \in FinishPhase
  BY <1>1 DEF TypeOK, FinishPhase
<1>5. CallInv'
  BY <1>1, <1>2 DEF CallInv
<1> QED BY <1>1, <1>2, <1>3, <1>4, <1>5, ChainAssumption

\* Returning from a call keeps what the rest of the invariant does not see.
LEMMA QuietReturnInv == IInv /\ (Refused \/ FinishAgain \/ RepeatError) => IInv'
<1> SUFFICES ASSUME IInv, Refused \/ FinishAgain \/ RepeatError PROVE IInv'
  OBVIOUS
<1>1. /\ UNCHANGED <<phase, failure, firstFinished, stage, history>>
      /\ call' = NoCall /\ firstFlushed' \in BOOLEAN /\ (firstFlushed' => firstFlushed)
  BY DEF Refused, FinishAgain, RepeatError, Return, ownVars, Answer, IInv, TypeOK
<1>2. pos' = Nothing /\ drained' = FALSE
  <2>1. CASE Refused
    BY <2>1 DEF Refused, IInv, CallInv
  <2>2. CASE FinishAgain \/ RepeatError
    BY <2>2 DEF FinishAgain, RepeatError, Return
  <2> QED BY <2>1, <2>2
<1>3. \E k \in ErrorKind \cup {NoKind}, tag \in AnswerTags : outcome' = Answer(tag, 0, 0, k)
  BY FailureTyped DEF Refused, FinishAgain, RepeatError, Return, IInv, ErrorKind, AnswerTags
<1>4. outcome' \in Answers
  BY <1>3 DEF Answer, Answers
<1>5. TypeOK'
  <2>1. pos' \in Counts(call'.input, call'.output)
    BY <1>1, <1>2, ChainAssumption DEF Nothing, Counts, NoCall, CallOf
  <2>2. call' \in [op : {"idle", "process", "flush", "finish"},
                   input : 0..MaxInput, output : 0..MaxOutput]
    BY <1>1, ChainAssumption DEF NoCall, CallOf
  <2> QED BY <1>1, <1>2, <1>4, <2>1, <2>2 DEF IInv, TypeOK, history
<1>6. StagingInv' /\ CallInv'
  BY <1>1, <1>2 DEF IInv, StagingInv, CallInv, Staged, NoCall, CallOf
<1>7. CodecsInv' /\ CodecsNeverMisused' /\ NothingLostBetween'
  BY <1>1 DEF IInv, CodecsInv, CodecsNeverMisused, NothingLostBetween, Staged, history
<1>8. FirstErrorWins' /\ FlushInv' /\ CauseInv'
  <2>1. call'.op # "process"
    BY <1>1 DEF NoCall, CallOf
  <2> QED BY <1>1, <2>1 DEF IInv, FirstErrorWins, FlushInv, CauseInv, history
<1> QED BY <1>5, <1>6, <1>7, <1>8 DEF IInv

-----------------------------------------------------------------------------
(* The pass that calls `second` on staged bytes.                           *)

\* `second` may be called while the chain works on staged bytes.
LEMMA SecondLive ==
  ASSUME IInv, failure.tag # "Latched", Staged > 0
  PROVE  second = "live" /\ phase # "Finished"
BY FailureTyped DEF IInv, CodecsInv

\* What one answer of `second` does to staging and the counts.
LEMMA DrainStagingMoves ==
  ASSUME IInv, DrainStaging
  PROVE  \E v \in Answers :
           /\ v.tag \in {"InputConsumed", "OutputFilled", "Err"}
           /\ Sound(v) /\ v.consumed \in 0..Staged /\ v.written \in 0..Room
           /\ TagHonest(v, Staged, Room)
           /\ stage' = DropStaged(v.consumed)
           /\ second' = (IF v.tag = "Err" THEN "failed" ELSE "live")
           /\ SecondMoved(v.consumed, v.written, FALSE)
           /\ cause' = Blame(v)
           /\ IF v.tag = "Err"
              THEN /\ failure' = Latched(WinningError(v.kind))
                   /\ Return(Rebased(v.written, WinningError(v.kind)))
              ELSE /\ pos' = [pos EXCEPT !.written = @ + v.written]
                   /\ drained' = TRUE
                   /\ UNCHANGED <<phase, failure, firstFlushed, call, outcome>>
           /\ UNCHANGED <<firstFinished, first, mid>>
<1>1. Staged \in Nat /\ Room \in Nat
  BY Sizes DEF IInv
<1>2. second = "live"
  BY SecondLive DEF DrainStaging, Running
<1>3. PICK a \in ProcessAnswers(Staged, Room) :
         LET v == Validated(a, Staged, Room) IN
           /\ stage' = DropStaged(v.consumed)
           /\ second' = AfterProcess(second, v)
           /\ SecondMoved(v.consumed, v.written, FALSE)
           /\ cause' = Blame(v)
           /\ IF v.tag = "Err"
              THEN /\ failure' = Latched(WinningError(v.kind))
                   /\ Return(Rebased(v.written, WinningError(v.kind)))
              ELSE /\ pos' = [pos EXCEPT !.written = @ + v.written]
                   /\ drained' = TRUE
                   /\ UNCHANGED <<phase, failure, firstFlushed, call, outcome>>
  BY DEF DrainStaging
<1> DEFINE v == Validated(a, Staged, Room)
<1>4. /\ Sound(v) /\ v.consumed \in 0..Staged /\ v.written \in 0..Room
      /\ v.tag \in {"InputConsumed", "OutputFilled", "Err"} /\ TagHonest(v, Staged, Room)
  BY <1>1, ProcessAnswer
<1>5. AfterProcess(second, v) = IF v.tag = "Err" THEN "failed" ELSE "live"
  BY <1>2, <1>4 DEF AfterProcess
<1>6. v \in Answers
  BY <1>4 DEF Sound
<1> QED BY <1>3, <1>4, <1>5, <1>6 DEF DrainStaging

\* A call of `second` changes the counts of `second` only.
LEMMA SecondMovedTyped ==
  ASSUME IInv, call # NoCall, NEW c \in 0..Staged, NEW w \in 0..Room, NEW done \in BOOLEAN,
         SecondMoved(c, w, done)
  PROVE  /\ inFlight' = Staged - c
         /\ moved' = [consumed |-> pos.consumed, written |-> pos.written + w]
         /\ moved' \in Counts(MaxInput, MaxOutput)
         /\ moved' \in Counts(call.input, call.output)
         /\ holding' \subseteq {"first", "second"}
         /\ "first" \in holding' => "first" \in holding
         /\ done => "second" \notin holding'
<1>1. pos = moved
  BY DEF IInv, CallInv
<1>2. moved' = [consumed |-> pos.consumed, written |-> pos.written + w]
  BY <1>1, Sizes DEF SecondMoved, IInv
<1>3. pos.consumed \in 0..call.input /\ pos.written + w \in 0..call.output
  BY Sizes DEF IInv, Room
<1>4. call.input <= MaxInput /\ call.output <= MaxOutput /\ call.input \in Nat /\ call.output \in Nat
  BY Sizes, ChainAssumption DEF IInv
<1>5. pos.consumed \in 0..MaxInput /\ pos.written + w \in 0..MaxOutput
  BY <1>3, <1>4, ChainAssumption
<1> QED BY <1>2, <1>3, <1>5
     DEF SecondMoved, IInv, TypeOK, NothingLostBetween, StillHolding, Counts

\* An answer the chain makes up from its counts is well typed.
LEMMA AnswerTyped ==
  ASSUME NEW tag \in AnswerTags, NEW c \in Nat, NEW w \in Nat, NEW k \in ErrorKind \cup {NoKind}
  PROVE  /\ Answer(tag, c, w, k) \in Answers
         /\ Answer(tag, c, w, k).tag = tag /\ Answer(tag, c, w, k).kind = k
         /\ Answer(tag, c, w, k).consumed = c /\ Answer(tag, c, w, k).written = w
BY DEF Answer, Answers

\* A pass that hands staged bytes to the second codec.
LEMMA DrainStagingInv == IInv /\ DrainStaging => IInv'
<1> SUFFICES ASSUME IInv, DrainStaging PROVE IInv'
  OBVIOUS
<1>1. /\ Running /\ call # NoCall /\ failure.tag # "Latched" /\ ~drained /\ Staged > 0
      /\ TypeOK
  BY DEF DrainStaging, Running, IInv
<1>2. PICK v \in Answers :
           /\ v.tag \in {"InputConsumed", "OutputFilled", "Err"}
           /\ Sound(v) /\ v.consumed \in 0..Staged /\ v.written \in 0..Room
           /\ TagHonest(v, Staged, Room)
           /\ stage' = DropStaged(v.consumed)
           /\ second' = (IF v.tag = "Err" THEN "failed" ELSE "live")
           /\ SecondMoved(v.consumed, v.written, FALSE)
           /\ cause' = Blame(v)
           /\ IF v.tag = "Err"
              THEN /\ failure' = Latched(WinningError(v.kind))
                   /\ Return(Rebased(v.written, WinningError(v.kind)))
              ELSE /\ pos' = [pos EXCEPT !.written = @ + v.written]
                   /\ drained' = TRUE
                   /\ UNCHANGED <<phase, failure, firstFlushed, call, outcome>>
           /\ UNCHANGED <<firstFinished, first, mid>>
  BY DrainStagingMoves
<1>3. /\ stage' \in [start : 0..StagingLen, end : 0..StagingLen]
      /\ stage'.start <= stage'.end /\ Staged' = Staged - v.consumed
      /\ Staged' = 0 => stage' = [start |-> 0, end |-> 0]
  BY <1>1, <1>2, DropStagedTakes
<1>4. /\ inFlight' = Staged' /\ inFlight' \in 0..StagingLen
      /\ moved' = [consumed |-> pos.consumed, written |-> pos.written + v.written]
      /\ moved' \in Counts(MaxInput, MaxOutput) /\ moved' \in Counts(call.input, call.output)
      /\ holding' \subseteq {"first", "second"}
      /\ "first" \in holding' => "first" \in holding
  <2>1. SecondMoved(v.consumed, v.written, FALSE) /\ FALSE \in BOOLEAN
    BY <1>2
  <2>2. /\ inFlight' = Staged - v.consumed
        /\ moved' = [consumed |-> pos.consumed, written |-> pos.written + v.written]
        /\ moved' \in Counts(MaxInput, MaxOutput) /\ moved' \in Counts(call.input, call.output)
        /\ holding' \subseteq {"first", "second"}
        /\ "first" \in holding' => "first" \in holding
    BY <1>1, <1>2, <2>1, SecondMovedTyped
  <2> QED BY <1>1, <1>2, <1>3, <2>2, Sizes
<1>5. cause' \in ErrorKind \cup {NoKind}
  BY <1>1, <1>2 DEF Blame, TypeOK, Sound
<1>6. second = "live" /\ phase # "Finished" /\ second' \in CodecState
  BY <1>1, <1>2, SecondLive DEF CodecState
<1>7. CASE v.tag = "Err"
  <2> DEFINE k == WinningError(v.kind)
  <2>1. k \in ErrorKind /\ cause' = k
    BY <1>1, <1>2, <1>7, FailureTyped
       DEF WinningError, Sound, Blame, IInv, FirstErrorWins, CauseInv, ErrorKind, NoKind
  <2> HIDE DEF k
  <2>2. failure' = [tag |-> "Latched", kind |-> k] /\ Return(Rebased(v.written, k))
    BY <1>2, <1>7 DEF k, Latched
  <2>3. Rebased(v.written, k) \in Answers /\ Rebased(v.written, k).tag = "Err"
    <3>1. pos.consumed \in Nat /\ pos.written + v.written \in Nat
      BY <1>1, <1>2, Sizes
    <3> QED BY <2>1, <3>1, AnswerTyped DEF Rebased, AnswerTags
  <2>4. /\ call' = NoCall /\ call'.op = "idle"
        /\ call' \in [op : {"idle", "process", "flush", "finish"},
                      input : 0..MaxInput, output : 0..MaxOutput]
        /\ pos' \in Counts(call'.input, call'.output) /\ drained' = FALSE
        /\ outcome' \in Answers /\ phase' = phase
        /\ firstFlushed' \in BOOLEAN /\ (firstFlushed' => firstFlushed)
        /\ CallInv'
    BY <1>1, <2>2, <2>3, Returned
  <2>5. TypeOK'
    BY <1>1, <1>2, <1>3, <1>4, <1>5, <1>6, <2>1, <2>2, <2>4 DEF TypeOK
  <2>6. StagingInv' /\ FlushInv' /\ NothingLostBetween'
    BY <1>3, <1>4, <2>4 DEF IInv, StagingInv, FlushInv, NothingLostBetween
  <2>7. CodecsInv' /\ CauseInv' /\ FirstErrorWins' /\ CodecsNeverMisused'
    BY <1>2, <1>6, <1>7, <2>1, <2>2, <2>4
       DEF IInv, CodecsInv, CauseInv, FirstErrorWins, CodecsNeverMisused
  <2> QED BY <2>4, <2>5, <2>6, <2>7 DEF IInv
<1>8. CASE v.tag # "Err"
  <2>1. /\ pos' = moved' /\ drained' = TRUE /\ cause' = cause /\ second' = second
        /\ UNCHANGED <<phase, failure, firstFlushed, call, outcome>>
    BY <1>1, <1>2, <1>4, <1>6, <1>8, Sizes DEF Blame
  <2>2. TypeOK'
    BY <1>1, <1>2, <1>3, <1>4, <2>1 DEF TypeOK
  <2>3. StagingInv'
    <3>1. v.consumed = Staged \/ v.written = Room
      BY <1>2, <1>8 DEF TagHonest
    <3>2. Staged' = 0 \/ Room' = 0
      BY <1>1, <1>3, <1>4, <2>1, <3>1, Sizes DEF Room
    <3> QED BY <1>3, <3>2 DEF StagingInv
  <2>4. CallInv'
    <3>1. ~(call.op \in {"process", "flush"} /\ phase # "Open")
      BY <1>1 DEF Running
    <3> QED BY <1>1, <2>1, <3>1 DEF IInv, CallInv
  <2>5. CodecsInv' /\ CauseInv' /\ FirstErrorWins' /\ CodecsNeverMisused'
    BY <1>2, <1>6, <2>1 DEF IInv, CodecsInv, CauseInv, FirstErrorWins, CodecsNeverMisused
  <2>6. FlushInv' /\ NothingLostBetween'
    BY <1>3, <1>4, <2>1 DEF IInv, FlushInv, NothingLostBetween
  <2> QED BY <2>2, <2>3, <2>4, <2>5, <2>6 DEF IInv
<1> QED BY <1>7, <1>8

-----------------------------------------------------------------------------
(* The passes that return: the report of an error, progress, and the drain *)
(* of `second`.                                                            *)

\* The flush of `second` that precedes the report of an error of `first`.
LEMMA DeliverErrorMoves ==
  ASSUME IInv, DeliverError
  PROVE  \E v \in Answers :
           /\ v.tag \in {"Done", "OutputFilled", "Err"}
           /\ v.written \in 0..Room /\ TagHonest(v, 0, Room)
           /\ second' = (IF v.tag = "Err" THEN "failed" ELSE "live")
           /\ SecondMoved(0, v.written, v.tag = "Done")
           /\ IF v.tag # "OutputFilled"
              THEN /\ failure' = Latched(failure.kind)
                   /\ Return(Rebased(v.written, failure.kind))
              ELSE /\ UNCHANGED failure
                   /\ Return(Answer("OutputFilled", pos.consumed, call.output, NoKind))
           /\ UNCHANGED <<firstFinished, stage, first, mid, cause>>
<1>1. Room \in Nat
  BY Sizes DEF IInv
<1>2. second = "live"
  BY DEF DeliverError, Due, IInv, CodecsInv
<1>3. PICK a \in DrainAnswers(Room) :
         LET v == Validated(a, 0, Room) IN
           /\ second' = AfterFlush(second, v)
           /\ SecondMoved(0, v.written, v.tag = "Done")
           /\ IF FlushedOut(v)
              THEN /\ failure' = Latched(failure.kind)
                   /\ Return(Rebased(v.written, failure.kind))
              ELSE /\ UNCHANGED failure
                   /\ Return(Answer("OutputFilled", pos.consumed, call.output, NoKind))
  BY DEF DeliverError
<1> DEFINE v == Validated(a, 0, Room)
<1>4. /\ Sound(v) /\ v.written \in 0..Room
      /\ v.tag \in {"Done", "OutputFilled", "Err"} /\ TagHonest(v, 0, Room)
  BY <1>1, DrainAnswer
<1>5. AfterFlush(second, v) = IF v.tag = "Err" THEN "failed" ELSE "live"
  BY <1>2 DEF AfterFlush
<1>6. v \in Answers
  BY <1>4 DEF Sound
<1> QED BY <1>3, <1>4, <1>5, <1>6 DEF DeliverError, FlushedOut

\* The pass that flushes `second` and then reports the pending error of `first`.
LEMMA DeliverErrorInv == IInv /\ DeliverError => IInv'
<1> SUFFICES ASSUME IInv, DeliverError PROVE IInv'
  OBVIOUS
<1>1. /\ TypeOK /\ call # NoCall /\ failure.tag = "FirstPending" /\ Staged = 0
      /\ failure.kind \in ErrorKind
  BY FailureTyped DEF DeliverError, Settled, Running, Due, IInv
<1>2. PICK v \in Answers :
           /\ v.tag \in {"Done", "OutputFilled", "Err"}
           /\ v.written \in 0..Room /\ TagHonest(v, 0, Room)
           /\ second' = (IF v.tag = "Err" THEN "failed" ELSE "live")
           /\ SecondMoved(0, v.written, v.tag = "Done")
           /\ IF v.tag # "OutputFilled"
              THEN /\ failure' = Latched(failure.kind)
                   /\ Return(Rebased(v.written, failure.kind))
              ELSE /\ UNCHANGED failure
                   /\ Return(Answer("OutputFilled", pos.consumed, call.output, NoKind))
           /\ UNCHANGED <<firstFinished, stage, first, mid, cause>>
  BY DeliverErrorMoves
<1>3. /\ inFlight' = 0 /\ moved' \in Counts(MaxInput, MaxOutput)
      /\ holding' \subseteq {"first", "second"} /\ ("first" \in holding' => "first" \in holding)
  <2>1. (v.tag = "Done") \in BOOLEAN /\ 0 \in 0..Staged
    BY <1>1
  <2>2. SecondMoved(0, v.written, v.tag = "Done")
    BY <1>2
  <2>3. /\ inFlight' = Staged - 0 /\ moved' \in Counts(MaxInput, MaxOutput)
        /\ holding' \subseteq {"first", "second"}
        /\ "first" \in holding' => "first" \in holding
    BY <1>1, <1>2, <2>1, <2>2, SecondMovedTyped
  <2> QED BY <1>1, <2>3
<1>4. PICK b \in Answers : Return(b) /\ b.tag \in {"Err", "OutputFilled"}
  <2>1. pos.consumed \in Nat /\ pos.written + v.written \in Nat /\ call.output \in Nat
    BY <1>1, <1>2, Sizes
  <2>2. /\ Rebased(v.written, failure.kind) \in Answers
        /\ Rebased(v.written, failure.kind).tag = "Err"
    BY <1>1, <2>1, AnswerTyped DEF Rebased, AnswerTags
  <2>3. /\ Answer("OutputFilled", pos.consumed, call.output, NoKind) \in Answers
        /\ Answer("OutputFilled", pos.consumed, call.output, NoKind).tag = "OutputFilled"
    BY <2>1, AnswerTyped DEF AnswerTags
  <2> QED BY <1>2, <2>2, <2>3
<1>5. /\ call' = NoCall /\ call'.op = "idle"
      /\ call' \in [op : {"idle", "process", "flush", "finish"},
                    input : 0..MaxInput, output : 0..MaxOutput]
      /\ pos' \in Counts(call'.input, call'.output) /\ drained' = FALSE
      /\ outcome' \in Answers /\ phase' = phase
      /\ firstFlushed' \in BOOLEAN /\ (firstFlushed' => firstFlushed)
      /\ CallInv'
  BY <1>1, <1>4, Returned
<1>6. /\ failure'.tag \in {"FirstPending", "Latched"} /\ failure'.kind = failure.kind
      /\ failure' \in [tag : {"FirstPending", "Latched"}, kind : ErrorKind]
      /\ failure'.tag = "FirstPending" => v.tag = "OutputFilled"
  BY <1>1, <1>2 DEF Latched, TypeOK, NoFailure
<1>7. TypeOK'
  <2>1. second' \in CodecState /\ inFlight' \in 0..StagingLen
    BY <1>2, <1>3, ChainAssumption DEF CodecState
  <2>2. failure' \in {NoFailure} \cup [tag : {"FirstPending", "Latched"}, kind : ErrorKind]
    BY <1>6
  <2> QED BY <1>1, <1>2, <1>3, <1>5, <2>1, <2>2 DEF TypeOK
<1>8. StagingInv' /\ FlushInv' /\ NothingLostBetween'
  BY <1>1, <1>2, <1>3, <1>5 DEF IInv, StagingInv, FlushInv, NothingLostBetween, Staged
<1>9. CodecsInv' /\ CauseInv' /\ FirstErrorWins' /\ CodecsNeverMisused'
  BY <1>1, <1>2, <1>5, <1>6
     DEF IInv, CodecsInv, CauseInv, FirstErrorWins, CodecsNeverMisused
<1> QED BY <1>5, <1>7, <1>8, <1>9 DEF IInv

\* A pass that returns because it has progressed.
LEMMA ReturnProgressInv == IInv /\ ReturnProgress => IInv'
<1> SUFFICES ASSUME IInv, ReturnProgress PROVE IInv'
  OBVIOUS
<1>1. TypeOK /\ UNCHANGED <<failure, firstFinished, stage, history>>
  BY DEF IInv, ReturnProgress
<1>2. PICK b \in Answers : Return(b) /\ b.tag \in {"InputConsumed", "OutputFilled"}
  <2>1. /\ pos.consumed \in Nat /\ pos.written \in Nat
        /\ call.input \in Nat /\ call.output \in Nat
    BY <1>1, Sizes
  <2>2. /\ Answer("InputConsumed", call.input, pos.written, NoKind) \in Answers
        /\ Answer("InputConsumed", call.input, pos.written, NoKind).tag = "InputConsumed"
        /\ Answer("OutputFilled", pos.consumed, call.output, NoKind) \in Answers
        /\ Answer("OutputFilled", pos.consumed, call.output, NoKind).tag = "OutputFilled"
    BY <2>1, AnswerTyped DEF AnswerTags
  <2> QED BY <2>2 DEF ReturnProgress
<1>3. /\ call' = NoCall /\ call'.op = "idle"
      /\ call' \in [op : {"idle", "process", "flush", "finish"},
                    input : 0..MaxInput, output : 0..MaxOutput]
      /\ pos' \in Counts(call'.input, call'.output) /\ drained' = FALSE
      /\ outcome' \in Answers /\ phase' = phase
      /\ firstFlushed' \in BOOLEAN /\ (firstFlushed' => firstFlushed)
      /\ CallInv'
  BY <1>1, <1>2, Returned
<1>4. TypeOK'
  BY <1>1, <1>3 DEF TypeOK, history
<1>5. StagingInv' /\ FlushInv' /\ NothingLostBetween'
  BY <1>1, <1>3 DEF IInv, StagingInv, FlushInv, NothingLostBetween, Staged, history
<1>6. CodecsInv' /\ CauseInv' /\ FirstErrorWins' /\ CodecsNeverMisused'
  BY <1>1, <1>3
     DEF IInv, CodecsInv, CauseInv, FirstErrorWins, CodecsNeverMisused, Staged, history
<1> QED BY <1>3, <1>4, <1>5, <1>6 DEF IInv

\* In a pass that goes on past staging nothing is staged, and no error waits.
LEMMA PastStaging ==
  ASSUME IInv, Settled, ~Due, Staged = 0
  PROVE  failure = NoFailure /\ stage = [start |-> 0, end |-> 0] /\ inFlight = 0 /\ cause = NoKind
BY FailureTyped
   DEF IInv, Settled, Running, Due, StagingInv, NothingLostBetween, CauseInv

\* What becomes of `second` when it answers a drain.
SecondAfterDrain(tag) ==
  IF tag = "Err" THEN "failed"
  ELSE IF call.op = "flush" THEN "live"
  ELSE IF tag = "Done" THEN "done" ELSE "finishing"

\* One answer of `second` to flush or finish.
LEMMA DrainSecondMoves ==
  ASSUME IInv, DrainSecond
  PROVE  \E v \in Answers :
           /\ v.tag \in {"Done", "OutputFilled", "Err"}
           /\ Sound(v) /\ v.written \in 0..Room /\ TagHonest(v, 0, Room)
           /\ second' = SecondAfterDrain(v.tag)
           /\ SecondMoved(0, v.written, v.tag = "Done")
           /\ cause' = Blame(v)
           /\ IF v.tag = "Err"
              THEN failure' = Latched(v.kind) /\ Return(Rebased(v.written, v.kind))
              ELSE /\ UNCHANGED failure
                   /\ Return(Answer(v.tag, 0, pos.written + v.written, NoKind))
           /\ UNCHANGED <<firstFinished, stage, first, mid>>
<1>1. Room \in Nat
  BY Sizes DEF IInv
<1>2. failure.tag = "None" /\ Staged = 0
  BY PastStaging DEF DrainSecond, SecondTurn, NoFailure
<1>3. IF call.op = "flush" THEN second = "live" ELSE second \in {"live", "finishing"}
  BY <1>2 DEF DrainSecond, SecondTurn, Settled, Running, IInv, CodecsInv, TypeOK, NoCall, CallInv
<1>4. PICK a \in DrainAnswers(Room) :
         LET v == Validated(a, 0, Room) IN
           /\ second' = IF call.op = "flush" THEN AfterFlush(second, v) ELSE AfterFinish(second, v)
           /\ SecondMoved(0, v.written, v.tag = "Done")
           /\ cause' = Blame(v)
           /\ IF v.tag = "Err"
              THEN failure' = Latched(v.kind) /\ Return(Rebased(v.written, v.kind))
              ELSE /\ UNCHANGED failure
                   /\ Return(Answer(v.tag, 0, pos.written + v.written, NoKind))
  BY DEF DrainSecond
<1> DEFINE v == Validated(a, 0, Room)
<1>5. /\ Sound(v) /\ v.written \in 0..Room
      /\ v.tag \in {"Done", "OutputFilled", "Err"} /\ TagHonest(v, 0, Room)
  BY <1>1, DrainAnswer
<1> HIDE DEF v
<1>6. SecondAfterDrain(v.tag) =
        IF call.op = "flush" THEN AfterFlush(second, v) ELSE AfterFinish(second, v)
  <2>1. CASE v.tag = "Err"
    BY <1>3, <2>1 DEF AfterFlush, AfterFinish, SecondAfterDrain
  <2>2. CASE v.tag = "Done"
    BY <1>3, <2>2 DEF AfterFlush, AfterFinish, SecondAfterDrain
  <2>3. CASE v.tag = "OutputFilled"
    BY <1>3, <2>3 DEF AfterFlush, AfterFinish, SecondAfterDrain
  <2> QED BY <1>5, <2>1, <2>2, <2>3
<1>7. v \in Answers
  BY <1>5 DEF Sound
<1> QED BY <1>4, <1>5, <1>6, <1>7 DEF DrainSecond, v

\* A pass that flushes or finishes the second codec.
LEMMA DrainSecondInv == IInv /\ DrainSecond => IInv'
<1> SUFFICES ASSUME IInv, DrainSecond PROVE IInv'
  OBVIOUS
<1>1. /\ TypeOK /\ call # NoCall /\ Staged = 0 /\ failure = NoFailure /\ cause = NoKind
      /\ FirstDone /\ call.op \in {"flush", "finish"}
      /\ call.op = "flush" => phase = "Open"
      /\ call.op = "finish" => phase = "Finishing"
  BY PastStaging DEF DrainSecond, Settled, Running, SecondTurn, IInv, CallInv, TypeOK, FinishPhase
<1>2. PICK v \in Answers :
           /\ v.tag \in {"Done", "OutputFilled", "Err"}
           /\ Sound(v) /\ v.written \in 0..Room /\ TagHonest(v, 0, Room)
           /\ second' = SecondAfterDrain(v.tag)
           /\ SecondMoved(0, v.written, v.tag = "Done")
           /\ cause' = Blame(v)
           /\ IF v.tag = "Err"
              THEN failure' = Latched(v.kind) /\ Return(Rebased(v.written, v.kind))
              ELSE /\ UNCHANGED failure
                   /\ Return(Answer(v.tag, 0, pos.written + v.written, NoKind))
           /\ UNCHANGED <<firstFinished, stage, first, mid>>
  BY DrainSecondMoves
<1>3. /\ inFlight' = 0 /\ moved' \in Counts(MaxInput, MaxOutput)
      /\ holding' \subseteq {"first", "second"} /\ ("first" \in holding' => "first" \in holding)
  <2>1. (v.tag = "Done") \in BOOLEAN /\ 0 \in 0..Staged
    BY <1>1
  <2>2. SecondMoved(0, v.written, v.tag = "Done")
    BY <1>2
  <2>3. /\ inFlight' = Staged - 0 /\ moved' \in Counts(MaxInput, MaxOutput)
        /\ holding' \subseteq {"first", "second"}
        /\ "first" \in holding' => "first" \in holding
    BY <1>1, <1>2, <2>1, <2>2, SecondMovedTyped
  <2> QED BY <1>1, <2>3
<1>4. PICK b \in Answers : Return(b) /\ b.tag = v.tag
  <2>1. pos.consumed \in Nat /\ pos.written + v.written \in Nat
    BY <1>1, <1>2, Sizes
  <2>2. CASE v.tag = "Err"
    <3>1. Rebased(v.written, v.kind) \in Answers /\ Rebased(v.written, v.kind).tag = "Err"
      BY <1>2, <2>1, <2>2, AnswerTyped DEF Rebased, AnswerTags, Sound
    <3> QED BY <1>2, <2>2, <3>1
  <2>3. CASE v.tag # "Err"
    <3>1. /\ Answer(v.tag, 0, pos.written + v.written, NoKind) \in Answers
          /\ Answer(v.tag, 0, pos.written + v.written, NoKind).tag = v.tag
      <4>1. v.tag \in AnswerTags /\ 0 \in Nat /\ NoKind \in ErrorKind \cup {NoKind}
        BY <1>2 DEF AnswerTags
      <4> QED BY <2>1, <4>1, AnswerTyped
    <3> QED BY <1>2, <2>3, <3>1
  <2> QED BY <2>2, <2>3
<1>5. /\ call' = NoCall /\ call'.op = "idle"
      /\ call' \in [op : {"idle", "process", "flush", "finish"},
                    input : 0..MaxInput, output : 0..MaxOutput]
      /\ pos' \in Counts(call'.input, call'.output) /\ drained' = FALSE
      /\ outcome' \in Answers /\ phase' \in FinishPhase
      /\ firstFlushed' \in BOOLEAN /\ (firstFlushed' => firstFlushed)
      /\ CallInv'
  BY <1>1, <1>4, Returned
<1>6. phase' = IF call.op = "finish" /\ v.tag = "Done" THEN "Finished" ELSE phase
  BY <1>4 DEF Return
<1>7. /\ failure' = IF v.tag = "Err" THEN Latched(v.kind) ELSE NoFailure
      /\ cause' = IF v.tag = "Err" THEN v.kind ELSE NoKind
      /\ v.tag = "Err" => v.kind \in ErrorKind
  BY <1>1, <1>2 DEF Blame, Sound
<1>8. TypeOK'
  <2>1. second' \in CodecState /\ inFlight' \in 0..StagingLen
    BY <1>2, <1>3, ChainAssumption DEF CodecState, SecondAfterDrain
  <2>2. failure' \in {NoFailure} \cup [tag : {"FirstPending", "Latched"}, kind : ErrorKind]
    BY <1>7 DEF Latched
  <2>3. cause' \in ErrorKind \cup {NoKind}
    BY <1>7
  <2> QED BY <1>1, <1>2, <1>3, <1>5, <2>1, <2>2, <2>3 DEF TypeOK
<1>9. StagingInv' /\ FlushInv' /\ NothingLostBetween'
  BY <1>1, <1>2, <1>3, <1>5 DEF IInv, StagingInv, FlushInv, NothingLostBetween, Staged
<1>10. CauseInv' /\ FirstErrorWins' /\ CodecsNeverMisused'
  BY <1>1, <1>2, <1>7
     DEF IInv, CauseInv, FirstErrorWins, CodecsNeverMisused, Latched, NoFailure,
         SecondAfterDrain
<1>11. CodecsInv'
  <2>1. CASE v.tag = "Err"
    BY <1>1, <1>6, <1>7, <2>1 DEF CodecsInv, Latched
  <2>2. CASE v.tag # "Err"
    <3>1. Staged' = 0
      BY <1>1, <1>2 DEF Staged
    <3>2. failure'.tag = "None" /\ failure.tag = "None"
      BY <1>1, <1>7, <2>2 DEF NoFailure
    <3>3. call.op = "finish" => firstFinished
      BY <1>1 DEF FirstDone
    <3>4. CASE call.op = "flush"
      BY <1>1, <1>2, <1>6, <2>2, <3>1, <3>2, <3>4 DEF IInv, CodecsInv, SecondAfterDrain
    <3>5. CASE call.op = "finish"
      BY <1>1, <1>2, <1>6, <2>2, <3>1, <3>2, <3>3, <3>5 DEF IInv, CodecsInv, SecondAfterDrain
    <3> QED BY <1>1, <3>4, <3>5
  <2> QED BY <2>1, <2>2
<1> QED BY <1>5, <1>8, <1>9, <1>10, <1>11 DEF IInv

-----------------------------------------------------------------------------
(* The pass that calls `first`.                                            *)

\* When `first` is called, staging is empty and rewound, no error waits, and
\* neither codec has been through its finish.
LEMMA FirstTurn ==
  ASSUME IInv, RunFirst
  PROVE  /\ call # NoCall /\ Staged = 0 /\ stage = [start |-> 0, end |-> 0] /\ inFlight = 0
         /\ failure = NoFailure /\ cause = NoKind
         /\ call.op \in {"process", "flush", "finish"}
         /\ call.op # "finish" => phase = "Open" /\ first = "live"
         /\ call.op = "finish" => phase = "Finishing" /\ first \in {"live", "finishing"}
         /\ call.op = "flush" => ~firstFlushed
         /\ call.op # "process" => Left = 0
         /\ second = "live" /\ ~firstFinished
<1>1. /\ call # NoCall /\ failure.tag # "Latched"
      /\ IF call.op = "finish" THEN phase # "Finished" ELSE phase = "Open"
      /\ Settled /\ ~Due /\ ~SecondTurn /\ ~OutputFull
  BY DEF RunFirst, Settled, Running
<1>2. Staged = 0
  BY <1>1, Sizes DEF OutputFull, Settled, IInv, StagingInv
<1>3. failure = NoFailure /\ stage = [start |-> 0, end |-> 0] /\ inFlight = 0 /\ cause = NoKind
  BY <1>1, <1>2, PastStaging
<1>4. call.op \in {"process", "flush", "finish"}
  BY <1>1 DEF IInv, CallInv, TypeOK
<1>5. call.op # "process" => ~FirstDone
  BY <1>1, <1>2 DEF SecondTurn
<1>6. call.op # "process" => Left = 0
  BY <1>1, <1>4, Sizes DEF IInv, CallInv, Left
<1>7. phase = "Open" => first = "live" /\ ~firstFinished
  BY <1>3 DEF IInv, CodecsInv, NoFailure
<1>8. call.op = "finish" => phase = "Finishing" /\ first \in {"live", "finishing"} /\ ~firstFinished
  BY <1>1, <1>3, <1>5 DEF IInv, CodecsInv, CallInv, TypeOK, FinishPhase, NoFailure, FirstDone
<1>9. ~firstFinished
  BY <1>1, <1>7, <1>8
<1>10. second = "live"
  BY <1>3, <1>9 DEF IInv, CodecsInv, NoFailure
<1> QED BY <1>1, <1>2, <1>3, <1>4, <1>5, <1>6, <1>7, <1>8, <1>9, <1>10 DEF FirstDone

\* What becomes of `first` when it answers.
FirstAfter(tag) ==
  IF tag = "Err" THEN "failed"
  ELSE IF call.op # "finish" THEN "live"
  ELSE IF tag = "Done" THEN "done" ELSE "finishing"

\* One answer of `first`.
LEMMA RunFirstMoves ==
  ASSUME IInv, RunFirst
  PROVE  \E v \in Answers :
           /\ v.tag \in {"InputConsumed", "OutputFilled", "Done", "Err"}
           /\ v.tag = "Done" => call.op # "process"
           /\ Sound(v) /\ v.consumed \in 0..Left /\ v.written \in 0..StagingLen
           /\ mid + v.written <= MaxMid
           /\ stage' = StageOf(v)
           /\ failure' = IF v.tag = "Err" THEN FirstPending(v.kind) ELSE failure
           /\ firstFlushed' = (firstFlushed \/ (call.op = "flush" /\ v.tag = "Done"))
           /\ firstFinished' = (firstFinished \/ (call.op = "finish" /\ v.tag = "Done"))
           /\ pos' = [pos EXCEPT !.consumed = @ + v.consumed]
           /\ first' = FirstAfter(v.tag)
           /\ moved' = [moved EXCEPT !.consumed = @ + v.consumed]
           /\ mid' = mid + v.written
           /\ inFlight' = inFlight + v.written
           /\ holding' = StillHolding("first", v.consumed, v.tag = "Done")
           /\ cause' = Blame(v)
           /\ drained' = FALSE
           /\ UNCHANGED <<phase, call, outcome, second>>
<1>1. Left \in Nat /\ StagingLen \in Nat
  BY Sizes DEF IInv
<1>2. /\ call.op \in {"process", "flush", "finish"}
      /\ call.op # "finish" => first = "live"
      /\ call.op = "finish" => first \in {"live", "finishing"}
      /\ call.op # "process" => Left = 0
  BY FirstTurn
<1>3. PICK a \in FirstAnswers :
         LET v == Validated(a, Left, StagingLen) IN
           /\ mid + v.written <= MaxMid
           /\ stage' = StageOf(v)
           /\ failure' = IF v.tag = "Err" THEN FirstPending(v.kind) ELSE failure
           /\ firstFlushed' = (firstFlushed \/ (call.op = "flush" /\ v.tag = "Done"))
           /\ firstFinished' = (firstFinished \/ (call.op = "finish" /\ v.tag = "Done"))
           /\ pos' = [pos EXCEPT !.consumed = @ + v.consumed]
           /\ first' = AfterFirst(v)
           /\ moved' = [moved EXCEPT !.consumed = @ + v.consumed]
           /\ mid' = mid + v.written
           /\ inFlight' = inFlight + v.written
           /\ holding' = StillHolding("first", v.consumed, v.tag = "Done")
           /\ cause' = Blame(v)
  BY DEF RunFirst
<1> DEFINE v == Validated(a, Left, StagingLen)
<1>4. /\ Sound(v) /\ v.consumed \in 0..Left /\ v.written \in 0..StagingLen
      /\ v.tag \in {"InputConsumed", "OutputFilled", "Done", "Err"}
      /\ v.tag = "Done" => call.op # "process"
      /\ v.tag = "InputConsumed" => call.op = "process"
  <2>1. CASE call.op = "process"
    <3>1. a \in ProcessAnswers(Left, StagingLen)
      BY <2>1 DEF FirstAnswers
    <3>2. /\ Sound(v) /\ v.consumed \in 0..Left /\ v.written \in 0..StagingLen
          /\ v.tag \in {"InputConsumed", "OutputFilled", "Err"}
      BY <1>1, <3>1, ProcessAnswer
    <3> QED BY <2>1, <3>2
  <2>2. CASE call.op # "process"
    <3>1. a \in DrainAnswers(StagingLen) /\ Left = 0
      BY <1>2, <2>2 DEF FirstAnswers
    <3>2. v = Validated(a, 0, StagingLen)
      BY <3>1
    <3>3. /\ Sound(v) /\ v.consumed = 0 /\ v.written \in 0..StagingLen
          /\ v.tag \in {"Done", "OutputFilled", "Err"}
      BY <1>1, <3>1, <3>2, DrainAnswer
    <3> QED BY <2>2, <3>1, <3>3
  <2> QED BY <2>1, <2>2
<1> HIDE DEF v
<1>5. AfterFirst(v) = FirstAfter(v.tag)
  <2>1. CASE call.op = "process"
    BY <1>2, <1>4, <2>1 DEF AfterFirst, FirstAfter, AfterProcess
  <2>2. CASE call.op = "flush"
    BY <1>2, <1>4, <2>2 DEF AfterFirst, FirstAfter, AfterFlush
  <2>3. CASE call.op = "finish"
    <3>1. AfterFirst(v) = AfterFinish(first, v) /\ first \in {"live", "finishing"}
      BY <1>2, <2>3 DEF AfterFirst
    <3>2. CASE v.tag = "Err"
      BY <2>3, <3>1, <3>2 DEF FirstAfter, AfterFinish
    <3>3. CASE v.tag = "Done"
      BY <2>3, <3>1, <3>3 DEF FirstAfter, AfterFinish
    <3>4. CASE v.tag = "OutputFilled"
      BY <2>3, <3>1, <3>4 DEF FirstAfter, AfterFinish
    <3> QED BY <1>4, <2>3, <3>2, <3>3, <3>4
  <2> QED BY <1>2, <2>1, <2>2, <2>3
<1>6. v \in Answers
  BY <1>4 DEF Sound
<1> QED BY <1>3, <1>4, <1>5, <1>6 DEF RunFirst, v

\* A pass that runs the first codec.
LEMMA RunFirstInv == IInv /\ RunFirst => IInv'
<1> SUFFICES ASSUME IInv, RunFirst PROVE IInv'
  OBVIOUS
<1>1. /\ call # NoCall /\ Staged = 0 /\ stage = [start |-> 0, end |-> 0] /\ inFlight = 0
      /\ failure = NoFailure /\ cause = NoKind
      /\ call.op \in {"process", "flush", "finish"}
      /\ call.op # "finish" => phase = "Open" /\ first = "live"
      /\ call.op = "finish" => phase = "Finishing" /\ first \in {"live", "finishing"}
      /\ call.op # "process" => Left = 0
      /\ second = "live" /\ ~firstFinished
  BY FirstTurn
<1>2. PICK v \in Answers :
           /\ v.tag \in {"InputConsumed", "OutputFilled", "Done", "Err"}
           /\ v.tag = "Done" => call.op # "process"
           /\ Sound(v) /\ v.consumed \in 0..Left /\ v.written \in 0..StagingLen
           /\ mid + v.written <= MaxMid
           /\ stage' = StageOf(v)
           /\ failure' = IF v.tag = "Err" THEN FirstPending(v.kind) ELSE failure
           /\ firstFlushed' = (firstFlushed \/ (call.op = "flush" /\ v.tag = "Done"))
           /\ firstFinished' = (firstFinished \/ (call.op = "finish" /\ v.tag = "Done"))
           /\ pos' = [pos EXCEPT !.consumed = @ + v.consumed]
           /\ first' = FirstAfter(v.tag)
           /\ moved' = [moved EXCEPT !.consumed = @ + v.consumed]
           /\ mid' = mid + v.written
           /\ inFlight' = inFlight + v.written
           /\ holding' = StillHolding("first", v.consumed, v.tag = "Done")
           /\ cause' = Blame(v)
           /\ drained' = FALSE
           /\ UNCHANGED <<phase, call, outcome, second>>
  BY RunFirstMoves
<1>3. TypeOK
  BY DEF IInv
<1>4. /\ stage' = [start |-> 0, end |-> v.written] /\ Staged' = v.written
      /\ inFlight' = v.written /\ v.written \in Nat
  BY <1>1, <1>2, <1>3, Sizes DEF StageOf, Staged
<1>5. /\ pos' = [consumed |-> pos.consumed + v.consumed, written |-> pos.written]
      /\ pos' \in Counts(call.input, call.output) /\ moved' = pos'
      /\ moved' \in Counts(MaxInput, MaxOutput)
  <2>1. pos = moved
    BY <1>1 DEF IInv, CallInv
  <2>2. /\ pos' = [consumed |-> pos.consumed + v.consumed, written |-> pos.written]
        /\ moved' = pos'
    BY <1>2, <1>3, <2>1, Sizes
  <2>3. /\ pos.consumed + v.consumed \in 0..call.input /\ pos.written \in 0..call.output
        /\ call.input \in Nat /\ call.input <= MaxInput
        /\ call.output \in Nat /\ call.output <= MaxOutput
    BY <1>2, <1>3, Sizes, ChainAssumption DEF Left
  <2>4. pos.consumed + v.consumed \in 0..MaxInput /\ pos.written \in 0..MaxOutput
    BY <2>3, ChainAssumption
  <2> QED BY <2>2, <2>3, <2>4 DEF Counts
<1>6. /\ failure' = IF v.tag = "Err" THEN FirstPending(v.kind) ELSE NoFailure
      /\ cause' = IF v.tag = "Err" THEN v.kind ELSE NoKind
      /\ v.tag = "Err" => v.kind \in ErrorKind
  BY <1>1, <1>2 DEF Blame, Sound
<1>7. /\ holding' \subseteq {"first", "second"}
      /\ v.tag = "Done" => "first" \notin holding'
      /\ call.op # "process" /\ "first" \in holding' => "first" \in holding
  BY <1>1, <1>2, <1>3 DEF StillHolding, TypeOK
<1>8. TypeOK'
  <2>1. stage' \in [start : 0..StagingLen, end : 0..StagingLen] /\ stage'.start <= stage'.end
    BY <1>2, <1>4, ChainAssumption
  <2>2. first' \in CodecState /\ mid' \in 0..MaxMid
    BY <1>2, <1>3, <1>4, ChainAssumption DEF CodecState, FirstAfter, TypeOK
  <2>3. failure' \in {NoFailure} \cup [tag : {"FirstPending", "Latched"}, kind : ErrorKind]
    BY <1>6 DEF FirstPending
  <2>4. cause' \in ErrorKind \cup {NoKind} /\ inFlight' \in 0..StagingLen
    BY <1>2, <1>4, <1>6
  <2>5. firstFlushed' \in BOOLEAN /\ firstFinished' \in BOOLEAN
    BY <1>2
  <2> QED BY <1>2, <1>3, <1>5, <1>7, <2>1, <2>2, <2>3, <2>4, <2>5 DEF TypeOK
<1>9. StagingInv' /\ CallInv' /\ NothingLostBetween'
  <2>1. ~(call.op \in {"process", "flush"} /\ phase # "Open")
    BY <1>1
  <2> QED BY <1>1, <1>2, <1>4, <1>5, <2>1
       DEF IInv, StagingInv, CallInv, NothingLostBetween
<1>10. CauseInv' /\ FirstErrorWins' /\ CodecsNeverMisused'
  BY <1>1, <1>2, <1>6
     DEF CauseInv, FirstErrorWins, CodecsNeverMisused, FirstPending, NoFailure, FirstAfter
<1>11. CodecsInv'
  <2>1. CASE v.tag = "Err"
    BY <1>1, <1>2, <1>6, <2>1 DEF IInv, CodecsInv, FirstPending, FirstAfter
  <2>2. CASE v.tag # "Err"
    BY <1>1, <1>2, <1>6, <2>2 DEF IInv, CodecsInv, NoFailure, FirstAfter
  <2> QED BY <2>1, <2>2
<1>12. FlushInv'
  <2>1. CASE call.op = "process"
    BY <1>1, <1>2, <2>1 DEF IInv, FlushInv
  <2>2. CASE call.op # "process"
    BY <1>2, <1>7, <2>2 DEF IInv, FlushInv
  <2> QED BY <2>1, <2>2
<1> QED BY <1>8, <1>9, <1>10, <1>11, <1>12 DEF IInv

-----------------------------------------------------------------------------
(* IInv is inductive.                                                      *)

\* IInv is inductive.
LEMMA StepInv == IInv /\ [Next]_vars => IInv'
<1> SUFFICES ASSUME IInv, [Next]_vars PROVE IInv'
  OBVIOUS
<1>1. CASE UNCHANGED vars
  BY <1>1
     DEF vars, ownVars, callVars, history, IInv, TypeOK, CodecsNeverMisused, NothingLostBetween,
         FirstErrorWins, StagingInv, CallInv, CodecsInv, FlushInv, CauseInv, Staged, Room
<1> QED BY <1>1, CallerInv, QuietReturnInv, DrainStagingInv, DeliverErrorInv,
           ReturnProgressInv, DrainSecondInv, RunFirstInv DEF Next, Pass

\* Spec implies it.
LEMMA SpecInv == Spec => []IInv
<1> QED BY InitInv, StepInv, PTL DEF Spec

-----------------------------------------------------------------------------
(* Results: what holds in every state.                                     *)

\* Every state of the chain is typed; in particular its cursors stay inside
\* staging and inside the buffers of the call.
THEOREM ChainTypeOK == Spec => []TypeOK
<1>1. IInv => TypeOK
  BY DEF IInv
<1> QED BY <1>1, SpecInv, PTL

\* Whatever the caller does, the chain never calls a codec after its error,
\* out of order with its finish, or after it reported Done.
THEOREM ChainNeverMisusesCodecs == Spec => []CodecsNeverMisused
<1>1. IInv => CodecsNeverMisused
  BY DEF IInv
<1> QED BY <1>1, SpecInv, PTL

\* The bytes between the two codecs are exactly the staged ones.
THEOREM ChainLosesNothing == Spec => []NothingLostBetween
<1>1. IInv => NothingLostBetween
  BY DEF IInv
<1> QED BY <1>1, SpecInv, PTL

\* The kept error is the first in time.
THEOREM ChainKeepsFirstError == Spec => []FirstErrorWins
<1>1. IInv => FirstErrorWins
  BY DEF IInv
<1> QED BY <1>1, SpecInv, PTL

-----------------------------------------------------------------------------
(* Results: what a step may never do.                                      *)

\* Steps that leave the kept error and both codecs alone.
Quiet == Caller \/ Refused \/ FinishAgain \/ RepeatError \/ ReturnProgress

\* Passes that return without a codec call leave codecs and counts alone.
LEMMA QuietLeavesCodecs ==
  ASSUME Quiet
  PROVE  UNCHANGED <<failure, first, second, inFlight, holding, cause, stage>>
BY DEF Quiet, Caller, Call, Refused, FinishAgain, RepeatError, ReturnProgress, ownVars, history

\* An error of `first` is reported after its bytes, or `second` failed on them.
THEOREM ChainErrorWaits == Spec => ErrorWaitsForBytes
<1>1. ASSUME IInv, Next, failure.tag = "FirstPending", failure'.tag = "Latched"
      PROVE  second' = "failed" \/ (inFlight' = 0 /\ "second" \notin holding')
  <2>1. ~Quiet
    BY <1>1, QuietLeavesCodecs
  <2>2. ~RunFirst
    BY <1>1, FirstTurn DEF NoFailure
  <2>3. CASE DrainStaging
    BY <1>1, <2>3, DrainStagingMoves
  <2>4. CASE DeliverError
    <3>1. PICK v \in Answers :
             /\ v.tag \in {"Done", "OutputFilled", "Err"}
             /\ second' = (IF v.tag = "Err" THEN "failed" ELSE "live")
             /\ SecondMoved(0, v.written, v.tag = "Done")
             /\ v.tag = "OutputFilled" => UNCHANGED failure
      BY <1>1, <2>4, DeliverErrorMoves
    <3>2. inFlight' = 0
      BY <1>1, <2>4, <3>1 DEF SecondMoved, DeliverError, Due, IInv, NothingLostBetween
    <3>3. v.tag = "Done" => "second" \notin holding'
      BY <3>1 DEF SecondMoved, StillHolding
    <3> QED BY <1>1, <3>1, <3>2, <3>3
  <2>5. ~DrainSecond
    BY <1>1, PastStaging DEF DrainSecond, SecondTurn, NoFailure
  <2> QED BY <1>1, <2>1, <2>2, <2>3, <2>4, <2>5 DEF Next, Pass, Quiet
<1>2. IInv /\ [Next]_vars =>
        [failure.tag = "FirstPending" /\ failure'.tag = "Latched" =>
           second' = "failed" \/ (inFlight' = 0 /\ "second" \notin holding')]_vars
  BY <1>1
<1> QED BY <1>2, SpecInv, PTL DEF Spec, ErrorWaitsForBytes

\* A trailer of `second` never overtakes data of `first`.
THEOREM ChainSecondFinishesLast == Spec => SecondFinishesLast
<1>1. ASSUME IInv, Next, second' # second, second' \in {"finishing", "done"}
      PROVE  first = "done" /\ inFlight = 0
  <2>1. ~Quiet /\ ~RunFirst
    BY <1>1, QuietLeavesCodecs DEF RunFirst
  <2>2. ~DrainStaging
    BY <1>1, DrainStagingMoves
  <2>3. ~DeliverError
    BY <1>1, DeliverErrorMoves
  <2>4. DrainSecond
    BY <1>1, <2>1, <2>2, <2>3 DEF Next, Pass, Quiet
  <2>5. second' = "failed" \/ second' = "live" \/ call.op # "flush"
    BY <1>1, <2>4, DrainSecondMoves DEF SecondAfterDrain
  <2>6. FirstDone /\ Staged = 0 /\ failure = NoFailure /\ inFlight = 0
    BY <1>1, <2>4, PastStaging DEF DrainSecond, SecondTurn
  <2>7. firstFinished
    BY <1>1, <2>5, <2>6 DEF FirstDone
  <2> QED BY <1>1, <2>6, <2>7 DEF IInv, CodecsInv, NoFailure
<1>2. IInv /\ [Next]_vars =>
        [second' # second /\ second' \in {"finishing", "done"} =>
           first = "done" /\ inFlight = 0]_vars
  BY <1>1
<1> QED BY <1>2, SpecInv, PTL DEF Spec, SecondFinishesLast

\* What a call returns is the answer of its last step.
LEMMA ReturnsTag ==
  ASSUME NEW t, NEW c, NEW w, NEW k, Return(Answer(t, c, w, k))
  PROVE  outcome'.tag = t
<1>1. outcome' = [tag |-> t, consumed |-> c, written |-> w, kind |-> k]
  BY DEF Return, Answer
<1> QED BY <1>1

\* A flush that reports Done leaves nothing in either codec or between them.
THEOREM ChainFlushMeansFlushed == Spec => FlushDoneMeansFlushed
<1>1. ASSUME IInv, Next, call.op = "flush", call' = NoCall, outcome'.tag = "Done"
      PROVE  inFlight' = 0 /\ holding' = {}
  <2>1. call # NoCall
    BY <1>1 DEF NoCall, CallOf
  <2>2. ~Caller /\ ~FinishAgain /\ ~RunFirst
    BY <1>1, <2>1 DEF Caller, Call, FinishAgain, RunFirst
  <2>3. ~RepeatError /\ ~ReturnProgress
    BY <1>1, ReturnsTag DEF RepeatError, ReturnProgress
  <2>4. ~Refused
    BY <1>1 DEF Refused, Answer
  <2>5. ~DrainStaging
    <3> SUFFICES ASSUME DrainStaging PROVE FALSE
      OBVIOUS
    <3>1. \E w, k : Return(Rebased(w, k))
      BY <1>1, <2>1, DrainStagingMoves
    <3> QED BY <1>1, <3>1, ReturnsTag DEF Rebased
  <2>6. ~DeliverError
    <3> SUFFICES ASSUME DeliverError PROVE FALSE
      OBVIOUS
    <3>1. \/ \E w, k : Return(Rebased(w, k))
          \/ Return(Answer("OutputFilled", pos.consumed, call.output, NoKind))
      BY <1>1, DeliverErrorMoves
    <3> QED BY <1>1, <3>1, ReturnsTag DEF Rebased
  <2>7. DrainSecond
    BY <1>1, <2>2, <2>3, <2>4, <2>5, <2>6 DEF Next, Pass
  <2>8. PICK v \in Answers :
           /\ SecondMoved(0, v.written, v.tag = "Done")
           /\ \/ v.tag = "Err" /\ Return(Rebased(v.written, v.kind))
              \/ Return(Answer(v.tag, 0, pos.written + v.written, NoKind))
    BY <1>1, <2>7, DrainSecondMoves
  <2>9. v.tag = "Done"
    BY <1>1, <2>8, ReturnsTag DEF Rebased
  <2>10. FirstDone /\ Staged = 0 /\ inFlight = 0
    BY <1>1, <2>7, PastStaging DEF DrainSecond, SecondTurn
  <2>11. "first" \notin holding /\ holding \subseteq {"first", "second"}
    BY <1>1, <2>10 DEF FirstDone, IInv, FlushInv, TypeOK
  <2> QED BY <2>8, <2>9, <2>10, <2>11 DEF SecondMoved, StillHolding
<1>2. IInv /\ [Next]_vars =>
        [call.op = "flush" /\ call' = NoCall /\ outcome'.tag = "Done" =>
           inFlight' = 0 /\ holding' = {}]_vars
  BY <1>1
<1> QED BY <1>2, SpecInv, PTL DEF Spec, FlushDoneMeansFlushed

-----------------------------------------------------------------------------
(* Chain implements LatchingCodec.                                         *)

\* The two modules name the same idle call and the same answers.
LEMMA SameVocabulary ==
  /\ Promise!NoCall = NoCall /\ Promise!NoKind = NoKind /\ Promise!ErrorKind = ErrorKind
  /\ Promise!Nothing = Nothing /\ Promise!AnswerTags = AnswerTags
  /\ Promise!NoAnswer = NoAnswer
  /\ \A t, c, w, k : Promise!Answer(t, c, w, k) = Answer(t, c, w, k)
  /\ \A p : Promise!StartFinish(p) = StartFinish(p)
BY DEF Promise!NoCall, NoCall, CallOf, Promise!NoKind, NoKind, Promise!ErrorKind, ErrorKind,
       Promise!Nothing, Nothing, Promise!AnswerTags, AnswerTags, Promise!NoAnswer, NoAnswer,
       Promise!Answer, Answer, Promise!StartFinish, StartFinish

\* The error the caller gets to hear again.
Repeated == IF failure.tag = "Latched" THEN failure.kind ELSE NoKind

\* The first state is one of LatchingCodec.
LEMMA InitImplements == Init => Promise!Init
BY SameVocabulary DEF Init, Promise!Init, NoFailure

\* A call of the chain is a call of the latching codec.
LEMMA CallImplements == IInv /\ Caller => Promise!Call
<1> SUFFICES ASSUME IInv, NEW op \in {"process", "flush", "finish"},
                    NEW i \in 0..MaxInput, NEW o \in 0..MaxOutput,
                    op # "process" => i = 0, Call(CallOf(op, i, o))
             PROVE  Promise!Call
  BY DEF Caller
<1>1. call' = [op |-> op, input |-> i, output |-> o] /\ call = NoCall /\ i \in Nat /\ o \in Nat
  BY ChainAssumption DEF Call, CallOf
<1>2. /\ call' \in [op : {"process", "flush", "finish"}, input : Nat, output : Nat]
      /\ call'.op # "process" => call'.input = 0
  BY <1>1
<1>3. /\ phase' = IF call'.op = "finish" THEN StartFinish(phase) ELSE phase
      /\ moved' = Nothing /\ UNCHANGED <<failure, outcome>>
  BY <1>1 DEF Call, CallOf
<1> QED BY <1>1, <1>2, <1>3, SameVocabulary DEF Promise!Call, Promise!Busy

\* Refused, FinishAgain and RepeatError are actions of LatchingCodec.
LEMMA QuietImplements ==
  ASSUME IInv
  PROVE  /\ Refused => Promise!Refuse
         /\ FinishAgain => Promise!DoneAgain
         /\ RepeatError => Promise!RepeatError
<1>1. Refused => Promise!Refuse
  BY SameVocabulary DEF Refused, Promise!Refuse, Promise!Return, ownVars, history
<1>2. FinishAgain => Promise!DoneAgain
  <2>1. Answer("Done", 0, 0, NoKind).tag = "Done"
    BY DEF Answer
  <2> QED BY <2>1, SameVocabulary
       DEF FinishAgain, Promise!DoneAgain, Promise!Return, Return, history
<1>3. RepeatError => Promise!RepeatError
  <2> SUFFICES ASSUME RepeatError PROVE Promise!RepeatError
    OBVIOUS
  <2>1. failure.kind # NoKind
    BY FailureTyped DEF RepeatError, IInv, ErrorKind, NoKind
  <2>2. phase' = phase
    BY DEF RepeatError, Return, Answer
  <2>3. call.op \in {"process", "flush"} => phase = "Open"
    BY DEF RepeatError
  <2>4. Return(Answer("Err", 0, 0, failure.kind))
    BY DEF RepeatError
  <2>5. call' = NoCall /\ outcome' = Answer("Err", 0, 0, failure.kind)
    BY <2>4 DEF Return
  <2> QED BY <2>1, <2>2, <2>3, <2>5, SameVocabulary
       DEF RepeatError, Promise!RepeatError, Promise!Return, Promise!Busy, history
<1> QED BY <1>1, <1>2, <1>3

\* The chain works only where the abstract codec does.
LEMMA WorkingImplements ==
  ASSUME IInv, Running
  PROVE  Promise!Working
<1>1. call # NoCall /\ Repeated = NoKind
  BY DEF Running, Repeated
<1>2. IF call.op = "finish" THEN phase = "Finishing" ELSE phase = "Open"
  BY DEF Running, IInv, CallInv, TypeOK, FinishPhase
<1> QED BY <1>1, <1>2, SameVocabulary DEF Promise!Working, Promise!Busy, Repeated

\* A step inside a call is work of the abstract codec.
LEMMA WorkImplements ==
  ASSUME IInv, Running, failure'.tag # "Latched",
         moved' \in [consumed : moved.consumed..call.input, written : moved.written..call.output],
         UNCHANGED <<phase, call, outcome>>
  PROVE  Promise!Work
<1>1. Repeated = NoKind
  BY DEF Running, Repeated
<1> QED BY <1>1, WorkingImplements, SameVocabulary DEF Promise!Work, Promise!Move, Repeated

\* A return reports what was really moved, latches its error, and keeps the
\* promise of its tag.
LEMMA FinishImplements ==
  ASSUME IInv, Running, NEW tag \in AnswerTags \ {"Boundary"},
         NEW k \in ErrorKind \cup {NoKind}, tag = "Err" <=> k # NoKind,
         moved' \in [consumed : moved.consumed..call.input, written : moved.written..call.output],
         tag = "InputConsumed" => call.op = "process" /\ moved'.consumed = call.input,
         tag = "OutputFilled" => moved'.written = call.output,
         tag = "Done" => call.op # "process",
         Return(Answer(tag, moved'.consumed, moved'.written, k)),
         IF tag = "Err" THEN failure' = Latched(k) ELSE failure'.tag # "Latched"
  PROVE  Promise!Finish
<1>1. Repeated' = k
  BY DEF Repeated, Latched
<1>2. Answer(tag, moved'.consumed, moved'.written, k).tag = tag
  BY DEF Answer
<1>3. /\ call' = NoCall /\ outcome' = Answer(tag, moved'.consumed, moved'.written, k)
      /\ phase' = IF tag = "Done" /\ call.op = "finish" THEN "Finished" ELSE phase
  BY <1>2 DEF Return
<1> QED BY <1>1, <1>3, WorkingImplements, SameVocabulary
     DEF Promise!Finish, Promise!Move, Promise!Return, Repeated

\* A call of `second` that writes w bytes moves only forward, inside the output.
LEMMA SecondMovesForward ==
  ASSUME IInv, Running, NEW c, NEW w \in 0..Room, NEW done, SecondMoved(c, w, done)
  PROVE  /\ moved' = [consumed |-> pos.consumed, written |-> pos.written + w]
         /\ moved' \in [consumed : moved.consumed..call.input,
                        written : moved.written..call.output]
<1>1. pos = moved
  BY DEF Running, IInv, CallInv
<1>2. moved' = [consumed |-> pos.consumed, written |-> pos.written + w]
  BY <1>1, Sizes DEF SecondMoved, IInv
<1>3. pos.consumed \in moved.consumed..call.input /\ pos.written + w \in moved.written..call.output
  BY <1>1, Sizes DEF IInv, Room
<1> QED BY <1>2, <1>3

\* Draining the staging buffer is work inside a call, or ends it with an error.
LEMMA DrainStagingImplements == IInv /\ DrainStaging => Promise!Work \/ Promise!Finish
<1> SUFFICES ASSUME IInv, DrainStaging PROVE Promise!Work \/ Promise!Finish
  OBVIOUS
<1>1. PICK v \in Answers :
         /\ Sound(v) /\ v.written \in 0..Room
         /\ SecondMoved(v.consumed, v.written, FALSE)
         /\ IF v.tag = "Err"
            THEN /\ failure' = Latched(WinningError(v.kind))
                 /\ Return(Rebased(v.written, WinningError(v.kind)))
            ELSE UNCHANGED <<phase, failure, call, outcome>>
  BY DrainStagingMoves
<1>2. Running
  BY DEF DrainStaging
<1>3. /\ moved' = [consumed |-> pos.consumed, written |-> pos.written + v.written]
      /\ moved' \in [consumed : moved.consumed..call.input,
                     written : moved.written..call.output]
  BY <1>1, <1>2, SecondMovesForward
<1>4. CASE v.tag = "Err"
  <2> DEFINE k == WinningError(v.kind)
  <2>1. k \in ErrorKind /\ k # NoKind
    BY <1>1, <1>4, FailureTyped DEF WinningError, Sound, IInv, ErrorKind, NoKind
  <2>2. Return(Answer("Err", moved'.consumed, moved'.written, k)) /\ failure' = Latched(k)
    BY <1>1, <1>3, <1>4 DEF Rebased
  <2> HIDE DEF k
  <2> QED BY <1>2, <1>3, <2>1, <2>2, FinishImplements DEF AnswerTags
<1>5. CASE v.tag # "Err"
  BY <1>1, <1>2, <1>3, <1>5, WorkImplements DEF Running
<1> QED BY <1>4, <1>5

\* Delivering the pending error ends the call as LatchingCodec says.
LEMMA DeliverErrorImplements == IInv /\ DeliverError => Promise!Finish
<1> SUFFICES ASSUME IInv, DeliverError PROVE Promise!Finish
  OBVIOUS
<1>1. PICK v \in Answers :
         /\ v.written \in 0..Room /\ TagHonest(v, 0, Room)
         /\ SecondMoved(0, v.written, v.tag = "Done")
         /\ IF v.tag # "OutputFilled"
            THEN /\ failure' = Latched(failure.kind)
                 /\ Return(Rebased(v.written, failure.kind))
            ELSE /\ UNCHANGED failure
                 /\ Return(Answer("OutputFilled", pos.consumed, call.output, NoKind))
  BY DeliverErrorMoves
<1>2. Running /\ failure.tag = "FirstPending"
  BY DEF DeliverError, Settled, Due
<1>3. /\ moved' = [consumed |-> pos.consumed, written |-> pos.written + v.written]
      /\ moved' \in [consumed : moved.consumed..call.input,
                     written : moved.written..call.output]
  BY <1>1, <1>2, SecondMovesForward
<1>4. CASE v.tag # "OutputFilled"
  <2>1. failure.kind \in ErrorKind /\ failure.kind # NoKind
    BY <1>2, FailureTyped DEF IInv, ErrorKind, NoKind
  <2>2. /\ Return(Answer("Err", moved'.consumed, moved'.written, failure.kind))
        /\ failure' = Latched(failure.kind)
    BY <1>1, <1>3, <1>4 DEF Rebased
  <2> QED BY <1>2, <1>3, <2>1, <2>2, FinishImplements DEF AnswerTags
<1>5. CASE v.tag = "OutputFilled"
  <2>1. moved'.written = call.output /\ moved'.consumed = pos.consumed
    BY <1>1, <1>3, <1>5, Sizes DEF TagHonest, Room, IInv
  <2>2. Return(Answer("OutputFilled", moved'.consumed, moved'.written, NoKind))
    BY <1>1, <1>5, <2>1
  <2>3. failure'.tag # "Latched"
    BY <1>1, <1>2, <1>5
  <2>4. "OutputFilled" \in AnswerTags \ {"Boundary"}
    BY DEF AnswerTags
  <2> QED BY <1>2, <1>3, <2>1, <2>2, <2>3, <2>4, FinishImplements
<1> QED BY <1>4, <1>5

\* So does returning the progress made.
LEMMA ReturnProgressImplements == IInv /\ ReturnProgress => Promise!Finish
<1> SUFFICES ASSUME IInv, ReturnProgress PROVE Promise!Finish
  OBVIOUS
<1>1. Running /\ UNCHANGED <<failure, history>> /\ TypeOK
  BY DEF ReturnProgress, Settled, IInv
<1>2. pos = moved /\ failure'.tag # "Latched"
  BY <1>1 DEF Running, IInv, CallInv
<1>3. moved' = pos /\ moved' \in [consumed : moved.consumed..call.input,
                                  written : moved.written..call.output]
  BY <1>1, <1>2, Sizes DEF history
<1>4. {"InputConsumed", "OutputFilled"} \subseteq AnswerTags \ {"Boundary"}
  BY DEF AnswerTags
<1>5. CASE InputTaken /\ Return(Answer("InputConsumed", call.input, pos.written, NoKind))
  <2>1. call.op = "process" /\ moved'.consumed = call.input
    BY <1>1, <1>3, <1>5, Sizes DEF InputTaken, Left
  <2>2. Return(Answer("InputConsumed", moved'.consumed, moved'.written, NoKind))
    BY <1>3, <1>5, <2>1
  <2> QED BY <1>1, <1>2, <1>3, <1>4, <2>1, <2>2, FinishImplements
<1>6. CASE OutputFull /\ Return(Answer("OutputFilled", pos.consumed, call.output, NoKind))
  <2>1. moved'.written = call.output
    BY <1>1, <1>3, <1>6, Sizes DEF OutputFull, Room
  <2>2. Return(Answer("OutputFilled", moved'.consumed, moved'.written, NoKind))
    BY <1>3, <1>6, <2>1
  <2> QED BY <1>1, <1>2, <1>3, <1>4, <2>1, <2>2, FinishImplements
<1> QED BY <1>5, <1>6 DEF ReturnProgress

\* The answer of the second codec to a drain is the answer of the chain.
LEMMA DrainSecondImplements == IInv /\ DrainSecond => Promise!Finish
<1> SUFFICES ASSUME IInv, DrainSecond PROVE Promise!Finish
  OBVIOUS
<1>1. PICK v \in Answers :
         /\ v.tag \in {"Done", "OutputFilled", "Err"}
         /\ Sound(v) /\ v.written \in 0..Room /\ TagHonest(v, 0, Room)
         /\ SecondMoved(0, v.written, v.tag = "Done")
         /\ IF v.tag = "Err"
            THEN failure' = Latched(v.kind) /\ Return(Rebased(v.written, v.kind))
            ELSE /\ UNCHANGED failure
                 /\ Return(Answer(v.tag, 0, pos.written + v.written, NoKind))
  BY DrainSecondMoves
<1>2. Running /\ call.op \in {"flush", "finish"} /\ failure.tag # "Latched"
  BY DEF DrainSecond, Settled, SecondTurn, Running, IInv, CallInv, TypeOK
<1>3. /\ moved' = [consumed |-> pos.consumed, written |-> pos.written + v.written]
      /\ moved' \in [consumed : moved.consumed..call.input,
                     written : moved.written..call.output]
  BY <1>1, <1>2, SecondMovesForward
<1>4. moved'.consumed = 0
  BY <1>2, <1>3, Sizes DEF IInv, CallInv
<1>5. CASE v.tag = "Err"
  <2>1. v.kind \in ErrorKind /\ v.kind # NoKind
    BY <1>1, <1>5 DEF Sound, ErrorKind, NoKind
  <2>2. Return(Answer("Err", moved'.consumed, moved'.written, v.kind)) /\ failure' = Latched(v.kind)
    BY <1>1, <1>3, <1>5 DEF Rebased
  <2> QED BY <1>2, <1>3, <2>1, <2>2, FinishImplements DEF AnswerTags
<1>6. CASE v.tag # "Err"
  <2>1. v.tag \in AnswerTags \ {"Boundary"} /\ v.tag # "InputConsumed"
    BY <1>1 DEF AnswerTags
  <2>2. v.tag = "OutputFilled" => moved'.written = call.output
    BY <1>1, <1>3, Sizes DEF TagHonest, Room, IInv
  <2>3. Return(Answer(v.tag, moved'.consumed, moved'.written, NoKind))
    BY <1>1, <1>3, <1>4, <1>6
  <2>4. failure'.tag # "Latched"
    BY <1>1, <1>2, <1>6
  <2>5. call.op # "process"
    BY <1>2
  <2> QED BY <1>2, <1>3, <1>6, <2>1, <2>2, <2>3, <2>4, <2>5, FinishImplements
<1> QED BY <1>5, <1>6

\* What the first codec does stays inside the chain.
LEMMA RunFirstImplements == IInv /\ RunFirst => Promise!Work
<1> SUFFICES ASSUME IInv, RunFirst PROVE Promise!Work
  OBVIOUS
<1>1. PICK v \in Answers :
         /\ v.consumed \in 0..Left
         /\ failure' = IF v.tag = "Err" THEN FirstPending(v.kind) ELSE failure
         /\ moved' = [moved EXCEPT !.consumed = @ + v.consumed]
         /\ UNCHANGED <<phase, call, outcome>>
  BY RunFirstMoves
<1>2. Running /\ TypeOK /\ pos = moved
  BY DEF RunFirst, Settled, Running, IInv, CallInv
<1>3. moved' \in [consumed : moved.consumed..call.input, written : moved.written..call.output]
  BY <1>1, <1>2, Sizes DEF Left
<1>4. failure'.tag # "Latched"
  BY <1>1, <1>2 DEF Running, FirstPending
<1> QED BY <1>1, <1>2, <1>3, <1>4, WorkImplements

\* Chain is a codec by the contract of protocol.rs with a latch on top: every
\* behaviour of the two codecs, staging and the flush cycle is one of the
\* abstract codec, which is why chains of chains work.
THEOREM ChainImplementsLatchingCodec == Spec => ImplementsLatchingCodec
<1>1. IInv /\ [Next]_vars => [Promise!Next]_Promise!vars
  <2> SUFFICES ASSUME IInv, [Next]_vars PROVE [Promise!Next]_Promise!vars
    OBVIOUS
  <2>1. CASE UNCHANGED vars
    BY <2>1 DEF vars, ownVars, callVars, history, Promise!vars
  <2>2. CASE Next
    BY <2>2, CallImplements, QuietImplements, DrainStagingImplements, DeliverErrorImplements,
       ReturnProgressImplements, DrainSecondImplements, RunFirstImplements
       DEF Next, Pass, Promise!Next
  <2> QED BY <2>1, <2>2
<1> QED BY <1>1, InitImplements, SpecInv, PTL DEF Spec, ImplementsLatchingCodec, Promise!Spec

=============================================================================
