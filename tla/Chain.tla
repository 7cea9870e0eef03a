------------------------------- MODULE Chain -------------------------------
(***************************************************************************)
(* Chain (chain.rs): two codecs and a staging buffer between them, as one  *)
(* codec.  One action per codec call the chain makes and per way it can    *)
(* return without one.  Both codecs answer whatever the trait allows,      *)
(* overclaims included; the caller calls in any order, with any buffers.   *)
(***************************************************************************)
EXTENDS Protocol

CONSTANTS
  StagingLen,  \* length of `staging`
  MaxInput,    \* bound: longest input of a call
  MaxOutput,   \* bound: longest output of a call
  MaxMid       \* bound: bytes `first` writes in one call of the chain

\* Chain::new refuses an empty staging buffer.
ASSUME ChainAssumption ==
  StagingLen \in Nat \ {0} /\ MaxInput \in Nat /\ MaxOutput \in Nat /\ MaxMid \in Nat

VARIABLES
  phase,          \* Chain::finish_phase
  failure,        \* Chain::failure
  firstFlushed,   \* Chain::first_flushed
  firstFinished,  \* Chain::first_finished
  stage,          \* Chain::stage_start and stage_end
  call,           \* the call in progress and the lengths of its buffers
  pos,            \* its in_pos and out_pos
  drained,        \* this pass of its loop has run drain_staging_into
  outcome,        \* the answer of the last call
  first, second,  \* history: the two codecs as the traits see them
  moved,          \* history: what first took and second wrote in this call
  mid,            \* history: what first wrote in this call
  inFlight,       \* history: bytes first wrote and second has not taken
  holding,        \* history: who took bytes since it last reported Done
  cause           \* history: the first codec error in time

ownVars  == <<phase, failure, firstFlushed, firstFinished, stage>>
callVars == <<call, pos, drained, outcome>>
history  == <<first, second, moved, mid, inFlight, holding, cause>>
vars     == <<ownVars, callVars, history>>

CallOf(op, i, o) == [op |-> op, input |-> i, output |-> o]
NoCall   == CallOf("idle", 0, 0)
NoAnswer == Answer("Done", 0, 0, NoKind)
Nothing  == [consumed |-> 0, written |-> 0]

NoFailure       == [tag |-> "None", kind |-> NoKind]
FirstPending(k) == [tag |-> "FirstPending", kind |-> k]
Latched(k)      == [tag |-> "Latched", kind |-> k]

Counts(c, w) == [consumed : 0..c, written : 0..w]

TypeOK ==
  /\ phase \in FinishPhase
  /\ failure \in {NoFailure} \cup [tag : {"FirstPending", "Latched"}, kind : ErrorKind]
  /\ firstFlushed \in BOOLEAN /\ firstFinished \in BOOLEAN
  /\ stage \in [start : 0..StagingLen, end : 0..StagingLen] /\ stage.start <= stage.end
  /\ call \in [op : {"idle", "process", "flush", "finish"},
               input : 0..MaxInput, output : 0..MaxOutput]
  /\ pos \in Counts(call.input, call.output) /\ moved \in Counts(MaxInput, MaxOutput)
  /\ drained \in BOOLEAN /\ holding \subseteq {"first", "second"}
  /\ outcome \in Answers
  /\ first \in CodecState /\ second \in CodecState
  /\ mid \in 0..MaxMid /\ inFlight \in 0..StagingLen
  /\ cause \in ErrorKind \cup {NoKind}

Init ==
  /\ phase = "Open" /\ failure = NoFailure
  /\ firstFlushed = FALSE /\ firstFinished = FALSE
  /\ stage = [start |-> 0, end |-> 0]
  /\ call = NoCall /\ pos = Nothing /\ drained = FALSE /\ outcome = NoAnswer
  /\ first = "live" /\ second = "live"
  /\ moved = Nothing /\ mid = 0 /\ inFlight = 0 /\ holding = {} /\ cause = NoKind

-----------------------------------------------------------------------------
(* The staging buffer.                                                     *)

Staged == stage.end - stage.start

\* drop_staged: an emptied staging starts again at 0.
DropStaged(n) ==
  IF stage.start + n = stage.end THEN [start |-> 0, end |-> 0]
  ELSE [stage EXCEPT !.start = @ + n]

StageOfSuccessOnly(v) == [stage EXCEPT !.end = IF v.tag = "Err" THEN 0 ELSE v.written]

\* What `first` validly wrote is staged, also by a failing call.
StageOf(v) == [stage EXCEPT !.end = v.written]

-----------------------------------------------------------------------------
(* Where a call stands.                                                    *)

Left  == call.input - pos.consumed
Room  == call.output - pos.written

RunningUnlatched ==
  /\ call # NoCall
  /\ IF call.op = "finish" THEN phase # "Finished" ELSE phase = "Open"

\* Past check_open, is_finished and the latched error.
Running ==
  /\ call # NoCall /\ failure.tag # "Latched"
  /\ IF call.op = "finish" THEN phase # "Finished" ELSE phase = "Open"

\* Staging holds nothing that this pass could still drain.
Settled == Running /\ (Staged = 0 \/ drained)

\* The error of `first` waits for its bytes.
Due == failure.tag = "FirstPending" /\ Staged = 0

FirstDone == IF call.op = "flush" THEN firstFlushed ELSE firstFinished

SecondTurnBeforeDrain == call.op # "process" /\ FirstDone

\* `second` drains when nothing is upstream of it any more.
SecondTurn == call.op # "process" /\ FirstDone /\ Staged = 0

InputTaken == call.op = "process" /\ Left = 0 /\ Staged = 0

OutputFullAnyway == FALSE

\* A full output stops the call only while `second` still has bytes to take.
OutputFull == Room = 0 /\ Staged > 0

-----------------------------------------------------------------------------
(* Returning.                                                              *)

\* The end of a flush cycle forgets that `first` was flushed; Done ends finish.
Return(a) ==
  /\ call' = NoCall /\ outcome' = a /\ pos' = Nothing /\ drained' = FALSE
  /\ phase' = IF call.op = "finish" /\ a.tag = "Done" THEN "Finished" ELSE phase
  /\ firstFlushed' = IF call.op = "flush" /\ a.tag # "OutputFilled" THEN FALSE
                     ELSE firstFlushed

\* An error of `second` reports the whole call's counts, not the step's.
RebasedStepOnly(written, k) == Answer("Err", pos.consumed, written, k)
Rebased(written, k) == Answer("Err", pos.consumed, pos.written + written, k)

LatestError(k) == k

\* If `first` failed earlier, its error wins.
WinningError(k) == IF failure.tag = "FirstPending" THEN failure.kind ELSE k

Blame(v) == IF v.tag = "Err" /\ cause = NoKind THEN v.kind ELSE cause

\* A codec may hold output for what it took until a drain reports Done.
StillHolding(who, taken, done) ==
  IF done THEN holding \ {who} ELSE IF taken > 0 THEN holding \cup {who} ELSE holding

\* A call of `second` that takes c staged bytes and writes w.
SecondMoved(c, w, done) ==
  /\ inFlight' = inFlight - c
  /\ moved' = [moved EXCEPT !.written = @ + w]
  /\ holding' = StillHolding("second", c, done)

-----------------------------------------------------------------------------
(* The calls of the caller.                                                *)

KeepsFlushCycle(c) == firstFlushed

\* New input starts a new flush cycle.
FlushedAtCall(c) == IF c.op = "process" /\ phase = "Open" THEN FALSE ELSE firstFlushed

Call(c) ==
  /\ call = NoCall
  /\ call' = c
  /\ phase' = IF c.op = "finish" THEN StartFinish(phase) ELSE phase
  /\ firstFlushed' = FlushedAtCall(c)
  /\ moved' = Nothing /\ mid' = 0
  /\ UNCHANGED <<failure, firstFinished, stage, pos, drained, outcome>>
  /\ UNCHANGED <<first, second, inFlight, holding, cause>>

Caller ==
  \E op \in {"process", "flush", "finish"}, i \in 0..MaxInput, o \in 0..MaxOutput :
    (op # "process" => i = 0) /\ Call(CallOf(op, i, o))

\* check_open fails before anything else is looked at.
Refused ==
  /\ call.op \in {"process", "flush"} /\ phase # "Open"
  /\ call' = NoCall /\ outcome' = Answer("Err", 0, 0, "AfterFinish")
  /\ UNCHANGED <<ownVars, pos, drained, history>>

FinishAgain ==
  /\ call.op = "finish" /\ phase = "Finished"
  /\ Return(Answer("Done", 0, 0, NoKind))
  /\ UNCHANGED <<failure, firstFinished, stage, history>>

\* deliver_error_if_due on a latched error, at the entry of a call.
RepeatError ==
  /\ call # NoCall /\ failure.tag = "Latched"
  /\ IF call.op = "finish" THEN phase # "Finished" ELSE phase = "Open"
  /\ Return(Answer("Err", 0, 0, failure.kind))
  /\ UNCHANGED <<failure, firstFinished, stage, history>>

-----------------------------------------------------------------------------
(* One pass of the loops of process and drain_through.                     *)

\* drain_staging_into
DrainStaging ==
  /\ Running /\ ~drained /\ Staged > 0
  /\ \E a \in ProcessAnswers(Staged, Room) :
       LET v == Validated(a, Staged, Room) IN
         /\ stage' = DropStaged(v.consumed)
         /\ second' = AfterProcess(second, v)
         /\ SecondMoved(v.consumed, v.written, FALSE)
         /\ cause' = Blame(v)
         /\ IF v.tag = "Err"
            THEN /\ failure' = Latched(WinningError(v.kind))
                 /\ Return(Rebased(v.written, WinningError(v.kind)))
            ELSE /\ pos' = [pos EXCEPT !.written = @ + v.written]
                 /\ drained' = TRUE
                 /\ UNCHANGED <<phase, failure, firstFlushed, call, outcome>>
  /\ UNCHANGED <<firstFinished, first, mid>>

FlushedAnyway(v) == TRUE

\* The flush before the report is over: Done, or an error of its own.
FlushedOut(v) == v.tag # "OutputFilled"

\* deliver_error_if_due on a pending error: flush `second`, then report.
DeliverError ==
  /\ Settled /\ Due
  /\ \E a \in DrainAnswers(Room) :
       LET v == Validated(a, 0, Room) IN
         /\ second' = AfterFlush(second, v)
         /\ SecondMoved(0, v.written, v.tag = "Done")
         /\ IF FlushedOut(v)
            THEN /\ failure' = Latched(failure.kind)
                 /\ Return(Rebased(v.written, failure.kind))
            ELSE /\ UNCHANGED failure
                 /\ Return(Answer("OutputFilled", pos.consumed, call.output, NoKind))
  /\ UNCHANGED <<firstFinished, stage, first, mid, cause>>

\* All input taken and staging empty, or the output full and staging not.
ReturnProgress ==
  /\ Settled /\ ~Due /\ ~SecondTurn
  /\ \/ InputTaken /\ Return(Answer("InputConsumed", call.input, pos.written, NoKind))
     \/ /\ ~InputTaken /\ OutputFull
        /\ Return(Answer("OutputFilled", pos.consumed, call.output, NoKind))
  /\ UNCHANGED <<failure, firstFinished, stage, history>>

\* `first` is done and staging is empty: flush or finish `second`.
DrainSecond ==
  /\ Settled /\ ~Due /\ SecondTurn
  /\ \E a \in DrainAnswers(Room) :
       LET v == Validated(a, 0, Room) IN
         /\ second' = IF call.op = "flush" THEN AfterFlush(second, v) ELSE AfterFinish(second, v)
         /\ SecondMoved(0, v.written, v.tag = "Done")
         /\ cause' = Blame(v)
         /\ IF v.tag = "Err"
            THEN failure' = Latched(v.kind) /\ Return(Rebased(v.written, v.kind))
            ELSE /\ UNCHANGED failure
                 /\ Return(Answer(v.tag, 0, pos.written + v.written, NoKind))
  /\ UNCHANGED <<firstFinished, stage, first, mid>>

\* A call of `first`: on the rest of the input, or on none in a drain.
FirstAnswers ==
  IF call.op = "process" THEN ProcessAnswers(Left, StagingLen) ELSE DrainAnswers(StagingLen)

AfterFirst(v) ==
  CASE call.op = "process" -> AfterProcess(first, v)
    [] call.op = "flush"   -> AfterFlush(first, v)
    [] OTHER               -> AfterFinish(first, v)

\* `first` writes into staging, and the loop goes round.
RunFirst ==
  /\ Settled /\ ~Due /\ ~SecondTurn /\ ~InputTaken /\ ~OutputFull
  /\ \E a \in FirstAnswers :
       LET v == Validated(a, Left, StagingLen) IN
         /\ mid + v.written <= MaxMid
         /\ stage' = StageOf(v)
         /\ failure' = IF v.tag = "Err" THEN FirstPending(v.kind) ELSE failure
         /\ firstFlushed' = (firstFlushed \/ (call.op = "flush" /\ v.tag = "Done"))
         /\ firstFinished' = (firstFinished \/ (call.op = "finish" /\ v.tag = "Done"))
         /\ pos' = [pos EXCEPT !.consumed = @ + v.consumed]
         /\ first' = AfterFirst(v)
         /\ moved' = [moved EXCEPT !.consumed = @ + v.consumed]
         /\ mid' = mid + v.written
         /\ inFlight' = inFlight + v.written
         /\ holding' = StillHolding("first", v.consumed, v.tag = "Done")
         /\ cause' = Blame(v)
  /\ drained' = FALSE
  /\ UNCHANGED <<phase, call, outcome, second>>

Pass ==
  \/ Refused \/ FinishAgain \/ RepeatError
  \/ DrainStaging \/ DeliverError \/ ReturnProgress \/ DrainSecond \/ RunFirst

Next == Caller \/ Pass

\* A call runs until it returns; nobody has to call the chain.
Spec == Init /\ [][Next]_vars /\ WF_vars(Pass)

-----------------------------------------------------------------------------
(* Properties.                                                             *)

\* Whatever the caller does, neither codec is called after its own error,
\* after its finish began (but to finish) or after it reported Done.
CodecsNeverMisused == first # "misused" /\ second # "misused"

\* Every byte `first` validly wrote, with an error or without, is in staging
\* until `second` takes it: none is dropped, overwritten or sent twice.
NothingLostBetween == Staged = inFlight

\* The error the chain keeps and repeats is the one that came first in time,
\* also when `second` then fails on the bytes before it.
FirstErrorWins == failure.tag # "None" => failure.kind = cause

\* An error of `first` is reported only after `second` took every byte before
\* it and wrote out what it held for them, unless `second` failed at that.
ErrorWaitsForBytes ==
  [][failure.tag = "FirstPending" /\ failure'.tag = "Latched" =>
       second' = "failed" \/ (inFlight' = 0 /\ "second" \notin holding')]_vars

\* `second` is asked to finish only when `first` reported Done and none of
\* its bytes is under way: a trailer never overtakes data.
SecondFinishesLast ==
  [][second' # second /\ second' \in {"finishing", "done"} =>
       first = "done" /\ inFlight = 0]_vars

\* A flush that reports Done has flushed all data accepted before it: both
\* codecs reported Done since they last took bytes, and nothing is staged, also
\* when process calls came between the calls of the flush cycle.
FlushDoneMeansFlushed ==
  [][call.op = "flush" /\ call' = NoCall /\ outcome'.tag = "Done" =>
       inFlight' = 0 /\ holding' = {}]_vars

\* What the doc of Chain::process says: later calls of process, flush and
\* finish return the latched kind, with no bytes moved.
LatchedErrorRepeats ==
  [][failure.tag = "Latched" /\ call # NoCall =>
       outcome' = Answer("Err", 0, 0, failure.kind)]_vars

\* Chain is itself a codec, with the latch on top (chains of chains work):
\* what it reports is what really moved, through every error path.
Promise == INSTANCE LatchingCodec WITH
  failed <- IF failure.tag = "Latched" THEN failure.kind ELSE NoKind
ImplementsLatchingCodec == Promise!Spec

\* Every call of the chain returns.
CallsReturn == call # NoCall ~> call = NoCall

=============================================================================
