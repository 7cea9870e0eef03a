-------------------------------- MODULE Pump --------------------------------
(***************************************************************************)
(* Pump (stream.rs): the lifecycle wrapper that moves bytes from a Source  *)
(* through a codec into a Sink.  One action per loop pass of an operation  *)
(* and per way the pass can go; the codec, the source and the sink answer  *)
(* whatever their traits allow, errors included.                           *)
(*                                                                         *)
(* The actions take what the endpoints and the codec answer as parameters, *)
(* so that a driver built on the pump can narrow them to its own endpoints.*)
(***************************************************************************)
EXTENDS Protocol

CONSTANTS
  Word,       \* usize::MAX + 1: the totals wrap at it
  SourceLen,  \* bound: bytes the source holds in its life
  MaxChunk,   \* bound: longest chunk the source lends
  SinkCap,    \* bound: bytes the sink has room for in its life
  MaxSpare,   \* bound: longest space the sink lends
  MaxOut      \* bound: bytes the codec writes in its life

ASSUME PumpAssumption ==
  /\ Word \in Nat \ {0}
  /\ SourceLen \in Nat /\ MaxChunk \in Nat
  /\ SinkCap \in Nat /\ MaxSpare \in Nat /\ MaxOut \in Nat

VARIABLES
  phase,    \* Pump::finish_phase
  failed,   \* Pump::failed, the latched codec error
  total,    \* Pump::total, the wrapping counts
  codec,    \* history: the codec as the traits see it
  taken,    \* history: bytes the source has given away
  emitted,  \* history: bytes the codec wrote and validly reported
  stored,   \* history: bytes the sink has committed
  op,       \* the operation in progress
  outcome,  \* what the last operation returned
  tick      \* history: flips on every pass, so that one that moves nothing is a step

endVars  == <<taken, emitted, stored>>
pumpVars == <<phase, failed, total, codec, taken, emitted, stored, op, outcome, tick>>

Operations == {"transfer", "step", "flush", "finish"}

\* Results: a stop of the enums PumpTransfer and PumpDrain, or a DriveError.
Result(tag) == [tag |-> tag, kind |-> NoKind]
CodecError(k) == [tag |-> "Codec", kind |-> k]
SourceError == Result("Source")
SinkError   == Result("Sink")
NoProgress  == Result("NoProgress")
Pending     == Result("Pending")

ResultTags == {"Pending", "SourceExhausted", "SinkExhausted", "Progressed",
               "InputEnded", "Done", "Codec", "Source", "Sink", "NoProgress"}

TypeOK ==
  /\ phase \in FinishPhase
  /\ failed \in ErrorKind \cup {NoKind}
  /\ total \in [consumed : 0..(Word - 1), written : 0..(Word - 1)]
  /\ codec \in CodecState
  /\ taken \in Nat /\ emitted \in Nat /\ stored \in Nat
  /\ op \in Operations \cup {"idle"}
  /\ outcome \in [tag : ResultTags, kind : ErrorKind \cup {NoKind}]
  /\ tick \in BOOLEAN

PumpInit ==
  /\ phase = "Open" /\ failed = NoKind
  /\ total = [consumed |-> 0, written |-> 0]
  /\ codec = "live"
  /\ taken = 0 /\ emitted = 0 /\ stored = 0
  /\ op = "idle" /\ outcome = Pending /\ tick = FALSE

-----------------------------------------------------------------------------
(* The endpoints.  A source lends a non-empty chunk; a sink lends space or *)
(* reports None (`full`).  An empty space breaks the Sink contract, but    *)
(* the pump handles it.                                                    *)

Chunks == {n \in 1..MaxChunk : taken + n <= SourceLen}

Space(n) == [full |-> FALSE, len |-> n]
Full     == [full |-> TRUE, len |-> 0]

Spaces == {Space(n) : n \in {m \in 0..MaxSpare : stored + m <= SinkCap}} \cup {Full}

-----------------------------------------------------------------------------
(* Helpers of the operations.                                              *)

Return(r) == op' = "idle" /\ outcome' = r

\* End of a pass that progressed: transfer_from loops, transfer_step returns.
EndPass ==
  IF op = "step" THEN Return(Result("Progressed")) ELSE UNCHANGED <<op, outcome>>

WrappingAddUnbounded(n, m) == n + m

\* count_consumed and count_written.
WrappingAdd(n, m) == (n + m) % Word

CountedBeforeCommit(w, ok) == w

\* The bytes a commit of w bytes adds to the total.
Counted(w, ok) == IF ok THEN w ELSE 0

\* consume, count, then commit, count.  A failed commit stores no byte.
Move(c, w, ok) ==
  /\ w = 0 => ok
  /\ emitted + w <= MaxOut
  /\ taken' = taken + c
  /\ emitted' = emitted + w
  /\ stored' = IF ok THEN stored + w ELSE stored
  /\ total' = [consumed |-> WrappingAdd(total.consumed, c),
               written  |-> WrappingAdd(total.written, Counted(w, ok))]

SalvageInputOnly(v, ok) ==
  /\ ok /\ emitted + v.written <= MaxOut
  /\ taken' = taken + v.consumed /\ emitted' = emitted + v.written
  /\ total' = [total EXCEPT !.consumed = WrappingAdd(@, v.consumed)]
  /\ UNCHANGED stored

\* A failing call still delivers what it validly reported.
Salvage(v, ok) == Move(v.consumed, v.written, ok)

StallIsDone(s) == IF s.full THEN Result("Done") ELSE NoProgress

\* A call that moved nothing: the sink had no room, or the codec is stuck.
Stall(s) == IF s.full THEN Result("SinkExhausted") ELSE NoProgress

TransferringUnlatched == op \in {"transfer", "step"} /\ phase = "Open"

\* Past check_not_failed and check_open.
Transferring == op \in {"transfer", "step"} /\ failed = NoKind /\ phase = "Open"

DrainingUnlatched == (op = "flush" /\ phase = "Open") \/ op = "finish"

Draining ==
  /\ failed = NoKind
  /\ \/ op = "flush" /\ phase = "Open"
     \/ op = "finish"

\* The pass calls the codec: a finished pump answers for it.
DrainCalls == Draining /\ ~(op = "finish" /\ phase = "Finished")

AfterDrain(a) == IF op = "flush" THEN AfterFlush(codec, a) ELSE AfterFinish(codec, a)

PhaseAfterAnyFinish(a) == IF op = "finish" THEN "Finished" ELSE phase

\* finish_done is recorded before the commit of what `finish` wrote.
PhaseAfterDrain(a) == IF op = "finish" /\ a.tag = "Done" THEN "Finished" ELSE phase

-----------------------------------------------------------------------------
(* transfer_from and transfer_step.                                        *)

\* check_not_failed, then check_open.
Refused ==
  /\ op # "idle"
  /\ IF failed # NoKind THEN Return(CodecError(failed))
     ELSE /\ phase # "Open" /\ op # "finish"
          /\ Return(CodecError("AfterFinish"))
  /\ UNCHANGED <<phase, failed, total, codec, endVars>>

ChunkFails ==
  /\ Transferring
  /\ Return(SourceError)
  /\ UNCHANGED <<phase, failed, total, codec, endVars>>

SourceEnds ==
  /\ Transferring
  /\ Return(Result("SourceExhausted"))
  /\ UNCHANGED <<phase, failed, total, codec, endVars>>

\* `spare` failed, in a transfer or in a drain.
SpareFails ==
  /\ Transferring \/ Draining
  /\ Return(SinkError)
  /\ UNCHANGED <<phase, failed, total, codec, endVars>>

StepFails(i, s, a, ok) ==
  LET v == Validated(a, i, s.len) IN
    /\ Transferring
    /\ v.tag = "Err"
    /\ failed' = v.kind
    /\ codec' = AfterProcess(codec, v)
    /\ Salvage(v, ok)
    /\ Return(IF ok THEN CodecError(v.kind) ELSE SinkError)
    /\ UNCHANGED phase

StepStalls(i, s, a) ==
  LET v == Validated(a, i, s.len) IN
    /\ Transferring
    /\ v.tag \in {"InputConsumed", "OutputFilled"} /\ MovesNothing(v)
    /\ codec' = AfterProcess(codec, v)
    /\ Return(Stall(s))
    /\ UNCHANGED <<phase, failed, total, endVars>>

StepMoves(i, s, a, ok) ==
  LET v == Validated(a, i, s.len) IN
    /\ Transferring
    /\ v.tag # "Err" /\ (MovesNothing(v) => v.tag = "Boundary")
    /\ codec' = AfterProcess(codec, v)
    /\ Move(v.consumed, v.written, ok)
    /\ IF ~ok THEN Return(SinkError)
       ELSE IF v.tag = "Boundary" THEN Return(Result("InputEnded"))
       ELSE EndPass
    /\ UNCHANGED <<phase, failed>>

\* One codec call of a transfer on a chunk of i bytes and the space s.
Transfers(i, s, a, ok) ==
  StepFails(i, s, a, ok) \/ StepStalls(i, s, a) \/ StepMoves(i, s, a, ok)

-----------------------------------------------------------------------------
(* flush_to and finish_to: drain_loop.                                     *)

DrainFails(s, a, ok) ==
  LET v == Validated(a, 0, s.len) IN
    /\ DrainCalls
    /\ v.tag = "Err"
    /\ failed' = v.kind
    /\ codec' = AfterDrain(v)
    /\ Salvage(v, ok)
    /\ Return(IF ok THEN CodecError(v.kind) ELSE SinkError)
    /\ UNCHANGED phase

StuckWhenFull(v, s) == s.full

\* OutputFilled on no space at all.
DrainStuck(v, s) == v.tag = "OutputFilled" /\ s.len = 0

DrainStalls(s, a) ==
  LET v == Validated(a, 0, s.len) IN
    /\ DrainCalls
    /\ v.tag # "Err" /\ DrainStuck(v, s)
    /\ codec' = AfterDrain(v)
    /\ Return(Stall(s))
    /\ UNCHANGED <<phase, failed, total, endVars>>

DrainMoves(s, a, ok) ==
  LET v == Validated(a, 0, s.len) IN
    /\ DrainCalls
    /\ v.tag \in {"Done", "OutputFilled"} /\ ~DrainStuck(v, s)
    /\ codec' = AfterDrain(v)
    /\ phase' = PhaseAfterDrain(v)
    /\ Move(0, v.written, ok)
    /\ IF ~ok THEN Return(SinkError)
       ELSE IF v.tag = "Done" THEN Return(Result("Done"))
       ELSE UNCHANGED <<op, outcome>>
    /\ UNCHANGED failed

\* latched_finish_step on a finished pump: Done, and no codec call.
FinishAgain ==
  /\ Draining /\ ~DrainCalls
  /\ Return(Result("Done"))
  /\ UNCHANGED <<phase, failed, total, codec, endVars>>

Drains(s, a, ok) == DrainFails(s, a, ok) \/ DrainStalls(s, a) \/ DrainMoves(s, a, ok)

-----------------------------------------------------------------------------
(* A caller of the pump's operations, in any order.                        *)

\* finish_to records the phase before anything can fail.
Call(o) ==
  /\ op = "idle"
  /\ op' = o /\ outcome' = Pending
  /\ phase' = IF o = "finish" THEN StartFinish(phase) ELSE phase
  /\ tick' = FALSE
  /\ UNCHANGED <<failed, total, codec, endVars>>

\* After Boundary the trait leaves a caller nothing but `finish`.
Caller == \E o \in Operations : (codec = "ended" => o = "finish") /\ Call(o)

Pass ==
  /\ tick' = ~tick
  /\ \/ Refused \/ ChunkFails \/ SourceEnds \/ SpareFails \/ FinishAgain
     \/ /\ Transferring
        /\ \E i \in Chunks, s \in Spaces, ok \in BOOLEAN :
             \E a \in BoundedAnswers(i, s.len) : Transfers(i, s, a, ok)
     \/ /\ DrainCalls
        /\ \E s \in Spaces, ok \in BOOLEAN :
             \E a \in DrainAnswers(s.len) : Drains(s, a, ok)

Next == Caller \/ Pass

\* The pump runs until its operation returns; nobody has to call it.
Spec == PumpInit /\ [][Next]_pumpVars /\ WF_pumpVars(Pass)

-----------------------------------------------------------------------------
(* Properties.                                                             *)

\* Whatever the caller does and whatever fails, the pump never makes a call
\* the codec traits leave undefined: none after the codec's own error (not
\* even when the commit of that error's bytes failed), no process or flush
\* after finish, no finish after Done.
CodecContractKept == codec # "misused"

\* The latch and the phase say what the codec really did: failed is set
\* exactly when the codec failed, Finished exactly when it reported Done.
PumpAgreesWithCodec ==
  /\ (failed # NoKind) <=> (codec = "failed")
  /\ (phase = "Finished") <=> (codec = "done")

\* The totals are the bytes the source gave away and the sink took, modulo
\* the width of usize, through every error path (Pump::total's comment).
TotalsExact == total = [consumed |-> taken % Word, written |-> stored % Word]

\* A codec that overclaims its counts cannot make the pump consume more than
\* the source lent or commit more than the sink had room for.
EndpointsNeverOverrun == taken <= SourceLen /\ stored <= SinkCap

\* After a codec error nothing moves, the first kind stays, and every later
\* operation returns that kind.
ErrorIsSticky ==
  [][failed # NoKind =>
       /\ failed' = failed /\ UNCHANGED endVars
       /\ (op # "idle" /\ op' = "idle") => outcome' = CodecError(failed)]_pumpVars

\* A byte the codec wrote fails to reach the sink only in a pass that
\* returns the sink's error.
LossIsReported ==
  [][emitted' - stored' # emitted - stored => outcome' = SinkError]_pumpVars

\* A finish that returns Done has heard Done from the codec: a full sink is
\* never taken for the end of the stream.
DoneMeansDone ==
  [][op = "finish" /\ outcome' = Result("Done") => codec' = "done"]_pumpVars

\* Every operation returns when source and codec output are finite: no pass
\* that moves nothing goes round again.
CallsReturn == op # "idle" ~> op = "idle"

=============================================================================
