----------------------------- MODULE PumpProofs -----------------------------
(***************************************************************************)
(* The safety of Pump for every word width, every source and sink, every   *)
(* codec and every order of calls.  The invariant IInv adds to the checked *)
(* properties what ties the phase, the operation and the codec's state     *)
(* together; without it the step of `finish` cannot know that the codec    *)
(* may still be called.                                                    *)
(***************************************************************************)
EXTENDS Pump, Integers, TLAPS

-----------------------------------------------------------------------------
(* What a driver knows of a codec's answer once it is validated.           *)

\* An answer the drivers can rely on: typed, and an error names its kind.
Sound(a) == a \in Answers /\ (a.tag = "Err" => a.kind \in ErrorKind)

\* What a codec answers to a process call is a sound answer.
LEMMA BoundedAnswersSound ==
  ASSUME NEW i \in Nat, NEW o \in Nat, NEW a \in BoundedAnswers(i, o)
  PROVE  Sound(a)
<1>1. CASE a \in {Answer("InputConsumed", i, w, NoKind) : w \in 0..(o + 1)}
  BY <1>1 DEF Answer, Sound, Answers, AnswerTags
<1>2. CASE a \in {Answer("OutputFilled", c, o, NoKind) : c \in 0..(i + 1)}
  BY <1>2 DEF Answer, Sound, Answers, AnswerTags
<1>3. CASE a \in FailureAnswers(i, o)
  BY <1>3, CodecKindsAssumption
     DEF FailureAnswers, Claims, Answer, Sound, Answers, AnswerTags
<1>4. CASE a \in {Answer("Boundary", n[1], n[2], NoKind) : n \in Claims(i, o)}
  BY <1>4 DEF Claims, Answer, Sound, Answers, AnswerTags
<1> QED BY <1>1, <1>2, <1>3, <1>4 DEF BoundedAnswers, ProcessAnswers

\* So is what it answers to flush and finish.
LEMMA DrainAnswersSound ==
  ASSUME NEW o \in Nat, NEW a \in DrainAnswers(o)
  PROVE  Sound(a)
<1>1. CASE a \in {Answer("Done", 0, w, NoKind) : w \in 0..(o + 1)}
  BY <1>1 DEF Answer, Sound, Answers, AnswerTags
<1>2. CASE a = Answer("OutputFilled", 0, o, NoKind)
  BY <1>2 DEF Answer, Sound, Answers, AnswerTags
<1>3. CASE a \in FailureAnswers(0, o)
  BY <1>3, CodecKindsAssumption
     DEF FailureAnswers, Claims, Answer, Sound, Answers, AnswerTags
<1> QED BY <1>1, <1>2, <1>3 DEF DrainAnswers

\* Validation keeps an answer sound and puts its counts inside the buffers.
LEMMA ValidatedSound ==
  ASSUME NEW i \in Nat, NEW o \in Nat, NEW a, Sound(a)
  PROVE  LET v == Validated(a, i, o) IN
           Sound(v) /\ v.consumed \in 0..i /\ v.written \in 0..o
BY DEF Validated, Sound, Answers, Answer, AnswerTags, ErrorKind

-----------------------------------------------------------------------------
(* A validated answer keeps the promise of its tag.                        *)

\* A codec that says it consumed its input took all of it, and one that says
\* it filled its output wrote all of it.
TagHonest(v, i, o) ==
  /\ v.tag = "InputConsumed" => v.consumed = i
  /\ v.tag = "OutputFilled"  => v.written = o

\* A validated answer of Codec::process.
LEMMA ProcessAnswer ==
  ASSUME NEW i \in Nat, NEW o \in Nat, NEW a \in ProcessAnswers(i, o)
  PROVE  LET v == Validated(a, i, o) IN
           /\ Sound(v) /\ v.consumed \in 0..i /\ v.written \in 0..o
           /\ v.tag \in {"InputConsumed", "OutputFilled", "Err"}
           /\ TagHonest(v, i, o)
<1> DEFINE v == Validated(a, i, o)
<1>1. Sound(v) /\ v.consumed \in 0..i /\ v.written \in 0..o
  BY BoundedAnswersSound, ValidatedSound DEF BoundedAnswers
<1>2. a.tag \in {"InputConsumed", "OutputFilled", "Err"} /\ TagHonest(a, i, o)
  BY DEF ProcessAnswers, FailureAnswers, Answer, TagHonest
<1>3. v = a \/ v.tag = "Err"
  BY DEF Validated, Answer
<1> HIDE DEF v
<1>4. v.tag \in {"InputConsumed", "OutputFilled", "Err"} /\ TagHonest(v, i, o)
  BY <1>2, <1>3 DEF TagHonest
<1> QED BY <1>1, <1>4 DEF v

\* A validated answer of BoundaryAwareCodec::process_bounded.
LEMMA BoundedAnswer ==
  ASSUME NEW i \in Nat, NEW o \in Nat, NEW a \in BoundedAnswers(i, o)
  PROVE  LET v == Validated(a, i, o) IN
           /\ Sound(v) /\ v.consumed \in 0..i /\ v.written \in 0..o
           /\ v.tag \in {"InputConsumed", "OutputFilled", "Boundary", "Err"}
           /\ TagHonest(v, i, o)
<1> DEFINE v == Validated(a, i, o)
<1>1. Sound(v) /\ v.consumed \in 0..i /\ v.written \in 0..o
  BY BoundedAnswersSound, ValidatedSound
<1>2. a.tag \in {"InputConsumed", "OutputFilled", "Boundary", "Err"} /\ TagHonest(a, i, o)
  BY DEF BoundedAnswers, ProcessAnswers, FailureAnswers, Answer, TagHonest
<1>3. v = a \/ v.tag = "Err"
  BY DEF Validated, Answer
<1> HIDE DEF v
<1>4. v.tag \in {"InputConsumed", "OutputFilled", "Boundary", "Err"} /\ TagHonest(v, i, o)
  BY <1>2, <1>3 DEF TagHonest
<1> QED BY <1>1, <1>4 DEF v

\* A validated answer of DrainCodec::flush or DrainCodec::finish.
LEMMA DrainAnswer ==
  ASSUME NEW o \in Nat, NEW a \in DrainAnswers(o)
  PROVE  LET v == Validated(a, 0, o) IN
           /\ Sound(v) /\ v.consumed = 0 /\ v.written \in 0..o
           /\ v.tag \in {"Done", "OutputFilled", "Err"}
           /\ TagHonest(v, 0, o)
<1> DEFINE v == Validated(a, 0, o)
<1>1. Sound(v) /\ v.consumed \in 0..0 /\ v.written \in 0..o
  BY DrainAnswersSound, ValidatedSound
<1>2. a.tag \in {"Done", "OutputFilled", "Err"} /\ TagHonest(a, 0, o)
  BY DEF DrainAnswers, FailureAnswers, Answer, TagHonest
<1>3. v = a \/ v.tag = "Err"
  BY DEF Validated, Answer
<1> HIDE DEF v
<1>4. v.tag \in {"Done", "OutputFilled", "Err"} /\ TagHonest(v, 0, o)
  BY <1>2, <1>3 DEF TagHonest
<1>5. v.consumed = 0
  BY <1>1
<1> QED BY <1>1, <1>4, <1>5 DEF v

-----------------------------------------------------------------------------
(* Wrapping counters.                                                      *)

\* Division with remainder, as the solver knows it.
LEMMA DivMod ==
  ASSUME NEW n \in Nat, NEW W \in Nat \ {0}
  PROVE  n % W \in 0..(W - 1) /\ n \div W \in Nat /\ n = W * (n \div W) + (n % W)
BY SMT

\* Remainders are unique.
LEMMA RemainderUnique ==
  ASSUME NEW W \in Nat \ {0}, NEW q \in Int, NEW p \in Int,
         NEW r \in 0..(W - 1), NEW t \in 0..(W - 1), W * q + r = W * p + t
  PROVE  r = t
<1>1. CASE q = p
  <2>1. W * q = W * p
    BY <1>1
  <2>2. W * q \in Int /\ W * p \in Int
    OBVIOUS
  <2> QED BY <2>1, <2>2
<1>2. CASE q >= p + 1
  <2>1. W * q >= W * p + W
    BY <1>2, SMT
  <2> QED BY <2>1, SMT
<1>3. CASE p >= q + 1
  <2>1. W * p >= W * q + W
    BY <1>3, SMT
  <2> QED BY <2>1, SMT
<1> QED BY <1>1, <1>2, <1>3

\* Adding to a wrapped counter wraps the sum: count_consumed and
\* count_written never lose track of the real total.
LEMMA WrappedSum ==
  ASSUME NEW n \in Nat, NEW m \in Nat, NEW W \in Nat \ {0}
  PROVE  ((n % W) + m) % W = (n + m) % W
<1> DEFINE a == (n % W) + m
           q == n \div W
           u == q + (a \div W)
           p == (n + m) \div W
           r == a % W
           t == (n + m) % W
<1>1. a \in Nat /\ n + m \in Nat /\ q \in Nat
  BY DivMod
<1>2. n + m = W * q + a
  BY DivMod
<1>3. a = W * (a \div W) + (a % W) /\ a % W \in 0..(W - 1) /\ a \div W \in Nat
  BY <1>1, DivMod
<1>4. n + m = W * p + t /\ t \in 0..(W - 1) /\ p \in Nat
  BY <1>1, DivMod
<1> HIDE DEF a
<1>5. W * q + W * (a \div W) = W * (q + (a \div W))
  BY <1>1, <1>3, SMT
<1>6. W * u + r = W * p + t
  BY <1>1, <1>2, <1>3, <1>4, <1>5
<1>7. u \in Int /\ p \in Int /\ r \in 0..(W - 1) /\ t \in 0..(W - 1)
  BY <1>1, <1>3, <1>4
<1> HIDE DEF u, r, p, t
<1>8. r = t
  BY <1>6, <1>7, RemainderUnique
<1> QED BY <1>8 DEF a, r, t

-----------------------------------------------------------------------------
(* The inductive invariant.                                                *)

\* What a call in progress may assume about the codec.
PhaseInv ==
  /\ phase = "Open" => codec \in {"live", "ended", "failed"}
  /\ codec = "ended" => op \in {"idle", "finish"}
  /\ codec = "finishing" => phase = "Finishing"
  /\ op = "finish" => phase # "Open"

\* What holds on any endpoints, those of the drivers built on the pump included.
PumpInv ==
  /\ TypeOK
  /\ CodecContractKept
  /\ PumpAgreesWithCodec
  /\ TotalsExact
  /\ PhaseInv

IInv == PumpInv /\ EndpointsNeverOverrun

\* A move keeps the types of the counters and the totals exact.
LEMMA MoveExact ==
  ASSUME TypeOK, TotalsExact, NEW c \in Nat, NEW w \in Nat, NEW ok \in BOOLEAN,
         Move(c, w, ok)
  PROVE  /\ taken' = taken + c /\ taken' \in Nat
         /\ emitted' \in Nat
         /\ stored' \in Nat /\ stored' <= stored + w
         /\ total' \in [consumed : 0..(Word - 1), written : 0..(Word - 1)]
         /\ TotalsExact'
<1> DEFINE k == Counted(w, ok)
<1>1. k \in Nat /\ k <= w /\ stored' = stored + k
  BY DEF Move, Counted, TypeOK
<1>2. taken \in Nat /\ stored \in Nat /\ Word \in Nat \ {0}
  BY PumpAssumption DEF TypeOK
<1>3. total' = [consumed |-> ((taken % Word) + c) % Word,
                written  |-> ((stored % Word) + k) % Word]
  BY DEF Move, TotalsExact, WrappingAdd
<1> HIDE DEF k
<1>4. total' = [consumed |-> (taken + c) % Word, written |-> (stored + k) % Word]
  BY <1>1, <1>2, <1>3, WrappedSum
<1>5. (taken + c) % Word \in 0..(Word - 1) /\ (stored + k) % Word \in 0..(Word - 1)
  BY <1>1, <1>2, DivMod
<1>6. taken' = taken + c /\ emitted' \in Nat
  BY DEF Move, TypeOK
<1> QED BY <1>1, <1>2, <1>4, <1>5, <1>6 DEF TotalsExact

\* The first state.
LEMMA InitPumpInv == PumpInit => PumpInv
<1> SUFFICES ASSUME PumpInit PROVE PumpInv
  OBVIOUS
<1>1. 0 % Word = 0 /\ 0 \in 0..(Word - 1)
  BY PumpAssumption, SMT
<1>2. TypeOK
  BY <1>1 DEF PumpInit, TypeOK, FinishPhase, CodecState, Operations, Pending, Result,
              ResultTags
<1>3. TotalsExact
  BY <1>1 DEF PumpInit, TotalsExact
<1> QED BY <1>2, <1>3
     DEF PumpInit, PumpInv, CodecContractKept, PumpAgreesWithCodec, PhaseInv, ErrorKind, NoKind

\* Nothing is moved at first.
LEMMA InitInv == PumpInit => IInv
BY InitPumpInv, PumpAssumption DEF IInv, PumpInit, EndpointsNeverOverrun

-----------------------------------------------------------------------------
(* Every step keeps it.                                                    *)

\* Passes that return without a codec call.
QuietReturn == Refused \/ ChunkFails \/ SourceEnds \/ SpareFails \/ FinishAgain

\* They leave the pump as it is.
LEMMA QuietReturnInv == PumpInv /\ tick' \in BOOLEAN /\ QuietReturn => PumpInv' /\ UNCHANGED endVars
<1> SUFFICES ASSUME PumpInv, tick' \in BOOLEAN, QuietReturn PROVE PumpInv' /\ UNCHANGED endVars
  OBVIOUS
<1>1. UNCHANGED <<phase, failed, total, codec, endVars>> /\ op' = "idle"
  BY DEF QuietReturn, Refused, ChunkFails, SourceEnds, SpareFails, FinishAgain, Return
<1>2. outcome' \in [tag : ResultTags, kind : ErrorKind \cup {NoKind}]
  BY DEF PumpInv, TypeOK, QuietReturn, Refused, ChunkFails, SourceEnds, SpareFails, FinishAgain,
         Return, Result, CodecError, SourceError, SinkError, ResultTags, ErrorKind
<1> QED BY <1>1, <1>2
     DEF PumpInv, TypeOK, CodecContractKept, PumpAgreesWithCodec, TotalsExact, PhaseInv, endVars

\* What a codec call of a transfer moved and how it ended.
Transferred(i, s, a, ok, c, w) ==
  /\ c \in 0..i /\ w \in 0..s.len
  /\ c = Validated(a, i, s.len).consumed /\ w = Validated(a, i, s.len).written
  /\ taken' = taken + c /\ emitted' = emitted + w /\ stored' = stored + Counted(w, ok)
  /\ w > 0 => emitted' <= MaxOut
  /\ op \in {"transfer", "step"} /\ failed = NoKind /\ phase = "Open" /\ phase' = "Open"
  /\ \/ /\ failed' \in ErrorKind /\ codec' = "failed"
        /\ Return(IF ok THEN CodecError(failed') ELSE SinkError)
     \/ /\ failed' = NoKind /\ codec' = "live" /\ c = 0 /\ w = 0
        /\ Return(Stall(s))
     \/ /\ failed' = NoKind /\ codec' = "ended"
        /\ Return(IF ok THEN Result("InputEnded") ELSE SinkError)
     \/ /\ failed' = NoKind /\ codec' = "live" /\ c + w > 0
        /\ IF ok THEN EndPass ELSE Return(SinkError)

\* One codec call of a transfer, on any chunk and any space: what it can do.
LEMMA TransferCases ==
  ASSUME PumpInv, NEW i \in Nat, NEW s, s.len \in Nat, NEW ok \in BOOLEAN,
         NEW a \in BoundedAnswers(i, s.len), Transfers(i, s, a, ok)
  PROVE  /\ \E c, w \in Nat : Transferred(i, s, a, ok, c, w)
         /\ total' \in [consumed : 0..(Word - 1), written : 0..(Word - 1)]
         /\ TotalsExact'
<1>1. PICK v : v = Validated(a, i, s.len)
  OBVIOUS
<1>2. PICK c \in Nat, w \in Nat : c = v.consumed /\ w = v.written
  BY <1>1, BoundedAnswer DEF Sound, Answers
<1>3. /\ c \in 0..i /\ w \in 0..s.len /\ v.tag \in {"InputConsumed", "OutputFilled", "Boundary", "Err"}
      /\ v.tag = "Err" => v.kind \in ErrorKind
  BY <1>1, <1>2, BoundedAnswer DEF Sound
<1>4. Transferring /\ codec = "live"
  BY DEF Transfers, StepFails, StepStalls, StepMoves, Transferring, PumpInv,
         PumpAgreesWithCodec, PhaseInv, CodecContractKept
<1>5. CASE StepFails(i, s, a, ok)
  <2>1. /\ v.tag = "Err" /\ failed' = v.kind /\ codec' = "failed"
        /\ Move(c, w, ok) /\ UNCHANGED phase
        /\ Return(IF ok THEN CodecError(v.kind) ELSE SinkError)
    BY <1>1, <1>2, <1>4, <1>5 DEF StepFails, Salvage, AfterProcess
  <2>2. Transferred(i, s, a, ok, c, w)
    BY <1>1, <1>2, <1>3, <1>4, <2>1
       DEF Transferred, Move, Counted, Transferring, PumpInv, TypeOK
  <2> QED BY <2>1, <2>2, MoveExact DEF PumpInv
<1>6. CASE StepStalls(i, s, a)
  <2>1. /\ c = 0 /\ w = 0 /\ codec' = "live"
        /\ Return(Stall(s)) /\ UNCHANGED <<phase, failed, total, endVars>>
    BY <1>1, <1>2, <1>4, <1>6 DEF StepStalls, MovesNothing, AfterProcess
  <2>2. Transferred(i, s, a, ok, c, w)
    BY <1>1, <1>2, <1>3, <1>4, <2>1
       DEF Transferred, Counted, Transferring, PumpInv, TypeOK, endVars
  <2> QED BY <2>1, <2>2 DEF PumpInv, TypeOK, TotalsExact, endVars
<1>7. CASE StepMoves(i, s, a, ok)
  <2>1. /\ v.tag # "Err" /\ codec' = (IF v.tag = "Boundary" THEN "ended" ELSE "live")
        /\ Move(c, w, ok) /\ UNCHANGED <<phase, failed>>
        /\ (v.tag # "Boundary" => c + w > 0)
        /\ IF ~ok THEN Return(SinkError)
           ELSE IF v.tag = "Boundary" THEN Return(Result("InputEnded"))
           ELSE EndPass
    BY <1>1, <1>2, <1>4, <1>7 DEF StepMoves, MovesNothing, AfterProcess
  <2>2. /\ taken' = taken + c /\ emitted' = emitted + w /\ stored' = stored + Counted(w, ok)
        /\ w > 0 => emitted' <= MaxOut
    BY <2>1 DEF Move, Counted, PumpInv, TypeOK
  <2>3. Transferred(i, s, a, ok, c, w)
    BY <1>1, <1>2, <1>3, <1>4, <2>1, <2>2 DEF Transferred, Transferring
  <2> QED BY <2>1, <2>3, MoveExact DEF PumpInv
<1> QED BY <1>5, <1>6, <1>7 DEF Transfers

\* It keeps the invariant.
LEMMA TransferKeepsPumpInv ==
  ASSUME PumpInv, tick' \in BOOLEAN,
         NEW i \in Nat, NEW s, s.len \in Nat, NEW ok \in BOOLEAN,
         NEW a \in BoundedAnswers(i, s.len), Transfers(i, s, a, ok)
  PROVE  PumpInv'
<1>1. PICK c \in Nat, w \in Nat : Transferred(i, s, a, ok, c, w)
  BY TransferCases
<1>2. total' \in [consumed : 0..(Word - 1), written : 0..(Word - 1)] /\ TotalsExact'
  BY TransferCases
<1>3. taken' \in Nat /\ emitted' \in Nat /\ stored' \in Nat
  BY <1>1 DEF Transferred, Counted, PumpInv, TypeOK
<1>4. /\ op' \in {"idle", op} /\ (codec' = "ended" => op' = "idle")
      /\ outcome' \in [tag : ResultTags, kind : ErrorKind \cup {NoKind}]
  BY <1>1 DEF Transferred, Return, EndPass, Stall, NoProgress, SinkError, CodecError, Result,
              ResultTags, PumpInv, TypeOK
<1>5. /\ phase = "Open" /\ phase' = "Open" /\ op \in {"transfer", "step"}
      /\ failed' \in ErrorKind \cup {NoKind} /\ codec' \in {"failed", "live", "ended"}
      /\ failed' # NoKind <=> codec' = "failed"
  BY <1>1 DEF Transferred, ErrorKind, NoKind
<1> QED BY <1>2, <1>3, <1>4, <1>5
     DEF PumpInv, TypeOK, CodecContractKept, PumpAgreesWithCodec, PhaseInv, CodecState,
         FinishPhase, Operations

\* What a codec call of a drain moved and how it ended.
Drained(s, a, ok, w) ==
  /\ w \in 0..s.len /\ w = Validated(a, 0, s.len).written
  /\ taken' = taken /\ emitted' = emitted + w /\ stored' = stored + Counted(w, ok)
  /\ w > 0 => emitted' <= MaxOut
  /\ failed = NoKind
  /\ \/ op = "flush" /\ codec = "live" /\ phase = "Open"
     \/ op = "finish" /\ codec \in {"live", "ended", "finishing"} /\ phase = "Finishing"
  /\ \/ /\ failed' \in ErrorKind /\ codec' = "failed" /\ phase' = phase
        /\ Return(IF ok THEN CodecError(failed') ELSE SinkError)
     \/ /\ failed' = NoKind /\ phase' = phase
        /\ codec' = IF op = "flush" THEN "live" ELSE "finishing"
        /\ a.tag = "OutputFilled"
        /\ \/ s.len = 0 /\ w = 0 /\ Return(Stall(s))
           \/ /\ s.len > 0 /\ w = s.len
              /\ IF ok THEN UNCHANGED <<op, outcome>> ELSE Return(SinkError)
     \/ /\ failed' = NoKind
        /\ phase' = IF op = "flush" THEN "Open" ELSE "Finished"
        /\ codec' = IF op = "flush" THEN "live" ELSE "done"
        /\ a.tag = "Done"
        /\ Return(IF ok THEN Result("Done") ELSE SinkError)

\* One codec call of a drain, on any space: what it can do.
LEMMA DrainCases ==
  ASSUME PumpInv, NEW s, s.len \in Nat, NEW ok \in BOOLEAN,
         NEW a \in DrainAnswers(s.len), Drains(s, a, ok)
  PROVE  /\ \E w \in Nat : Drained(s, a, ok, w)
         /\ total' \in [consumed : 0..(Word - 1), written : 0..(Word - 1)]
         /\ TotalsExact'
<1>1. PICK v : v = Validated(a, 0, s.len)
  OBVIOUS
<1>2. PICK w \in Nat : w = v.written /\ v.consumed = 0
  BY <1>1, DrainAnswer DEF Sound, Answers
<1>3. /\ w \in 0..s.len /\ v.tag \in {"Done", "OutputFilled", "Err"}
      /\ v.tag = "Err" => v.kind \in ErrorKind
      /\ v.tag = "OutputFilled" => w = s.len
      /\ v.tag # "Err" => a = v
  BY <1>1, <1>2, DrainAnswer DEF Sound, TagHonest, Validated, Answer
<1>4. DrainCalls
  BY DEF Drains, DrainFails, DrainStalls, DrainMoves
<1>5. /\ \/ op = "flush" /\ codec = "live" /\ phase = "Open"
         \/ op = "finish" /\ codec \in {"live", "ended", "finishing"} /\ phase = "Finishing"
      /\ failed = NoKind
  BY <1>4 DEF DrainCalls, Draining, PumpInv, TypeOK, FinishPhase, CodecState,
             PumpAgreesWithCodec, PhaseInv, CodecContractKept
<1>6. CASE DrainFails(s, a, ok)
  <2>1. /\ v.tag = "Err" /\ failed' = v.kind /\ codec' = "failed"
        /\ Move(0, w, ok) /\ UNCHANGED phase
        /\ Return(IF ok THEN CodecError(v.kind) ELSE SinkError)
    BY <1>1, <1>2, <1>5, <1>6 DEF DrainFails, Salvage, AfterDrain, AfterFlush, AfterFinish
  <2>2. /\ taken' = taken /\ emitted' = emitted + w /\ stored' = stored + Counted(w, ok)
        /\ w > 0 => emitted' <= MaxOut
    BY <2>1 DEF Move, Counted, PumpInv, TypeOK
  <2>3. Drained(s, a, ok, w)
    BY <1>1, <1>2, <1>3, <1>5, <2>1, <2>2 DEF Drained
  <2> QED BY <2>1, <2>3, MoveExact DEF PumpInv
<1>7. CASE DrainStalls(s, a)
  <2>1. /\ v.tag = "OutputFilled" /\ s.len = 0 /\ w = 0
        /\ codec' = (IF op = "flush" THEN "live" ELSE "finishing")
        /\ Return(Stall(s)) /\ UNCHANGED <<phase, failed, total, endVars>>
    BY <1>1, <1>2, <1>3, <1>5, <1>7
       DEF DrainStalls, DrainStuck, AfterDrain, AfterFlush, AfterFinish
  <2>2. Drained(s, a, ok, w)
    BY <1>1, <1>2, <1>3, <1>5, <2>1
       DEF Drained, Counted, PumpInv, TypeOK, endVars
  <2> QED BY <2>1, <2>2 DEF PumpInv, TypeOK, TotalsExact, endVars
<1>8. CASE DrainMoves(s, a, ok)
  <2>1. /\ v.tag \in {"Done", "OutputFilled"} /\ Move(0, w, ok) /\ UNCHANGED failed
        /\ (v.tag = "OutputFilled" => s.len # 0)
        /\ phase' = (IF op = "finish" /\ v.tag = "Done" THEN "Finished" ELSE phase)
        /\ codec' = (IF op = "flush" THEN "live"
                     ELSE IF v.tag = "Done" THEN "done" ELSE "finishing")
        /\ IF ~ok THEN Return(SinkError)
           ELSE IF v.tag = "Done" THEN Return(Result("Done"))
           ELSE UNCHANGED <<op, outcome>>
    BY <1>1, <1>2, <1>5, <1>8
       DEF DrainMoves, DrainStuck, AfterDrain, AfterFlush, AfterFinish, PhaseAfterDrain
  <2>2. /\ taken' = taken /\ emitted' = emitted + w /\ stored' = stored + Counted(w, ok)
        /\ w > 0 => emitted' <= MaxOut
    BY <2>1 DEF Move, Counted, PumpInv, TypeOK
  <2>3. Drained(s, a, ok, w)
    BY <1>1, <1>2, <1>3, <1>5, <2>1, <2>2 DEF Drained
  <2> QED BY <2>1, <2>3, MoveExact DEF PumpInv
<1> QED BY <1>6, <1>7, <1>8 DEF Drains

\* It keeps the invariant.
LEMMA DrainKeepsPumpInv ==
  ASSUME PumpInv, tick' \in BOOLEAN, NEW s, s.len \in Nat, NEW ok \in BOOLEAN,
         NEW a \in DrainAnswers(s.len), Drains(s, a, ok)
  PROVE  PumpInv'
<1>1. PICK w \in Nat : Drained(s, a, ok, w)
  BY DrainCases
<1>2. total' \in [consumed : 0..(Word - 1), written : 0..(Word - 1)] /\ TotalsExact'
  BY DrainCases
<1>3. taken' \in Nat /\ emitted' \in Nat /\ stored' \in Nat
  BY <1>1 DEF Drained, Counted, PumpInv, TypeOK
<1>4. /\ op' \in {"idle", op}
      /\ outcome' \in [tag : ResultTags, kind : ErrorKind \cup {NoKind}]
  BY <1>1 DEF Drained, Return, Stall, NoProgress, SinkError, CodecError, Result,
              ResultTags, PumpInv, TypeOK
<1>5. /\ \/ op = "flush" /\ phase' = "Open" /\ codec' \in {"live", "failed"}
         \/ op = "finish" /\ phase' = "Finished" /\ codec' = "done"
         \/ op = "finish" /\ phase' = "Finishing" /\ codec' \in {"finishing", "failed"}
      /\ failed' \in ErrorKind \cup {NoKind}
      /\ failed' # NoKind <=> codec' = "failed"
  BY <1>1 DEF Drained, ErrorKind, NoKind
<1> QED BY <1>2, <1>3, <1>4, <1>5
     DEF PumpInv, TypeOK, CodecContractKept, PumpAgreesWithCodec, PhaseInv, CodecState,
         FinishPhase, Operations

\* A call of the pump.
LEMMA CallKeepsPumpInv ==
  ASSUME PumpInv, NEW o \in Operations, codec = "ended" => o = "finish", Call(o)
  PROVE  PumpInv'
<1>1. phase' = (IF o = "finish" /\ phase = "Open" THEN "Finishing" ELSE phase)
  BY DEF Call, StartFinish
<1> QED BY <1>1
     DEF Call, PumpInv, TypeOK, CodecContractKept, PumpAgreesWithCodec, TotalsExact,
         PhaseInv, endVars, Pending, Result, ResultTags, FinishPhase, Operations

\* So does what is going on at the endpoints only.
LEMMA EndpointKeepsPumpInv ==
  ASSUME PumpInv, tick' \in BOOLEAN,
         UNCHANGED <<phase, failed, total, codec, endVars, op, outcome>>
  PROVE  PumpInv'
BY DEF PumpInv, TypeOK, CodecContractKept, PumpAgreesWithCodec, TotalsExact, PhaseInv, endVars

\* A pass is a quiet return or one codec call.
LEMMA PassCases ==
  ASSUME Pass
  PROVE  \/ QuietReturn
         \/ \E i \in Chunks, s \in Spaces, ok \in BOOLEAN :
              \E a \in BoundedAnswers(i, s.len) : Transfers(i, s, a, ok)
         \/ \E s \in Spaces, ok \in BOOLEAN :
              \E a \in DrainAnswers(s.len) : Drains(s, a, ok)
BY DEF Pass, QuietReturn

\* IInv is inductive.
LEMMA StepInv == IInv /\ [Next]_pumpVars => IInv'
<1> SUFFICES ASSUME IInv, [Next]_pumpVars PROVE IInv'
  OBVIOUS
<1>1. CASE Caller
  BY <1>1, CallKeepsPumpInv DEF IInv, EndpointsNeverOverrun, Caller, Call, endVars
<1>2. CASE Pass
  <2>1. tick' \in BOOLEAN
    BY <1>2 DEF Pass, IInv, PumpInv, TypeOK
  <2>2. CASE QuietReturn
    BY <2>1, <2>2, QuietReturnInv DEF IInv, EndpointsNeverOverrun, endVars
  <2>3. ASSUME NEW s \in Spaces
        PROVE  s.len \in Nat /\ stored + s.len <= SinkCap
    BY PumpAssumption DEF Spaces, Space, Full, IInv, EndpointsNeverOverrun, PumpInv, TypeOK
  <2>4. ASSUME NEW i \in Chunks, NEW s \in Spaces, NEW ok \in BOOLEAN,
               NEW a \in BoundedAnswers(i, s.len), Transfers(i, s, a, ok)
        PROVE  IInv'
    <3>1. i \in Nat /\ taken + i <= SourceLen /\ PumpInv
      BY PumpAssumption DEF Chunks, IInv
    <3>2. PumpInv'
      BY <2>1, <2>3, <2>4, <3>1, TransferKeepsPumpInv
    <3>3. PICK c \in Nat, w \in Nat : Transferred(i, s, a, ok, c, w)
      BY <2>3, <2>4, <3>1, TransferCases
    <3>4. taken' <= SourceLen /\ stored' <= SinkCap
      BY <2>3, <3>1, <3>3, PumpAssumption DEF Transferred, Counted, PumpInv, TypeOK
    <3> QED BY <3>2, <3>4 DEF IInv, EndpointsNeverOverrun
  <2>5. ASSUME NEW s \in Spaces, NEW ok \in BOOLEAN,
               NEW a \in DrainAnswers(s.len), Drains(s, a, ok)
        PROVE  IInv'
    <3>1. PumpInv /\ taken <= SourceLen
      BY DEF IInv, EndpointsNeverOverrun
    <3>2. PumpInv'
      BY <2>1, <2>3, <2>5, <3>1, DrainKeepsPumpInv
    <3>3. PICK w \in Nat : Drained(s, a, ok, w)
      BY <2>3, <2>5, <3>1, DrainCases
    <3>4. taken' <= SourceLen /\ stored' <= SinkCap
      BY <2>3, <3>1, <3>3, PumpAssumption DEF Drained, Counted, PumpInv, TypeOK
    <3> QED BY <3>2, <3>4 DEF IInv, EndpointsNeverOverrun
  <2> QED BY <1>2, <2>2, <2>4, <2>5, PassCases
<1>3. CASE UNCHANGED pumpVars
  BY <1>3 DEF pumpVars, IInv, PumpInv, TypeOK, CodecContractKept, PumpAgreesWithCodec, TotalsExact,
             EndpointsNeverOverrun, PhaseInv
<1> QED BY <1>1, <1>2, <1>3 DEF Next

\* Spec implies the inductive invariant.
LEMMA SpecInv == Spec => []IInv
<1> QED BY InitInv, StepInv, PTL DEF Spec

-----------------------------------------------------------------------------
(* Results.                                                                *)

\* Every state of the pump is typed; in particular the totals stay in a word.
THEOREM PumpTypeOK == Spec => []TypeOK
<1>1. IInv => TypeOK
  BY DEF IInv, PumpInv
<1> QED BY <1>1, SpecInv, PTL

\* The pump never makes a call the codec traits leave undefined.
THEOREM PumpKeepsCodecContract == Spec => []CodecContractKept
<1>1. IInv => CodecContractKept
  BY DEF IInv, PumpInv
<1> QED BY <1>1, SpecInv, PTL

\* The latched error and the phase say what the codec really did.
THEOREM PumpKnowsItsCodec == Spec => []PumpAgreesWithCodec
<1>1. IInv => PumpAgreesWithCodec
  BY DEF IInv, PumpInv
<1> QED BY <1>1, SpecInv, PTL

\* The totals are the moved bytes modulo the word, on every path.
THEOREM PumpTotalsExact == Spec => []TotalsExact
<1>1. IInv => TotalsExact
  BY DEF IInv, PumpInv
<1> QED BY <1>1, SpecInv, PTL

\* No codec answer makes the pump overrun what the endpoints lent.
THEOREM PumpNeverOverruns == Spec => []EndpointsNeverOverrun
<1>1. IInv => EndpointsNeverOverrun
  BY DEF IInv
<1> QED BY <1>1, SpecInv, PTL

-----------------------------------------------------------------------------
(* What a step may never do.                                               *)

\* An error is sticky: nothing moves after it and every operation repeats it.
THEOREM PumpErrorIsSticky == Spec => ErrorIsSticky
<1>1. ASSUME failed # NoKind, Next
      PROVE  /\ failed' = failed /\ UNCHANGED endVars
             /\ (op # "idle" /\ op' = "idle") => outcome' = CodecError(failed)
  <2>1. CASE Caller
    BY <2>1 DEF Caller, Call
  <2>2. CASE Pass
    <3>1. ~Transferring /\ ~Draining
      BY <1>1 DEF Transferring, Draining
    <3>2. Refused
      BY <2>2, <3>1 DEF Pass, ChunkFails, SourceEnds, SpareFails, FinishAgain, DrainCalls
    <3> QED BY <1>1, <3>2 DEF Refused, Return
  <2> QED BY <1>1, <2>1, <2>2 DEF Next
<1>2. [Next]_pumpVars =>
        [failed # NoKind =>
           /\ failed' = failed /\ UNCHANGED endVars
           /\ (op # "idle" /\ op' = "idle") => outcome' = CodecError(failed)]_pumpVars
  BY <1>1
<1> QED BY <1>2, PTL DEF Spec, ErrorIsSticky

\* A move whose commit succeeds loses nothing.
LEMMA MoveKeepsLoss ==
  ASSUME TypeOK, NEW c \in Nat, NEW w \in Nat, Move(c, w, TRUE)
  PROVE  emitted' - stored' = emitted - stored
BY DEF Move, TypeOK

\* A byte of the codec is lost only in a pass that returns the sink's error.
THEOREM PumpReportsLoss == Spec => LossIsReported
<1>1. ASSUME IInv, Next
      PROVE  emitted' - stored' = emitted - stored \/ outcome' = SinkError
  <2>1. CASE UNCHANGED endVars
    BY <2>1 DEF endVars
  <2>2. ASSUME NEW i \in Chunks, NEW s \in Spaces, NEW ok \in BOOLEAN,
               NEW a \in BoundedAnswers(i, s.len), Transfers(i, s, a, ok)
        PROVE  emitted' - stored' = emitted - stored \/ outcome' = SinkError
    <3> DEFINE v == Validated(a, i, s.len)
    <3>1. i \in Nat /\ s.len \in Nat
      BY PumpAssumption DEF Chunks, Spaces, Space, Full
    <3>2. v.consumed \in Nat /\ v.written \in Nat
      BY <3>1, BoundedAnswersSound, ValidatedSound DEF Sound, Answers
    <3> HIDE DEF v
    <3>3. UNCHANGED endVars \/ Move(v.consumed, v.written, ok)
      BY <2>2 DEF Transfers, StepFails, StepStalls, StepMoves, Salvage, v
    <3>4. CASE ~ok
      <4>1. UNCHANGED endVars \/ outcome' = SinkError
        BY <2>2, <3>4 DEF Transfers, StepFails, StepStalls, StepMoves, Return
      <4> QED BY <2>1, <4>1
    <3>5. CASE ok = TRUE
      BY <1>1, <2>1, <3>2, <3>3, <3>5, MoveKeepsLoss DEF IInv, PumpInv
    <3> QED BY <3>4, <3>5
  <2>3. ASSUME NEW s \in Spaces, NEW ok \in BOOLEAN,
               NEW a \in DrainAnswers(s.len), Drains(s, a, ok)
        PROVE  emitted' - stored' = emitted - stored \/ outcome' = SinkError
    <3> DEFINE v == Validated(a, 0, s.len)
    <3>1. s.len \in Nat
      BY PumpAssumption DEF Spaces, Space, Full
    <3>2. v.consumed \in Nat /\ v.written \in Nat
      BY <3>1, DrainAnswersSound, ValidatedSound DEF Sound, Answers
    <3> HIDE DEF v
    <3>3. \/ UNCHANGED endVars
          \/ Move(v.consumed, v.written, ok) \/ Move(0, v.written, ok)
      BY <2>3 DEF Drains, DrainFails, DrainStalls, DrainMoves, Salvage, v
    <3>4. CASE ~ok
      <4>1. UNCHANGED endVars \/ outcome' = SinkError
        BY <2>3, <3>4 DEF Drains, DrainFails, DrainStalls, DrainMoves, Return
      <4> QED BY <2>1, <4>1
    <3>5. CASE ok = TRUE
      BY <1>1, <2>1, <3>2, <3>3, <3>5, MoveKeepsLoss DEF IInv, PumpInv
    <3> QED BY <3>4, <3>5
  <2>4. CASE QuietReturn
    BY <2>1, <2>4 DEF QuietReturn, Refused, ChunkFails, SourceEnds, SpareFails, FinishAgain
  <2>5. CASE Caller
    BY <2>1, <2>5 DEF Caller, Call
  <2> QED BY <1>1, <2>2, <2>3, <2>4, <2>5, PassCases DEF Next
<1>2. IInv /\ [Next]_pumpVars =>
        [emitted' - stored' # emitted - stored => outcome' = SinkError]_pumpVars
  BY <1>1
<1> QED BY <1>2, SpecInv, PTL DEF Spec, LossIsReported

\* An operation in progress has returned nothing yet.
BusyInv == op # "idle" => outcome = Pending

\* Spec implies it.
LEMMA SpecBusyInv == Spec => []BusyInv
<1>1. PumpInit => BusyInv
  BY DEF PumpInit, BusyInv
<1>2. BusyInv /\ [Next]_pumpVars => BusyInv'
  <2> SUFFICES ASSUME BusyInv, [Next]_pumpVars PROVE BusyInv'
    OBVIOUS
  <2>1. CASE UNCHANGED <<op, outcome>> \/ op' = "idle"
    BY <2>1 DEF BusyInv
  <2>2. CASE Caller
    BY <2>2 DEF Caller, Call, BusyInv
  <2>3. CASE Pass
    <3>1. CASE QuietReturn
      BY <2>1, <3>1 DEF QuietReturn, Refused, ChunkFails, SourceEnds, SpareFails, FinishAgain,
                        Return
    <3>2. ASSUME NEW i, NEW s, NEW ok, NEW a, Transfers(i, s, a, ok)
          PROVE  UNCHANGED <<op, outcome>> \/ op' = "idle"
      BY <3>2 DEF Transfers, StepFails, StepStalls, StepMoves, EndPass, Return
    <3>3. ASSUME NEW s, NEW ok, NEW a, Drains(s, a, ok)
          PROVE  UNCHANGED <<op, outcome>> \/ op' = "idle"
      BY <3>3 DEF Drains, DrainFails, DrainStalls, DrainMoves, Return
    <3> QED BY <2>1, <2>3, <3>1, <3>2, <3>3, PassCases
  <2>4. CASE UNCHANGED pumpVars
    BY <2>1, <2>4 DEF pumpVars
  <2> QED BY <2>2, <2>3, <2>4 DEF Next
<1> QED BY <1>1, <1>2, PTL DEF Spec

\* A finish that returns Done has heard Done from the codec.
THEOREM PumpDoneMeansDone == Spec => DoneMeansDone
<1>1. ASSUME IInv, BusyInv, Next, op = "finish", outcome' = Result("Done")
      PROVE  codec' = "done"
  <2>1. Pass
    BY <1>1 DEF Next, Caller, Call
  <2>2. ~Transferring
    BY <1>1 DEF Transferring
  <2>3. CASE Refused \/ SpareFails
    BY <1>1, <2>3 DEF Refused, SpareFails, Return, CodecError, SinkError, Result
  <2>4. CASE FinishAgain
    BY <1>1, <2>4 DEF FinishAgain, DrainCalls, IInv, PumpInv, PumpAgreesWithCodec
  <2>5. ASSUME NEW s \in Spaces, NEW ok \in BOOLEAN,
               NEW a \in DrainAnswers(s.len), Drains(s, a, ok)
        PROVE  codec' = "done"
    <3> DEFINE v == Validated(a, 0, s.len)
    <3>1. v.tag = "Done" /\ DrainCalls /\ codec' = AfterDrain(v)
      BY <1>1, <2>5 DEF Drains, DrainFails, DrainStalls, DrainMoves, Return, CodecError,
                        SinkError, NoProgress, Stall, Result, BusyInv, Pending, v
    <3> HIDE DEF v
    <3>2. codec \in {"live", "ended", "finishing"}
      BY <1>1, <3>1 DEF DrainCalls, Draining, IInv, PumpInv, TypeOK, FinishPhase, CodecState,
                        PumpAgreesWithCodec, PhaseInv, CodecContractKept
    <3> QED BY <1>1, <3>1, <3>2 DEF AfterDrain, AfterFinish
  <2> QED BY <2>1, <2>2, <2>3, <2>4, <2>5 DEF Pass, ChunkFails, SourceEnds
<1>2. IInv /\ BusyInv /\ [Next]_pumpVars =>
        [op = "finish" /\ outcome' = Result("Done") => codec' = "done"]_pumpVars
  BY <1>1
<1> QED BY <1>2, SpecInv, SpecBusyInv, PTL DEF Spec, DoneMeansDone

=============================================================================
