------------------------------- MODULE Sinks --------------------------------
(***************************************************************************)
(* The sinks of the crate: SliceSink and VecSink in memory, and ScratchSink*)
(* over a raw writer (StdSink, EmbeddedSink), whose commit is a loop of raw*)
(* writes that may be short, interrupted, empty or fail.  The caller is a  *)
(* driver: it fills the space, commits any part of it, and after a failed  *)
(* commit goes on with other bytes or tries the same ones again.           *)
(*                                                                         *)
(* Byte n is the n-th byte of the caller; 0 is a byte that nobody wrote.   *)
(***************************************************************************)
EXTENDS IoErrors, Sequences

CONSTANTS
  SliceLen,   \* length of the slice of a SliceSink
  BufferLen,  \* length of the buffer of a ScratchSink
  GrowBy,     \* VecSink::grow_by
  MaxStored   \* bound: bytes stored, or given up, before the caller stops

\* ScratchSink::new refuses an empty buffer, with_growth a growth of 0.
ASSUME SinksAssumption ==
  /\ BufferLen \in Nat \ {0} /\ GrowBy \in Nat \ {0}
  /\ SliceLen \in Nat /\ MaxStored \in Nat

VARIABLES
  sink,      \* which sink it is
  content,   \* the slice up to pos, the vec, or what the raw writer took
  capacity,  \* of the slice or the vec
  buffer,    \* the bytes in the space that spare returned last
  offered,   \* its length, as far as the sink counts on it
  op,        \* "commit" while write_all is at work
  rest,      \* the bytes write_all has still to write
  result,    \* what the last call returned
  asked,     \* the amount of the last commit
  next,      \* history: the next byte the caller has to store
  retried    \* history: the caller tried bytes of a failed commit again

callerVars == <<asked, next, retried>>
vars == <<sink, content, capacity, buffer, offered, op, rest, result, callerVars>>

SliceSink    == "SliceSink"
VecSink      == "VecSink"
StdSink      == "StdSink"
EmbeddedSink == "EmbeddedSink"

Scratch == {StdSink, EmbeddedSink}

Returned(tag, kind) == [tag |-> tag, kind |-> kind]

Init ==
  /\ sink \in {SliceSink, VecSink} \cup Scratch
  /\ capacity \in IF sink = VecSink THEN {0, 1} ELSE {SliceLen}
  /\ content = <<>> /\ buffer = <<>> /\ offered = 0
  /\ op = "idle" /\ rest = <<>> /\ result = Returned("Ok", NoIoKind)
  /\ asked = 0 /\ next = 1 /\ retried = FALSE

-----------------------------------------------------------------------------
(* spare.                                                                  *)

Unused == capacity - Len(content)

\* Vec::reserve may round up.
Reserved == {Len(content) + GrowBy, 2 * Len(content) + GrowBy}

\* The caller fills the space with the bytes it has to store.
Lends(n) ==
  /\ offered' = n
  /\ buffer' = [i \in 1..n |-> next + i - 1]
  /\ result' = Returned("Some", NoIoKind)

SliceSpare ==
  /\ sink = SliceSink
  /\ IF Unused = 0 THEN result' = Returned("None", NoIoKind) /\ UNCHANGED <<buffer, offered>>
     ELSE Lends(Unused)
  /\ UNCHANGED capacity

VecSpare ==
  /\ sink = VecSink
  /\ capacity' \in IF Unused = 0 THEN Reserved ELSE {capacity}
  /\ Lends(capacity' - Len(content))

ScratchSpare ==
  /\ sink \in Scratch
  /\ Lends(BufferLen)
  /\ UNCHANGED capacity

Goes == op = "idle" /\ Len(content) <= MaxStored /\ next <= MaxStored

Spare ==
  /\ Goes
  /\ SliceSpare \/ VecSpare \/ ScratchSpare
  /\ UNCHANGED <<sink, content, op, rest, callerVars>>

-----------------------------------------------------------------------------
(* commit.                                                                 *)

Trusted(amount) == amount

\* The release build clamps; a debug build panics instead.
Clamped(amount) == IF amount < offered THEN amount ELSE offered

FirstBytes(n) == [i \in 1..n |-> IF i <= Len(buffer) THEN buffer[i] ELSE 0]

OfferedKept == offered

\* The space is used up: the next commit needs another spare.
OfferedAfterCommit == 0

\* The caller asks for at most one byte too many, and only of space it was lent:
\* a SliceSink does not remember whether it was.
Asks(amount) ==
  /\ Goes
  /\ sink = SliceSink => offered > 0
  /\ result.tag = "Err" => retried
  /\ asked' = amount

Committed(n) ==
  /\ result' = Returned("Ok", NoIoKind)
  /\ offered' = OfferedAfterCommit
  /\ next' = next + n

CommitToMemory ==
  /\ sink \notin Scratch
  /\ \E amount \in 0..(offered + 1) :
       /\ Asks(amount)
       /\ content' = content \o FirstBytes(Clamped(amount))
       /\ Committed(Clamped(amount))
  /\ UNCHANGED <<sink, capacity, buffer, op, rest, retried>>

CommitToWriter ==
  /\ sink \in Scratch
  /\ \E amount \in 0..(offered + 1) :
       Asks(amount) /\ rest' = FirstBytes(Clamped(amount))
  /\ op' = "commit"
  /\ UNCHANGED <<sink, content, capacity, buffer, offered, result, next, retried>>

-----------------------------------------------------------------------------
(* write_all: that of std, or retry_write_all.                             *)

RestDropped(n) == <<>>

RestAfter(n) == SubSeq(rest, n + 1, Len(rest))

RawWrites ==
  /\ op = "commit"
  /\ \E n \in 1..Len(rest) :
       content' = content \o SubSeq(rest, 1, n) /\ rest' = RestAfter(n)
  /\ UNCHANGED <<sink, capacity, buffer, offered, op, result, callerVars>>

RawInterrupted ==
  /\ op = "commit" /\ rest # <<>>
  /\ \E k \in RawKinds : IsInterrupted(k)
  /\ UNCHANGED vars

\* The caller gives up the bytes of the failed commit, or keeps them: it does
\* not learn how many the raw writer took.
CommitFails(kind) ==
  /\ op' = "idle" /\ rest' = <<>>
  /\ result' = Returned("Err", kind)
  /\ \/ next' = next + Clamped(asked) /\ UNCHANGED retried
     \/ retried' = TRUE /\ UNCHANGED next
  /\ UNCHANGED <<sink, content, capacity, buffer, offered, asked>>

\* Ok(0) is an error of its own: ZeroWrite, or WriteZero in std.
RawWritesNothing == op = "commit" /\ rest # <<>> /\ CommitFails("WriteZero")

RawFails ==
  /\ op = "commit" /\ rest # <<>>
  /\ \E k \in RawKinds : ~IsInterrupted(k) /\ CommitFails(k)

AllWritten ==
  /\ op = "commit" /\ rest = <<>>
  /\ op' = "idle"
  /\ Committed(Clamped(asked))
  /\ UNCHANGED <<sink, content, capacity, buffer, rest, asked, retried>>

-----------------------------------------------------------------------------

Work == RawWrites \/ RawWritesNothing \/ RawFails \/ AllWritten

Next == Spare \/ CommitToMemory \/ CommitToWriter \/ Work \/ RawInterrupted

\* The caller has stored enough.
Stopped == op = "idle" /\ ~Goes /\ UNCHANGED vars

\* write_all goes on and is not interrupted for ever.
Spec == Init /\ [][Next \/ Stopped]_vars /\ WF_vars(Work)

-----------------------------------------------------------------------------
(* Properties.                                                             *)

\* Every sink keeps the contract of the trait, as the drivers need it: a commit
\* appends what was asked, clamped to the space, or fails with a part of it
\* stored; the growing sinks and the ones over a writer never decline.
Promise == INSTANCE SinkContract WITH
  full <- (sink = SliceSink /\ Unused = 0),
  space <- SubSeq(buffer, 1, offered),
  committing <- rest, busy <- (op = "commit")
ImplementsSinkContract == Promise!Spec

\* A byte reaches the destination a second time, or out of order, only if the
\* caller itself tried a failed commit again (known_issues.md, issue #20).
NothingTwice ==
  ~retried => \A i, j \in 1..Len(content) : i < j => content[i] < content[j]

\* set_len and the position stay inside the memory that is there, and no sink
\* passes on a byte from behind the space it lent, whatever amount a driver
\* commits (of a SliceSink: once after each spare).
NeverBeyondCapacity ==
  /\ sink \notin Scratch => Len(content) <= capacity
  /\ \A i \in 1..Len(content) : content[i] # 0

=============================================================================
