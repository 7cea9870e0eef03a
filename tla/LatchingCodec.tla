--------------------------- MODULE LatchingCodec ---------------------------
(***************************************************************************)
(* What Chain promises its caller (the docs of chain.rs's trait methods):  *)
(* a codec by the contract of protocol.rs, made safe to misuse.  A call    *)
(* moves bytes inside the buffers it was lent and reports exactly those;   *)
(* success uses up one of the buffers; an error latches; `finish` reports  *)
(* Done again and again, and nothing but `finish` works after it.          *)
(* The two codecs, the staging buffer and the flush cycle are not here.    *)
(***************************************************************************)
EXTENDS Protocol

VARIABLES
  phase,   \* how far the codec is in `finish`
  failed,  \* the latched error, or NoKind
  call,    \* the call in progress and the lengths of its two buffers
  moved,   \* the bytes the call really moved
  outcome  \* the answer of the last call

vars == <<phase, failed, call, moved, outcome>>

NoCall   == [op |-> "idle", input |-> 0, output |-> 0]
NoAnswer == Answer("Done", 0, 0, NoKind)
Nothing  == [consumed |-> 0, written |-> 0]
Busy     == call # NoCall

Init ==
  /\ phase = "Open" /\ failed = NoKind
  /\ call = NoCall /\ moved = Nothing /\ outcome = NoAnswer

\* `finish` begins before anything can fail.
Call ==
  /\ ~Busy /\ moved' = Nothing
  /\ call' \in [op : {"process", "flush", "finish"}, input : Nat, output : Nat]
  /\ call'.op # "process" => call'.input = 0
  /\ phase' = IF call'.op = "finish" THEN StartFinish(phase) ELSE phase
  /\ UNCHANGED <<failed, outcome>>

Return(a) == call' = NoCall /\ outcome' = a

Refuse ==
  /\ call.op \in {"process", "flush"} /\ phase # "Open"
  /\ Return(Answer("Err", 0, 0, "AfterFinish"))
  /\ UNCHANGED <<phase, failed, moved>>

DoneAgain ==
  /\ call.op = "finish" /\ phase = "Finished"
  /\ Return(Answer("Done", 0, 0, NoKind))
  /\ UNCHANGED <<phase, failed, moved>>

RepeatError ==
  /\ Busy /\ (call.op \in {"process", "flush"} => phase = "Open")
  /\ failed # NoKind
  /\ Return(Answer("Err", 0, 0, failed))
  /\ UNCHANGED <<phase, failed, moved>>

\* The call is past its checks.
Working ==
  /\ Busy /\ failed = NoKind
  /\ IF call.op = "finish" THEN phase = "Finishing" ELSE phase = "Open"

Move ==
  /\ moved' \in [consumed : moved.consumed..call.input, written : moved.written..call.output]

Work == Working /\ Move /\ UNCHANGED <<phase, failed, call, outcome>>

Finish ==
  /\ Working /\ Move
  /\ \E tag \in AnswerTags \ {"Boundary"}, k \in ErrorKind \cup {NoKind} :
       /\ (tag = "Err") <=> (k # NoKind)
       /\ tag = "InputConsumed" => call.op = "process" /\ moved'.consumed = call.input
       /\ tag = "OutputFilled"  => moved'.written = call.output
       /\ tag = "Done"          => call.op # "process"
       /\ Return(Answer(tag, moved'.consumed, moved'.written, k))
       /\ failed' = k
       /\ phase' = IF tag = "Done" /\ call.op = "finish" THEN "Finished" ELSE phase

Next == Call \/ Refuse \/ DoneAgain \/ RepeatError \/ Work \/ Finish

Spec == Init /\ [][Next]_vars

=============================================================================
