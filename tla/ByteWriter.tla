----------------------------- MODULE ByteWriter -----------------------------
(***************************************************************************)
(* What a writer that encodes on the fly promises its caller (the docs of  *)
(* CodecWriter and of pump_write, pump_flush and pump_finish).  Until a    *)
(* call reports a fault of the sink, or a codec that is stuck, the counts  *)
(* it returned are what the codec took and the sink has all that the codec *)
(* made.  Write never says Ok(0) to a buffer with bytes, and no error that *)
(* the caller would retry by itself.  Finish says Ok when the codec ended. *)
(* The pump, its results and the order of its calls are not here.          *)
(***************************************************************************)
EXTENDS Naturals

CONSTANT MaxMade  \* bound: bytes the codec makes

VARIABLES
  state,     \* "open", "finishing", "over" once the codec ended, or "broken"
  method,    \* the method in progress
  buf,       \* length of the buffer of a write
  used,      \* bytes taken of it
  result,    \* what the last method returned
  accepted,  \* the sum of all Ok(n) of write
  made,      \* bytes the codec has made
  stored,    \* bytes of them that reached the sink
  faulty,    \* a fault of the sink, or a stuck codec, was reported
  closed     \* finish succeeded: the writer is gone

vars == <<state, method, buf, used, result, accepted, made, stored, faulty, closed>>

Init ==
  /\ state = "open" /\ method = "none" /\ buf = 0 /\ used = 0
  /\ result.tag = "Ok" /\ result.n = 0
  /\ accepted = 0 /\ made = 0 /\ stored = 0
  /\ faulty = FALSE /\ closed = FALSE

Start(m, b) ==
  /\ method = "none" /\ ~closed
  /\ method' = m /\ buf' = b /\ used' = 0
  /\ state' = IF m = "finish" /\ state = "open" THEN "finishing" ELSE state
  /\ UNCHANGED <<result, accepted, made, stored, faulty, closed>>

\* The codec takes input, makes bytes and may fail; not all need arrive.
Work ==
  /\ method # "none"
  /\ state = IF method = "finish" THEN "finishing" ELSE "open"
  /\ used' \in used..buf
  /\ made' \in made..MaxMade /\ stored' \in stored..(stored + (made' - made))
  /\ state' \in {state, "broken"} \cup {s \in {"over"} : method = "finish"}
  /\ UNCHANGED <<method, buf, result, accepted, faulty, closed>>

-----------------------------------------------------------------------------

Arrived == faulty \/ made = stored

Ok(n) == result'.tag = "Ok" /\ result'.n = n /\ Arrived /\ faulty' = faulty

\* An error after which nothing is lost, and nothing was taken.
Harmless(tags) ==
  /\ result'.tag \in tags /\ result'.n = 0
  /\ used = 0 /\ Arrived /\ faulty' = faulty

Fault == result'.tag \in {"Sink", "NoProgress"} /\ result'.n = 0 /\ faulty' = TRUE

WriteReturns ==
  /\ method = "write"
  /\ \/ Ok(used) /\ (state = "open" \/ used > 0) /\ (buf > 0 => used > 0)
     \/ Harmless({"Codec"}) /\ state # "open"
     \/ Harmless({"SinkExhausted"}) /\ state = "open"
     \/ Fault
  /\ closed' = FALSE

FlushReturns ==
  /\ method = "flush"
  /\ \/ Ok(0) /\ state = "open"
     \/ Harmless({"Codec"}) /\ state # "open"
     \/ Harmless({"SinkExhausted", "Inner"}) /\ state = "open"
     \/ Fault
  /\ closed' = FALSE

FinishReturns ==
  /\ method = "finish"
  /\ \/ Ok(0) /\ state = "over" /\ closed' = TRUE
     \/ Harmless({"Codec"}) /\ state = "broken" /\ closed' = FALSE
     \/ Harmless({"SinkExhausted"}) /\ state = "finishing" /\ closed' = FALSE
     \/ Fault /\ closed' = FALSE

Return ==
  /\ WriteReturns \/ FlushReturns \/ FinishReturns
  /\ method # "flush" => result'.io # "Interrupted"
  /\ accepted' = accepted + result'.n
  /\ method' = "none" /\ buf' = 0 /\ used' = 0
  /\ UNCHANGED <<state, made, stored>>

Next == Start(method', buf') \/ Work \/ Return

MethodsReturn == method # "none" ~> method = "none"

Spec == Init /\ [][Next]_vars /\ MethodsReturn

=============================================================================
