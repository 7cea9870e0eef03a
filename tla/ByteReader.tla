----------------------------- MODULE ByteReader -----------------------------
(***************************************************************************)
(* What a reader that decodes on the fly promises its caller (the docs of  *)
(* CodecReader and of boundary_aware_pump_read): every byte the codec made *)
(* is returned exactly once and before anything else is said; Ok(0) for a  *)
(* buffer with room is the end, and stays; an error of the codec stays,    *)
(* one of the source may pass; no error is one that the caller would retry *)
(* by itself; every read returns.                                          *)
(* The raw reader, its buffer and the pump are not here.                   *)
(***************************************************************************)
EXTENDS Naturals

CONSTANT MaxMade  \* bound: bytes the codec makes

VARIABLES
  state,    \* "open", "over" once the codec has ended, "broken" once it failed
  reading,  \* a read is in progress
  buf,      \* the length of its buffer
  result,   \* what the last read returned
  made,     \* bytes the codec has made
  given     \* bytes returned to the caller

vars == <<state, reading, buf, result, made, given>>

Init ==
  /\ state = "open" /\ reading = FALSE /\ buf = 0
  /\ result.tag = "Ok" /\ result.n = 0
  /\ made = 0 /\ given = 0

OkOf(n) == result'.tag = "Ok" /\ result'.n = n

\* The error of a broken codec repeats.
CodecErr == result'.tag = "Codec" /\ (result.tag = "Codec" => result' = result)

\* A read with nothing to do: the end and the codec's error are known, or the
\* buffer is empty.
Refuse ==
  /\ ~reading
  /\ IF state = "broken" THEN CodecErr ELSE OkOf(0)
  /\ result'.io # "Interrupted"
  /\ UNCHANGED <<state, reading, buf, made, given>>

Start(b) ==
  /\ ~reading /\ state = "open" /\ b > 0
  /\ reading' = TRUE /\ buf' = b
  /\ UNCHANGED <<state, result, made, given>>

\* The codec makes bytes, no more than fit, and may end or fail with them.
Work ==
  /\ reading /\ state = "open"
  /\ made' \in made..MaxMade /\ made' <= given + buf
  /\ state' \in {"open", "over", "broken"}
  /\ UNCHANGED <<reading, buf, result, given>>

\* What was made comes first.
Return ==
  /\ reading /\ reading' = FALSE /\ buf' = 0
  /\ IF made > given THEN OkOf(made - given)
     ELSE CASE state = "over"   -> OkOf(0)
            [] state = "broken" -> CodecErr
            [] state = "open"   -> result'.tag \in {"Source", "NoProgress"}
  /\ result'.io # "Interrupted"
  /\ given' = made
  /\ UNCHANGED <<state, made>>

Next == Refuse \/ Start(buf') \/ Work \/ Return

ReadsReturn == reading ~> ~reading

Spec == Init /\ [][Next]_vars /\ ReadsReturn

=============================================================================
