------------------------------ MODULE JsonEnc ------------------------------
(***************************************************************************)
(* The JSON escaper (codecs/json_enc.rs).  It passes plain bytes through   *)
(* and replaces the others by escapes of several bytes.  When the output   *)
(* ends inside a scanned run it remembers what it knows about input that   *)
(* it did not consume, and applies it to the input of the next call.       *)
(*                                                                         *)
(* A byte is plain when its width is 1; the k-th byte of what b becomes is *)
(* <<b, k>>.                                                               *)
(***************************************************************************)
EXTENDS CodecCall

CONSTANTS
  Width(_)  \* how many bytes a byte becomes

\* The bytes the driver can offer.
Bytes == UNION {{s[k] : k \in DOMAIN s} : s \in Streams}

ASSUME JsonAssumption ==
  /\ Streams \subseteq Seq(Bytes)
  /\ \A b \in Bytes : Width(b) \in Nat \ {0}

VARIABLES
  literal,  \* pending_literal_len
  escape    \* pending_escape

vars == <<callVars, literal, escape>>

\* PendingEscape
NoEscape      == [tag |-> "None", bytes |-> <<>>]
NotStarted(s) == [tag |-> "NotStarted", bytes |-> s]
Started(s)    == [tag |-> "Started", bytes |-> s]

Init == CallInit /\ literal = 0 /\ escape = NoEscape

-----------------------------------------------------------------------------
(* escape_bytes of the json_escape crate.                                  *)

Plain(b) == Width(b) = 1

EscapedByte(b) == [k \in 1..Width(b) |-> <<b, k>>]

Escaped(s) == FlattenSeq([k \in DOMAIN s |-> EscapedByte(s[k])])

\* What copying s yields: a plain byte is its own escape.
Copied(s) == [k \in DOMAIN s |-> <<s[k], 1>>]

\* The first chunk of s: a run of plain bytes, and the escape after it.
LiteralLen(s) ==
  LET e == SelectInSeq(s, LAMBDA b : ~Plain(b)) IN IF e = 0 THEN Len(s) ELSE e - 1

ChunkEscape(s) == IF LiteralLen(s) = Len(s) THEN <<>> ELSE EscapedByte(s[LiteralLen(s) + 1])

-----------------------------------------------------------------------------
(* A part of the escape s was written: what is left of it.                 *)

StartedWith(s, space) == IF Stays(s, space) = <<>> THEN NoEscape ELSE Started(Stays(s, space))

-----------------------------------------------------------------------------
(* flush_pending: the started escape, the literal, the escape after it.    *)

Enter ==
  /\ at = "entry"
  /\ ~(op = "finish" /\ literal > 0)
  /\ Goes("started", 0, <<>>) /\ UNCHANGED <<literal, escape>>

\* Also the whole of `flush`.
DrainStarted ==
  /\ at = "started"
  /\ IF escape.tag = "Started"
     THEN /\ escape' = StartedWith(escape.bytes, Free)
          /\ Goes(IF escape' = NoEscape /\ op # "flush" THEN "literal" ELSE "return",
                  0, Fits(escape.bytes, Free))
     ELSE /\ UNCHANGED escape
          /\ Goes(IF op # "flush" THEN "literal" ELSE "return", 0, <<>>)
  /\ UNCHANGED literal

DrainLiteral ==
  /\ at = "literal"
  /\ LET n == Shorter(literal, Free) IN
       /\ literal' = literal - n
       /\ Goes(IF n < literal THEN "return" ELSE "escape", n, Copied(First(Remaining, n)))
  /\ UNCHANGED escape

\* The byte before the escape counts as consumed as soon as the escape starts.
Trigger == 1

StartEscape ==
  /\ at = "escape"
  /\ LET next == IF op = "process" THEN "scan" ELSE "return" IN
       IF escape.tag = "NotStarted"
       THEN /\ escape' = StartedWith(escape.bytes, Free)
            /\ Goes(IF escape' = NoEscape THEN next ELSE "return",
                    Trigger, Fits(escape.bytes, Free))
       ELSE UNCHANGED escape /\ Goes(next, 0, <<>>)
  /\ UNCHANGED literal

-----------------------------------------------------------------------------
(* The loop over the chunks in `process`.                                  *)

Chunk == LiteralLen(Remaining)

RemembersRun(n) == literal' = Chunk /\ UNCHANGED escape

\* The output ends inside the literal: remember the rest of the chunk.
Remembers(n) ==
  /\ literal' = Chunk - n
  /\ escape' = LET s == ChunkEscape(Remaining) IN
                 IF s = <<>> THEN NoEscape ELSE NotStarted(s)

ChunkIsCut ==
  /\ at = "scan" /\ consumed < input /\ Free < Chunk
  /\ Remembers(Free)
  /\ Goes("return", Free, Copied(First(Remaining, Free)))

ChunkFits ==
  /\ at = "scan" /\ consumed < input /\ Chunk <= Free
  /\ LET s     == ChunkEscape(Remaining)
         space == Free - Chunk
     IN /\ escape' = StartedWith(s, space)
        /\ Goes(IF escape' = NoEscape THEN "scan" ELSE "return",
                IF s = <<>> THEN Chunk ELSE Chunk + 1,
                Copied(First(Remaining, Chunk)) \o Fits(s, space))
  /\ UNCHANGED literal

-----------------------------------------------------------------------------
(* The answers.                                                            *)

ReturnProcess ==
  /\ op = "process"
  /\ \/ at = "return" /\ Return(OutputFilled(consumed))
     \/ at = "scan" /\ consumed = input /\ Return(InputConsumed)
  /\ UNCHANGED <<literal, escape>>

HeldUnlessFinished == escape.tag = "Started" /\ op = "flush"

StillHeld == escape.tag = "Started"

ReturnDrain ==
  /\ op \in {"flush", "finish"} /\ at = "return"
  /\ Return(IF StillHeld THEN OutputFilled(0) ELSE Done)
  /\ UNCHANGED <<literal, escape>>

\* finish: input that was scanned and not offered again.
LiteralIsMissing ==
  /\ op = "finish" /\ at = "entry" /\ literal > 0
  /\ Return(Answer("Err", 0, 0, "UnexpectedEnd"))
  /\ UNCHANGED <<literal, escape>>

-----------------------------------------------------------------------------

Driver == (CallProcess \/ CallFlush \/ CallFinish) /\ UNCHANGED <<literal, escape>>

Next ==
  \/ Driver
  \/ Enter \/ DrainStarted \/ DrainLiteral \/ StartEscape \/ ChunkIsCut \/ ChunkFits
  \/ ReturnProcess \/ ReturnDrain \/ LiteralIsMissing
  \/ Stopped /\ UNCHANGED <<literal, escape>>

JsonSpec == Init /\ [][Next]_vars

-----------------------------------------------------------------------------
(* Properties.                                                             *)

\* What an earlier scan remembered is true of the input the driver offers
\* again: so many plain bytes and then the byte of the escape, all of them
\* among the bytes it must offer.  A remembered escape follows a literal, so
\* `finish` never consumes input it was not given.
PendingDescribesInput ==
  LET ahead == SubSeq(stream, taken + 1, taken + retained) IN
    op = "idle" /\ ~Failed =>
      /\ literal <= retained
      /\ \A k \in 1..literal : Plain(ahead[k])
      /\ escape.tag = "NotStarted" =>
           /\ literal > 0 /\ literal < retained
           /\ escape.bytes = EscapedByte(ahead[literal + 1])

\* There is one JSON escaping: the codec has no settings.
EscapedOutput(setting, s) == Escaped(s)

Never(setting, s) == FALSE

Honest == INSTANCE HonestCodec WITH
  setting <- "none",
  OutputOf <- EscapedOutput, Corrupt <- Never, Truncated <- Never

\* The escaper keeps the contract of a codec: any cut of input and output gives
\* the output of one call, and every answer is true.
ImplementsHonestCodec == Honest!HonestSpec

=============================================================================
