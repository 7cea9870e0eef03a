--------------------------- MODULE JsonEncProofs ---------------------------
(***************************************************************************)
(* What the JSON escaper remembers of input it did not consume stays true, *)
(* and it is a codec as HonestCodec describes it, for every set of streams,*)
(* every escaping and every way to cut input and output.  The invariant    *)
(* behind PendingDescribesInput comes first, then what a stream yields, by *)
(* induction over its bytes, then the output of the calls.                 *)
(***************************************************************************)
EXTENDS JsonEnc, SequenceTheorems, WellFoundedInduction, Integers, TLAPS

Symbols == Bytes \X Nat

PendingEscape == [tag : {"None", "NotStarted", "Started"}, bytes : Seq(Symbols)]

Places == {"entry", "started", "literal", "escape", "scan", "return"}

\* The types; `last` is typed only as far as the driver looks at it.
JsonTypeOK ==
  /\ stream \in Streams
  /\ op \in {"idle", "process", "flush", "finish"}
  /\ at \in Places \cup {"idle"}
  /\ taken \in Nat /\ retained \in Nat /\ input \in Nat /\ room \in Nat
  /\ consumed \in Nat /\ literal \in Nat
  /\ buffer \in Seq(Symbols)
  /\ escape \in PendingEscape

\* The buffers of a call: what the driver offered is in the stream, and the
\* call has not gone past either end.  Only `process` has input.
BuffersInv ==
  /\ taken + retained <= Len(stream)
  /\ op = "process" => taken + input <= Len(stream)
  /\ op # "process" => input = 0
  /\ consumed <= input
  /\ Len(buffer) <= room
  /\ op = "idle" => buffer = <<>>
  /\ op = "idle" <=> at = "idle"

\* Input the codec has seen and not consumed, as far as it is the driver's
\* duty to offer it again.
Left == IF op = "process" THEN input - consumed ELSE retained

\* What is remembered is true of that input.  A remembered escape follows a
\* literal, except between writing the one and starting the other.
PendingInv ==
  /\ literal <= Left
  /\ \A k \in 1..literal : Plain(stream[taken + consumed + k])
  /\ escape.tag = "NotStarted" =>
       /\ literal < Left
       /\ escape.bytes = EscapedByte(stream[taken + consumed + literal + 1])
       /\ at # "escape" => literal > 0

\* Each place in the code is reached with the earlier stages done, and the
\* stages of `finish` after its check find nothing that needs input.
PlaceInv ==
  /\ at \in {"literal", "escape", "scan"} => escape.tag # "Started" /\ op # "flush"
  /\ at \in {"escape", "scan"} => literal = 0
  /\ at = "scan" => op = "process" /\ escape.tag = "None"
  /\ op = "finish" /\ at # "entry" => literal = 0 /\ escape.tag # "NotStarted"

IInv == JsonTypeOK /\ BuffersInv /\ PendingInv /\ PlaceInv

-----------------------------------------------------------------------------
(* The operators on sequences.                                             *)

\* The order of the naturals is well-founded.
LEMMA LessWellFounded == IsWellFoundedOn({p \in Nat \X Nat : p[1] < p[2]}, Nat)
BY NatLessThanWellFounded DEF OpToRel

\* A non-empty set of naturals has a least element.
LEMMA LeastNat ==
  ASSUME NEW S, S \subseteq Nat, S # {}
  PROVE  Min(S) \in S /\ \A n \in S : Min(S) <= n
<1>1. PICK m \in S : \A n \in S : <<n, m>> \notin {p \in Nat \X Nat : p[1] < p[2]}
  BY LessWellFounded, WFMin
<1>2. ASSUME NEW n \in S PROVE m <= n
  <2>1. n \in Nat /\ m \in Nat /\ <<n, m>> \in Nat \X Nat
    OBVIOUS
  <2>2. <<n, m>> \notin {p \in Nat \X Nat : p[1] < p[2]}
    BY <1>1
  <2>3. ~(<<n, m>>[1] < <<n, m>>[2])
    BY <2>1, <2>2, Zenon
  <2> QED BY <2>1, <2>3
<1> QED BY <1>2 DEF Min

\* A piece of a stream consists of its bytes.
LEMMA SliceOfStream ==
  ASSUME stream \in Streams, NEW a \in Nat, NEW b \in Nat, taken \in Nat,
         a <= b, taken + b <= Len(stream)
  PROVE  /\ Slice(a, b) \in Seq(Bytes) /\ Len(Slice(a, b)) = b - a
         /\ \A k \in 1..(b - a) : Slice(a, b)[k] = stream[taken + a + k]
<1>1. stream \in Seq(Bytes)
  BY JsonAssumption
<1>2. Slice(a, b) = [k \in 1..(b - a) |-> stream[taken + a + k]]
  BY <1>1 DEF Slice
<1>3. \A k \in 1..(b - a) : stream[taken + a + k] \in Bytes
  BY <1>1
<1> QED BY <1>2, <1>3

\* A prefix of a sequence.
LEMMA FirstOf ==
  ASSUME NEW S, NEW s \in Seq(S), NEW n \in 0..Len(s)
  PROVE  /\ First(s, n) \in Seq(S) /\ Len(First(s, n)) = n
         /\ \A k \in 1..n : First(s, n)[k] = s[k]
BY DEF First

\* What copying bytes yields is as long as they are.
LEMMA CopiedOf ==
  ASSUME NEW s \in Seq(Bytes)
  PROVE  Copied(s) \in Seq(Symbols) /\ Len(Copied(s)) = Len(s)
BY DEF Copied, Symbols

\* A byte becomes at least one.
LEMMA EscapedByteOf ==
  ASSUME NEW b \in Bytes
  PROVE  EscapedByte(b) \in Seq(Symbols) /\ EscapedByte(b) # <<>>
<1>1. Width(b) \in Nat \ {0}
  BY JsonAssumption
<1>2. EscapedByte(b) \in Seq(Symbols) /\ Len(EscapedByte(b)) = Width(b)
  BY <1>1 DEF EscapedByte, Symbols
<1> QED BY <1>1, <1>2

\* What fits into a space is not longer than the space.
LEMMA FitsAndStays ==
  ASSUME NEW S, NEW s \in Seq(S), NEW space \in Nat
  PROVE  /\ Fits(s, space) \in Seq(S) /\ Len(Fits(s, space)) <= space
         /\ Stays(s, space) \in Seq(S)
<1>1. Shorter(Len(s), space) \in 0..Len(s) /\ Shorter(Len(s), space) <= space
  BY DEF Shorter
<1>2. Fits(s, space) \in Seq(S) /\ Len(Fits(s, space)) <= space
  BY <1>1, FirstOf DEF Fits
<1>3. Stays(s, space) \in Seq(S)
  BY <1>1 DEF Stays, Skip
<1> QED BY <1>2, <1>3

\* The first chunk of a sequence: a run of plain bytes, as long as possible.
LEMMA LiteralLenOf ==
  ASSUME NEW s \in Seq(Bytes)
  PROVE  /\ LiteralLen(s) \in 0..Len(s)
         /\ \A k \in 1..LiteralLen(s) : Plain(s[k])
         /\ LiteralLen(s) < Len(s) => ChunkEscape(s) = EscapedByte(s[LiteralLen(s) + 1])
         /\ LiteralLen(s) = Len(s) => ChunkEscape(s) = <<>>
<1> DEFINE E == {k \in 1..Len(s) : ~Plain(s[k])}
<1>1. LiteralLen(s) = IF E = {} THEN Len(s) ELSE IF Min(E) = 0 THEN Len(s) ELSE Min(E) - 1
  BY DEF LiteralLen, SelectInSeq
<1>2. LiteralLen(s) \in 0..Len(s) /\ \A k \in 1..LiteralLen(s) : Plain(s[k])
  <2>1. CASE E = {}
    BY <1>1, <2>1
  <2>2. CASE E # {}
    <3>1. E \subseteq Nat
      OBVIOUS
    <3> HIDE DEF E
    <3>2. Min(E) \in E /\ \A k \in E : Min(E) <= k
      BY <2>2, <3>1, LeastNat
    <3> DEFINE m == Min(E)
    <3>3. m \in E /\ \A k \in E : m <= k
      BY <3>2
    <3>4. LiteralLen(s) = IF E = {} THEN Len(s) ELSE IF m = 0 THEN Len(s) ELSE m - 1
      BY <1>1
    <3> HIDE DEF m
    <3> QED BY <2>2, <3>3, <3>4 DEF E
  <2> QED BY <2>1, <2>2
<1> QED BY <1>2 DEF ChunkEscape

-----------------------------------------------------------------------------
(* The parts of a state that is in IInv.                                   *)

\* The escape a call leaves behind is started, or there is none.
LEMMA StartedWithOf ==
  ASSUME NEW s \in Seq(Symbols), NEW space \in Nat
  PROVE  /\ StartedWith(s, space) \in PendingEscape
         /\ StartedWith(s, space).tag # "NotStarted"
         /\ StartedWith(s, space) = NoEscape \/ StartedWith(s, space).tag = "Started"
<1>1. Stays(s, space) \in Seq(Symbols)
  BY FitsAndStays
<1>2. CASE Stays(s, space) = <<>>
  BY <1>2 DEF StartedWith, NoEscape, PendingEscape
<1>3. CASE Stays(s, space) # <<>>
  BY <1>1, <1>3 DEF StartedWith, Started, PendingEscape
<1> QED BY <1>2, <1>3

\* The space left in the output.
LEMMA FreeOf == IInv => Free \in Nat /\ Len(buffer) + Free = room
BY DEF IInv, JsonTypeOK, BuffersInv, Free

\* The input left to read.
LEMMA RemainingOf ==
  ASSUME IInv
  PROVE  /\ Remaining \in Seq(Bytes) /\ Len(Remaining) = input - consumed
         /\ \A k \in 1..(input - consumed) : Remaining[k] = stream[taken + consumed + k]
<1>1. /\ stream \in Streams /\ taken \in Nat /\ consumed \in Nat /\ input \in Nat
      /\ retained \in Nat
  BY DEF IInv, JsonTypeOK
<1>2. consumed <= input /\ taken + input <= Len(stream)
  <2>1. Len(stream) \in Nat
    BY <1>1, JsonAssumption
  <2> QED BY <1>1, <2>1 DEF IInv, BuffersInv
<1> QED BY <1>1, <1>2, SliceOfStream DEF Remaining

\* A copy of the next n bytes of the input is n symbols long.
LEMMA CopyOf ==
  ASSUME IInv, NEW n \in Nat, n <= input - consumed
  PROVE  Copied(First(Remaining, n)) \in Seq(Symbols) /\ Len(Copied(First(Remaining, n))) = n
<1>1. Remaining \in Seq(Bytes) /\ n \in 0..Len(Remaining)
  BY RemainingOf
<1>2. First(Remaining, n) \in Seq(Bytes) /\ Len(First(Remaining, n)) = n
  BY <1>1, FirstOf
<1> QED BY <1>2, CopiedOf

\* A step inside a call that moves what it may keeps the buffers in order.
LEMMA GoesInv ==
  ASSUME IInv, op # "idle", NEW place \in Places,
         NEW c \in Nat, consumed + c <= input,
         NEW bytes \in Seq(Symbols), Len(bytes) <= Free,
         Goes(place, c, bytes), literal' \in Nat, escape' \in PendingEscape
  PROVE  JsonTypeOK' /\ BuffersInv'
<1>1. buffer' \in Seq(Symbols) /\ Len(buffer') = Len(buffer) + Len(bytes)
  BY DEF IInv, JsonTypeOK, Goes
<1>2. JsonTypeOK'
  BY <1>1 DEF IInv, JsonTypeOK, Goes, Places
<1>3. at' # "idle" /\ op' = op
  BY DEF Goes, Places
<1>4. consumed' <= input' /\ Len(buffer') <= room'
  BY <1>1, FreeOf DEF IInv, JsonTypeOK, Goes
<1> QED BY <1>2, <1>3, <1>4 DEF IInv, BuffersInv, Goes

\* Nothing written, nothing consumed.
LEMMA GoesOnInv ==
  ASSUME IInv, op # "idle", NEW place \in Places,
         Goes(place, 0, <<>>), UNCHANGED <<literal, escape>>
  PROVE  JsonTypeOK' /\ BuffersInv'
<1>1. consumed + 0 <= input /\ Len(<<>>) <= Free /\ <<>> \in Seq(Symbols)
  BY FreeOf DEF IInv, JsonTypeOK, BuffersInv
<1>2. literal' \in Nat /\ escape' \in PendingEscape
  BY DEF IInv, JsonTypeOK
<1> QED BY <1>1, <1>2, GoesInv

-----------------------------------------------------------------------------
(* The steps inside a call.                                                *)

\* Entering flush_pending: `finish` has checked that it needs no input.
LEMMA EnterInv == IInv /\ Enter => IInv'
<1> SUFFICES ASSUME IInv, Enter PROVE IInv'
  OBVIOUS
<1>1. op # "idle"
  BY DEF IInv, BuffersInv, Enter
<1>2. Goes("started", 0, <<>>) /\ UNCHANGED <<literal, escape>>
  BY DEF Enter
<1>3. JsonTypeOK' /\ BuffersInv'
  BY <1>1, <1>2, GoesOnInv DEF Places
<1>4. /\ at = "entry" /\ at' = "started"
      /\ UNCHANGED <<stream, taken, retained, op, input>> /\ consumed' = consumed
  BY <1>2 DEF Enter, Goes, IInv, JsonTypeOK
<1>5. PendingInv'
  BY <1>2, <1>4 DEF IInv, PendingInv, Left, Plain, EscapedByte
<1>6. op = "finish" => literal = 0
  BY DEF Enter, IInv, JsonTypeOK
<1>7. PlaceInv'
  BY <1>2, <1>4, <1>6 DEF IInv, PlaceInv, PendingInv
<1> QED BY <1>3, <1>5, <1>7 DEF IInv

\* The rest of a started escape: no input is involved.
LEMMA DrainStartedInv == IInv /\ DrainStarted => IInv'
<1> SUFFICES ASSUME IInv, DrainStarted PROVE IInv'
  OBVIOUS
<1>1. op # "idle" /\ at = "started" /\ literal' = literal
  BY DEF IInv, BuffersInv, DrainStarted
<1>2. literal \in Nat /\ escape \in PendingEscape /\ consumed \in Nat /\ consumed + 0 <= input
  BY DEF IInv, JsonTypeOK, BuffersInv
<1>3. CASE escape.tag = "Started"
  <2>1. /\ escape' = StartedWith(escape.bytes, Free)
        /\ Goes(IF escape' = NoEscape /\ op # "flush" THEN "literal" ELSE "return",
                0, Fits(escape.bytes, Free))
    BY <1>3 DEF DrainStarted
  <2>2. escape.bytes \in Seq(Symbols) /\ Free \in Nat
    BY <1>2, FreeOf DEF PendingEscape
  <2>3. /\ escape' \in PendingEscape /\ escape'.tag # "NotStarted"
        /\ escape' = NoEscape \/ escape'.tag = "Started"
    BY <2>1, <2>2, StartedWithOf
  <2>4. Fits(escape.bytes, Free) \in Seq(Symbols) /\ Len(Fits(escape.bytes, Free)) <= Free
    BY <2>2, FitsAndStays
  <2>5. PICK place \in {"literal", "return"} :
          /\ place = IF escape' = NoEscape /\ op # "flush" THEN "literal" ELSE "return"
          /\ Goes(place, 0, Fits(escape.bytes, Free))
    BY <2>1
  <2>6. JsonTypeOK' /\ BuffersInv'
    <3>1. place \in Places /\ literal' \in Nat
      BY <1>1, <1>2 DEF Places
    <3> QED BY <1>1, <1>2, <2>3, <2>4, <2>5, <3>1, GoesInv
  <2>7. UNCHANGED <<stream, taken, retained, op, input>> /\ consumed' = consumed /\ at' = place
    BY <1>2, <2>5 DEF Goes
  <2>8. PendingInv'
    BY <1>1, <2>3, <2>7 DEF IInv, PendingInv, Left, Plain
  <2>9. PlaceInv'
    <3>1. at' = "literal" => escape'.tag # "Started" /\ op' # "flush"
      BY <2>5, <2>7 DEF NoEscape
    <3>2. op' = "finish" => literal' = 0 /\ escape'.tag # "NotStarted"
      BY <1>1, <2>3, <2>7 DEF IInv, PlaceInv
    <3>3. at' \in {"literal", "return"}
      BY <2>7
    <3> QED BY <3>1, <3>2, <3>3 DEF PlaceInv
  <2> QED BY <2>6, <2>8, <2>9 DEF IInv
<1>4. CASE escape.tag # "Started"
  <2>1. PICK place \in {"literal", "return"} :
          /\ place = IF op # "flush" THEN "literal" ELSE "return"
          /\ Goes(place, 0, <<>>) /\ escape' = escape
    BY <1>4 DEF DrainStarted
  <2>2. JsonTypeOK' /\ BuffersInv'
    <3>1. place \in Places
      BY DEF Places
    <3> QED BY <1>1, <2>1, <3>1, GoesOnInv
  <2>3. UNCHANGED <<stream, taken, retained, op, input>> /\ consumed' = consumed /\ at' = place
    BY <1>2, <2>1 DEF Goes
  <2>4. PendingInv'
    BY <1>1, <2>1, <2>3 DEF IInv, PendingInv, Left, Plain, EscapedByte
  <2>5. PlaceInv'
    BY <1>1, <1>4, <2>1, <2>3 DEF IInv, PlaceInv
  <2> QED BY <2>2, <2>4, <2>5 DEF IInv
<1> QED BY <1>3, <1>4

\* How far the remembered literal is copied: it is input of this call.
LEMMA DrainLiteralMoves ==
  ASSUME IInv, DrainLiteral
  PROVE  LET n     == Shorter(literal, Free)
             bytes == Copied(First(Remaining, n))
         IN  /\ op # "idle" /\ at = "literal" /\ escape' = escape /\ literal' = literal - n
             /\ Goes(IF n < literal THEN "return" ELSE "escape", n, bytes)
             /\ n \in Nat /\ n <= literal /\ n <= Free /\ n <= input - consumed
             /\ bytes \in Seq(Symbols) /\ Len(bytes) = n
<1> DEFINE n == Shorter(literal, Free)
           bytes == Copied(First(Remaining, n))
<1>1. /\ op # "idle" /\ at = "literal" /\ escape' = escape /\ literal' = literal - n
      /\ Goes(IF n < literal THEN "return" ELSE "escape", n, bytes)
  BY DEF IInv, BuffersInv, DrainLiteral
<1>2. /\ literal \in Nat /\ escape \in PendingEscape /\ consumed \in Nat /\ input \in Nat
      /\ taken \in Nat /\ retained \in Nat /\ consumed <= input
      /\ op \in {"process", "flush", "finish"}
  BY <1>1 DEF IInv, JsonTypeOK, BuffersInv
<1>3. n \in Nat /\ n <= literal /\ n <= Free
  BY <1>2, FreeOf DEF Shorter
<1>4. n <= input - consumed
  <2>1. op # "flush" /\ (op = "finish" => literal = 0)
    BY <1>1 DEF IInv, PlaceInv
  <2>2. op = "process" => literal <= input - consumed
    BY DEF IInv, PendingInv, Left
  <2> QED BY <1>2, <1>3, <2>1, <2>2
<1>5. bytes \in Seq(Symbols) /\ Len(bytes) = n
  BY <1>3, <1>4, CopyOf
<1> QED BY <1>1, <1>3, <1>4, <1>5

\* The remembered literal is copied from the input it was found in.
LEMMA DrainLiteralInv == IInv /\ DrainLiteral => IInv'
<1> SUFFICES ASSUME IInv, DrainLiteral PROVE IInv'
  OBVIOUS
<1> DEFINE n == Shorter(literal, Free)
           bytes == Copied(First(Remaining, n))
<1>1. /\ op # "idle" /\ at = "literal" /\ escape' = escape /\ literal' = literal - n
      /\ Goes(IF n < literal THEN "return" ELSE "escape", n, bytes)
      /\ n \in Nat /\ n <= literal /\ n <= Free /\ n <= input - consumed
      /\ bytes \in Seq(Symbols) /\ Len(bytes) = n
  BY DrainLiteralMoves
<1>2. /\ literal \in Nat /\ escape \in PendingEscape /\ consumed \in Nat /\ input \in Nat
      /\ taken \in Nat /\ retained \in Nat /\ consumed <= input
      /\ op \in {"process", "flush", "finish"}
  BY <1>1 DEF IInv, JsonTypeOK, BuffersInv
<1>3. n \in Nat /\ n <= literal /\ n <= Free
  BY <1>1
<1>4. n <= input - consumed
  BY <1>1
<1>5. bytes \in Seq(Symbols) /\ Len(bytes) = n
  BY <1>1
<1> HIDE DEF bytes, n
<1>6. PICK place \in {"return", "escape"} :
        place = (IF n < literal THEN "return" ELSE "escape") /\ Goes(place, n, bytes)
  BY <1>1
<1>7. JsonTypeOK' /\ BuffersInv'
  <2>1. place \in Places /\ literal' \in Nat /\ escape' \in PendingEscape
    BY <1>1, <1>2, <1>3 DEF Places
  <2>2. consumed + n <= input /\ Len(bytes) <= Free
    BY <1>2, <1>3, <1>4, <1>5
  <2> QED BY <1>1, <1>3, <1>5, <1>6, <2>1, <2>2, GoesInv
<1>8. /\ UNCHANGED <<stream, taken, retained, op, input>>
      /\ consumed' = consumed + n /\ at' = place
  BY <1>6 DEF Goes
<1>9. PendingInv'
  <2>1. literal' <= Left'
    <3>1. CASE op = "process"
      BY <1>1, <1>2, <1>3, <1>8, <3>1 DEF IInv, PendingInv, Left
    <3>2. CASE op # "process"
      BY <1>1, <1>2, <1>3, <1>8, <3>2 DEF IInv, PendingInv, Left
    <3> QED BY <3>1, <3>2
  <2>2. ASSUME NEW k \in 1..literal' PROVE Plain(stream'[taken' + consumed' + k])
    <3>1. n + k \in 1..literal
      BY <1>1, <1>2, <1>3
    <3>2. taken' + consumed' + k = taken + consumed + (n + k)
      BY <1>1, <1>2, <1>3, <1>8
    <3> QED BY <1>8, <3>1, <3>2 DEF IInv, PendingInv, Plain
  <2>3. ASSUME escape'.tag = "NotStarted"
        PROVE  /\ literal' < Left'
               /\ escape'.bytes = EscapedByte(stream'[taken' + consumed' + literal' + 1])
               /\ at' # "escape" => literal' > 0
    <3>1. /\ literal < Left /\ op # "finish" /\ op # "flush"
          /\ escape.bytes = EscapedByte(stream[taken + consumed + literal + 1])
      BY <1>1, <2>3 DEF IInv, PendingInv, PlaceInv
    <3>2. op = "process" /\ Left = input - consumed /\ Left' = input - (consumed + n)
      BY <1>2, <1>8, <3>1 DEF Left
    <3>3. taken' + consumed' + literal' + 1 = taken + consumed + literal + 1
      BY <1>1, <1>2, <1>3, <1>8
    <3>4. literal' < Left'
      BY <1>1, <1>2, <1>3, <3>1, <3>2
    <3>5. at' # "escape" => literal' > 0
      BY <1>1, <1>2, <1>3, <1>6, <1>8
    <3>6. escape'.bytes = EscapedByte(stream'[taken' + consumed' + literal' + 1])
      BY <1>1, <1>8, <3>1, <3>3 DEF EscapedByte
    <3> QED BY <3>4, <3>5, <3>6
  <2> QED BY <2>1, <2>2, <2>3 DEF PendingInv
<1>10. PlaceInv'
  <2>1. at' = "escape" => literal' = 0
    BY <1>1, <1>2, <1>3, <1>6, <1>8
  <2>2. op = "finish" => literal' = 0
    BY <1>1, <1>2, <1>3 DEF IInv, PlaceInv
  <2> QED BY <1>1, <1>8, <2>1, <2>2 DEF IInv, PlaceInv
<1> QED BY <1>7, <1>9, <1>10 DEF IInv

\* Starting the remembered escape consumes its byte, which `process` has.
LEMMA StartEscapeInv == IInv /\ StartEscape => IInv'
<1> SUFFICES ASSUME IInv, StartEscape PROVE IInv'
  OBVIOUS
<1>1. /\ op # "idle" /\ at = "escape" /\ literal' = literal /\ literal = 0
      /\ escape.tag # "Started" /\ op # "flush"
  BY DEF IInv, BuffersInv, PlaceInv, StartEscape
<1>2. /\ escape \in PendingEscape /\ consumed \in Nat /\ input \in Nat /\ retained \in Nat
      /\ taken \in Nat /\ consumed <= input /\ op \in {"process", "finish"}
  BY <1>1 DEF IInv, JsonTypeOK, BuffersInv
<1> DEFINE next == IF op = "process" THEN "scan" ELSE "return"
<1>3. CASE escape.tag = "NotStarted"
  <2>1. /\ escape' = StartedWith(escape.bytes, Free)
        /\ Goes(IF escape' = NoEscape THEN next ELSE "return", 1, Fits(escape.bytes, Free))
    BY <1>3 DEF StartEscape, Trigger
  <2>2. op = "process" /\ consumed + 1 <= input
    BY <1>1, <1>2, <1>3 DEF IInv, PendingInv, PlaceInv, Left
  <2>3. escape.bytes \in Seq(Symbols) /\ Free \in Nat
    BY <1>2, FreeOf DEF PendingEscape
  <2>4. /\ escape' \in PendingEscape /\ escape'.tag # "NotStarted"
        /\ escape' = NoEscape \/ escape'.tag = "Started"
    BY <2>1, <2>3, StartedWithOf
  <2>5. Fits(escape.bytes, Free) \in Seq(Symbols) /\ Len(Fits(escape.bytes, Free)) <= Free
    BY <2>3, FitsAndStays
  <2>6. PICK place \in {"scan", "return"} :
          /\ place = IF escape' = NoEscape THEN next ELSE "return"
          /\ Goes(place, 1, Fits(escape.bytes, Free))
    BY <2>1
  <2>7. JsonTypeOK' /\ BuffersInv'
    <3>1. place \in Places /\ literal' \in Nat
      BY <1>1 DEF Places
    <3> QED BY <1>1, <2>2, <2>4, <2>5, <2>6, <3>1, GoesInv
  <2>8. /\ UNCHANGED <<stream, taken, retained, op, input>>
        /\ consumed' = consumed + 1 /\ at' = place
    BY <2>6 DEF Goes
  <2>9. PendingInv'
    BY <1>1, <1>2, <2>2, <2>4, <2>8 DEF PendingInv, Left
  <2>10. PlaceInv'
    BY <1>1, <2>2, <2>4, <2>6, <2>8 DEF PlaceInv, NoEscape
  <2> QED BY <2>7, <2>9, <2>10 DEF IInv
<1>4. CASE escape.tag # "NotStarted"
  <2>1. PICK place \in {"scan", "return"} :
          place = next /\ Goes(place, 0, <<>>) /\ escape' = escape
    BY <1>4 DEF StartEscape
  <2>2. JsonTypeOK' /\ BuffersInv'
    <3>1. place \in Places
      BY DEF Places
    <3> QED BY <1>1, <2>1, <3>1, GoesOnInv
  <2>3. UNCHANGED <<stream, taken, retained, op, input>> /\ consumed' = consumed /\ at' = place
    BY <1>2, <2>1 DEF Goes
  <2>4. PendingInv'
    BY <1>1, <1>4, <2>1, <2>3 DEF IInv, PendingInv, Left, Plain
  <2>5. at' = "scan" => op' = "process" /\ escape'.tag = "None"
    <3>1. escape.tag = "None"
      BY <1>1, <1>2, <1>4 DEF PendingEscape
    <3> QED BY <2>1, <2>3, <3>1
  <2>6. PlaceInv'
    BY <1>1, <1>4, <2>1, <2>3, <2>5 DEF IInv, PlaceInv
  <2> QED BY <2>2, <2>4, <2>6 DEF IInv
<1> QED BY <1>3, <1>4

\* What a pass of the loop knows of the chunk it looks at.
LEMMA ChunkOf ==
  ASSUME IInv
  PROVE  /\ Chunk \in 0..(input - consumed)
         /\ \A k \in 1..Chunk : Plain(stream[taken + consumed + k])
         /\ Chunk < input - consumed =>
              /\ ChunkEscape(Remaining) = EscapedByte(stream[taken + consumed + Chunk + 1])
              /\ ChunkEscape(Remaining) # <<>>
         /\ Chunk = input - consumed => ChunkEscape(Remaining) = <<>>
         /\ ChunkEscape(Remaining) \in Seq(Symbols)
<1> DEFINE R == Remaining
<1>1. /\ R \in Seq(Bytes) /\ Len(R) = input - consumed
      /\ \A k \in 1..(input - consumed) : R[k] = stream[taken + consumed + k]
  BY RemainingOf
<1>2. Chunk = LiteralLen(R)
  BY DEF Chunk
<1> HIDE DEF R
<1>3. /\ Chunk \in 0..Len(R)
      /\ \A k \in 1..Chunk : Plain(R[k])
      /\ Chunk < Len(R) => ChunkEscape(R) = EscapedByte(R[Chunk + 1])
      /\ Chunk = Len(R) => ChunkEscape(R) = <<>>
  BY <1>1, <1>2, LiteralLenOf
<1>4. \A k \in 1..Chunk : Plain(stream[taken + consumed + k])
  <2>1. \A k \in 1..Chunk : R[k] = stream[taken + consumed + k]
    BY <1>1, <1>3
  <2> QED BY <1>3, <2>1 DEF Plain
<1>5. CASE Chunk < Len(R)
  <2>1. Chunk + 1 \in 1..Len(R) /\ R[Chunk + 1] = stream[taken + consumed + (Chunk + 1)]
    BY <1>1, <1>3, <1>5
  <2>2. R[Chunk + 1] \in Bytes
    BY <1>1, <2>1
  <2>3. ChunkEscape(R) \in Seq(Symbols) /\ ChunkEscape(R) # <<>>
    BY <1>3, <1>5, <2>2, EscapedByteOf
  <2>4. taken + consumed + (Chunk + 1) = taken + consumed + Chunk + 1
    BY <1>1, <1>3 DEF IInv, JsonTypeOK
  <2>5. ChunkEscape(R) = EscapedByte(stream[taken + consumed + Chunk + 1])
    BY <1>3, <1>5, <2>1, <2>4
  <2> QED BY <1>1, <1>3, <1>4, <1>5, <2>3, <2>5 DEF R
<1>6. CASE Chunk = Len(R)
  BY <1>1, <1>3, <1>4, <1>6 DEF R
<1> QED BY <1>1, <1>3, <1>5, <1>6

\* The literal does not fit: the rest of the chunk is remembered.
LEMMA ChunkIsCutInv == IInv /\ ChunkIsCut => IInv'
<1> SUFFICES ASSUME IInv, ChunkIsCut PROVE IInv'
  OBVIOUS
<1> DEFINE n == Free
           s == ChunkEscape(Remaining)
           bytes == Copied(First(Remaining, Free))
<1>1. /\ op = "process" /\ at = "scan" /\ n < Chunk
      /\ literal' = Chunk - n
      /\ escape' = IF s = <<>> THEN NoEscape ELSE NotStarted(s)
      /\ Goes("return", n, bytes)
  BY DEF IInv, PlaceInv, ChunkIsCut, Remembers
<1>2. /\ consumed \in Nat /\ input \in Nat /\ taken \in Nat /\ consumed <= input
      /\ n \in Nat /\ Chunk \in Nat /\ Chunk <= input - consumed
  BY FreeOf, ChunkOf DEF IInv, JsonTypeOK, BuffersInv
<1>3. bytes \in Seq(Symbols) /\ Len(bytes) = n
  <2>1. n <= input - consumed
    BY <1>1, <1>2
  <2> QED BY <1>2, <2>1, CopyOf
<1>4. /\ \A k \in 1..Chunk : Plain(stream[taken + consumed + k])
      /\ s # <<>> =>
           /\ Chunk < input - consumed
           /\ s = EscapedByte(stream[taken + consumed + Chunk + 1])
      /\ s \in Seq(Symbols)
  BY <1>2, ChunkOf
<1>5. /\ literal' \in Nat /\ literal' > 0 /\ escape' \in PendingEscape
      /\ escape'.tag # "Started"
      /\ escape'.tag = "NotStarted" => s # <<>> /\ escape'.bytes = s
  BY <1>1, <1>2, <1>4 DEF NoEscape, NotStarted, PendingEscape
<1> HIDE DEF bytes, s, n
<1>6. JsonTypeOK' /\ BuffersInv'
  <2>1. consumed + n <= input /\ Len(bytes) <= Free
    BY <1>1, <1>2, <1>3 DEF n
  <2> QED BY <1>1, <1>2, <1>3, <1>5, <2>1, GoesInv DEF Places
<1>7. /\ UNCHANGED <<stream, taken, retained, op, input>>
      /\ consumed' = consumed + n /\ at' = "return"
  BY <1>1 DEF Goes
<1>8. PendingInv'
  <2>1. Left' = input - (consumed + n)
    BY <1>1, <1>7 DEF Left
  <2>2. literal' <= Left'
    BY <1>1, <1>2, <2>1
  <2>3. ASSUME NEW k \in 1..literal' PROVE Plain(stream'[taken' + consumed' + k])
    <3>1. n + k \in 1..Chunk /\ taken' + consumed' + k = taken + consumed + (n + k)
      BY <1>1, <1>2, <1>7
    <3> QED BY <1>4, <1>7, <3>1 DEF Plain
  <2>4. ASSUME escape'.tag = "NotStarted"
        PROVE  /\ literal' < Left'
               /\ escape'.bytes = EscapedByte(stream'[taken' + consumed' + literal' + 1])
    <3>1. taken' + consumed' + literal' + 1 = taken + consumed + Chunk + 1
      BY <1>1, <1>2, <1>7
    <3>2. Chunk < input - consumed /\ escape'.bytes = s
      BY <1>4, <1>5, <2>4
    <3>3. literal' < Left'
      BY <1>1, <1>2, <2>1, <3>2
    <3>4. escape'.bytes = EscapedByte(stream'[taken' + consumed' + literal' + 1])
      BY <1>4, <1>5, <1>7, <2>4, <3>1 DEF EscapedByte
    <3> QED BY <3>3, <3>4
  <2> QED BY <1>5, <2>2, <2>3, <2>4 DEF PendingInv
<1>9. PlaceInv'
  BY <1>1, <1>7 DEF PlaceInv
<1> QED BY <1>6, <1>8, <1>9 DEF IInv

\* The literal fits: its escape follows, as far as it fits.
LEMMA ChunkFitsInv == IInv /\ ChunkFits => IInv'
<1> SUFFICES ASSUME IInv, ChunkFits PROVE IInv'
  OBVIOUS
<1> DEFINE s     == ChunkEscape(Remaining)
           space == Free - Chunk
           c     == IF s = <<>> THEN Chunk ELSE Chunk + 1
           copy  == Copied(First(Remaining, Chunk))
           bytes == copy \o Fits(s, space)
<1>1. /\ op = "process" /\ at = "scan" /\ Chunk <= Free /\ literal' = literal /\ literal = 0
      /\ escape' = StartedWith(s, space)
      /\ Goes(IF escape' = NoEscape THEN "scan" ELSE "return", c, bytes)
  BY DEF IInv, PlaceInv, ChunkFits
<1>2. /\ consumed \in Nat /\ input \in Nat /\ taken \in Nat /\ consumed <= input
      /\ Free \in Nat /\ Chunk \in Nat /\ Chunk <= input - consumed
      /\ space \in Nat /\ s \in Seq(Symbols)
      /\ c \in Nat /\ consumed + c <= input
  <2>1. /\ consumed \in Nat /\ input \in Nat /\ taken \in Nat /\ consumed <= input
        /\ Free \in Nat /\ Chunk \in Nat /\ Chunk <= input - consumed /\ s \in Seq(Symbols)
    BY FreeOf, ChunkOf DEF IInv, JsonTypeOK, BuffersInv
  <2>2. s # <<>> => Chunk < input - consumed
    BY <2>1, ChunkOf
  <2> QED BY <1>1, <2>1, <2>2
<1>3. copy \in Seq(Symbols) /\ Len(copy) = Chunk
  BY <1>2, CopyOf
<1>4. Fits(s, space) \in Seq(Symbols) /\ Len(Fits(s, space)) <= space
  BY <1>2, FitsAndStays
<1>5. /\ escape' \in PendingEscape /\ escape'.tag # "NotStarted"
      /\ escape' = NoEscape \/ escape'.tag = "Started"
  BY <1>1, <1>2, StartedWithOf
<1> HIDE DEF copy, s, c
<1>6. bytes \in Seq(Symbols) /\ Len(bytes) <= Free
  BY <1>1, <1>2, <1>3, <1>4
<1> HIDE DEF bytes, space
<1>7. PICK place \in {"scan", "return"} :
        place = (IF escape' = NoEscape THEN "scan" ELSE "return") /\ Goes(place, c, bytes)
  BY <1>1
<1>8. JsonTypeOK' /\ BuffersInv'
  <2>1. place \in Places /\ literal' \in Nat
    BY <1>1 DEF Places
  <2> QED BY <1>1, <1>2, <1>5, <1>6, <1>7, <2>1, GoesInv
<1>9. /\ UNCHANGED <<stream, taken, retained, op, input>>
      /\ consumed' = consumed + c /\ at' = place
  BY <1>7 DEF Goes
<1>10. PendingInv'
  BY <1>1, <1>2, <1>5, <1>9 DEF PendingInv, Left
<1>11. PlaceInv'
  BY <1>1, <1>5, <1>7, <1>9 DEF PlaceInv, NoEscape
<1> QED BY <1>8, <1>10, <1>11 DEF IInv

-----------------------------------------------------------------------------
(* The answers and the driver.                                             *)

\* An answer that reports what was consumed hands the rest of the input back
\* to the driver, and with it all that the codec remembers.
LEMMA ReturnInv ==
  ASSUME IInv, op # "idle", NEW a, Return(a), UNCHANGED <<literal, escape>>,
         a.consumed = IF op = "process" THEN consumed ELSE 0,
         at # "escape", at # "entry" \/ op = "finish"
  PROVE  IInv'
<1>1. /\ taken \in Nat /\ consumed \in Nat /\ input \in Nat /\ retained \in Nat
      /\ consumed <= input /\ taken + retained <= Len(stream)
      /\ op = "process" => taken + input <= Len(stream)
      /\ op # "process" => consumed = 0
      /\ Len(stream) \in Nat
  <2>1. stream \in Seq(Bytes)
    BY JsonAssumption DEF IInv, JsonTypeOK
  <2> QED BY <2>1 DEF IInv, JsonTypeOK, BuffersInv
<1>2. /\ op' = "idle" /\ at' = "idle" /\ input' = 0 /\ room' = 0 /\ consumed' = 0
      /\ buffer' = <<>> /\ stream' = stream
      /\ taken' = taken + a.consumed
      /\ retained' = IF op = "process" THEN input - a.consumed ELSE retained
      /\ literal' = literal /\ escape' = escape
  BY DEF Return
<1>3. taken' \in Nat /\ retained' \in Nat /\ taken' + consumed' = taken + consumed
  BY <1>1, <1>2
<1>4. JsonTypeOK'
  BY <1>2, <1>3 DEF IInv, JsonTypeOK
<1>5. BuffersInv'
  <2>1. taken' + retained' <= Len(stream')
    BY <1>1, <1>2
  <2> QED BY <1>2, <2>1 DEF BuffersInv
<1>6. PendingInv'
  <2>1. Left' = Left
    BY <1>1, <1>2 DEF Left
  <2>2. ASSUME NEW k \in 1..literal' PROVE Plain(stream'[taken' + consumed' + k])
    BY <1>2, <1>3 DEF IInv, PendingInv, Plain
  <2>3. ASSUME escape'.tag = "NotStarted"
        PROVE  /\ literal' < Left' /\ literal' > 0
               /\ escape'.bytes = EscapedByte(stream'[taken' + consumed' + literal' + 1])
    BY <1>2, <1>3, <2>1, <2>3 DEF IInv, PendingInv, EscapedByte
  <2> QED BY <1>2, <2>1, <2>2, <2>3 DEF IInv, PendingInv
<1>7. PlaceInv'
  BY <1>2 DEF PlaceInv
<1> QED BY <1>4, <1>5, <1>6, <1>7 DEF IInv

\* `process` hands back what it did not consume.
LEMMA ReturnProcessInv == IInv /\ ReturnProcess => IInv'
<1> SUFFICES ASSUME IInv, ReturnProcess PROVE IInv'
  OBVIOUS
<1>1. op = "process" /\ UNCHANGED <<literal, escape>>
  BY DEF ReturnProcess
<1>2. CASE at = "return" /\ Return(OutputFilled(consumed))
  BY <1>1, <1>2, ReturnInv DEF OutputFilled, Answer
<1>3. CASE at = "scan" /\ consumed = input /\ Return(InputConsumed)
  BY <1>1, <1>3, ReturnInv DEF InputConsumed, Answer
<1> QED BY <1>2, <1>3 DEF ReturnProcess

\* A drain consumes nothing.
LEMMA ReturnDrainInv == IInv /\ ReturnDrain => IInv'
<1> SUFFICES ASSUME IInv, ReturnDrain PROVE IInv'
  OBVIOUS
<1>1. op \in {"flush", "finish"} /\ at = "return" /\ UNCHANGED <<literal, escape>>
  BY DEF ReturnDrain
<1>2. PICK a \in {OutputFilled(0), Done} : Return(a)
  BY DEF ReturnDrain
<1>3. a.consumed = 0
  BY <1>2 DEF OutputFilled, Done, Answer
<1> QED BY <1>1, <1>2, <1>3, ReturnInv

\* The error of `finish` consumes nothing either.
LEMMA LiteralIsMissingInv == IInv /\ LiteralIsMissing => IInv'
BY ReturnInv DEF LiteralIsMissing, Answer

\* The driver offers again what it got back, perhaps with more after it.
LEMMA DriverInv == IInv /\ Driver => IInv'
<1> SUFFICES ASSUME IInv, Driver PROVE IInv'
  OBVIOUS
<1>1. PICK name \in {"process", "flush", "finish"},
           i \in 0..Len(stream), o \in Rooms :
        /\ Begin(name, i, o)
        /\ name = "process" => retained <= i /\ taken + i <= Len(stream)
        /\ name # "process" => i = 0
  <2>1. stream \in Seq(Bytes) /\ taken \in Nat /\ retained \in Nat
    BY JsonAssumption DEF IInv, JsonTypeOK
  <2>2. CASE CallProcess
    <3>1. PICK i \in retained..(Len(stream) - taken), o \in Rooms : Begin("process", i, o)
      BY <2>2 DEF CallProcess
    <3>2. i \in 0..Len(stream) /\ retained <= i /\ taken + i <= Len(stream)
      BY <2>1, <3>1
    <3> QED BY <3>1, <3>2
  <2>3. CASE CallFlush
    BY <2>1, <2>3 DEF CallFlush
  <2>4. CASE CallFinish
    BY <2>1, <2>4 DEF CallFinish
  <2> QED BY <2>2, <2>3, <2>4 DEF Driver
<1>2. /\ op = "idle" /\ op' = name /\ at' = "entry" /\ input' = i /\ room' = o
      /\ UNCHANGED <<stream, taken, retained, consumed, buffer, literal, escape>>
  BY <1>1 DEF Begin, Driver
<1>3. /\ at = "idle" /\ input = 0 /\ consumed = 0 /\ buffer = <<>> /\ o \in Nat
      /\ literal \in Nat /\ retained \in Nat /\ taken \in Nat
  BY <1>1, <1>2, CallAssumption DEF IInv, JsonTypeOK, BuffersInv
<1>4. JsonTypeOK'
  BY <1>1, <1>2, <1>3 DEF IInv, JsonTypeOK, Places
<1>5. BuffersInv'
  BY <1>1, <1>2, <1>3 DEF IInv, BuffersInv
<1>6. PendingInv'
  <2>1. Left = retained /\ Left <= Left' /\ Left' \in Nat
    BY <1>1, <1>2, <1>3 DEF Left
  <2>2. literal' <= Left' /\ (escape'.tag = "NotStarted" => literal' < Left')
    BY <1>2, <1>3, <2>1 DEF IInv, PendingInv
  <2> QED BY <1>2, <1>3, <2>2 DEF IInv, PendingInv, Plain, EscapedByte
<1>7. PlaceInv'
  BY <1>2 DEF PlaceInv
<1> QED BY <1>4, <1>5, <1>6, <1>7 DEF IInv

-----------------------------------------------------------------------------

\* Every step keeps the invariant.
LEMMA StepInv == IInv /\ [Next]_vars => IInv'
<1> SUFFICES ASSUME IInv, [Next]_vars PROVE IInv'
  OBVIOUS
<1>1. CASE Enter \/ DrainStarted \/ DrainLiteral \/ StartEscape
  BY <1>1, EnterInv, DrainStartedInv, DrainLiteralInv, StartEscapeInv
<1>2. CASE ChunkIsCut \/ ChunkFits
  BY <1>2, ChunkIsCutInv, ChunkFitsInv
<1>3. CASE ReturnProcess \/ ReturnDrain \/ LiteralIsMissing
  BY <1>3, ReturnProcessInv, ReturnDrainInv, LiteralIsMissingInv
<1>4. CASE Driver
  BY <1>4, DriverInv
<1>5. CASE UNCHANGED vars \/ (Stopped /\ UNCHANGED <<literal, escape>>)
  BY <1>5 DEF IInv, JsonTypeOK, BuffersInv, PendingInv, PlaceInv, Left, Plain, EscapedByte,
              vars, callVars, Stopped
<1> QED BY <1>1, <1>2, <1>3, <1>4, <1>5 DEF Next

\* It holds at the start: nothing is remembered.
LEMMA InitInv == Init => IInv
<1> SUFFICES ASSUME Init PROVE IInv
  OBVIOUS
<1>1. stream \in Streams /\ Len(stream) \in Nat
  BY JsonAssumption DEF Init, CallInit
<1>2. escape \in PendingEscape /\ escape.tag = "None"
  BY DEF Init, NoEscape, PendingEscape
<1> QED BY <1>1, <1>2 DEF Init, CallInit, IInv, JsonTypeOK, BuffersInv, PendingInv, PlaceInv, Left

\* What an earlier scan remembered is true of the input the driver must offer
\* again, in every state between calls: the bytes flush_pending copies without
\* a look at them are plain, the escape it starts is the one of the byte it
\* skips, and all of them are among the bytes not consumed yet (json_enc.rs).
THEOREM JsonPendingIsTrue == JsonSpec => []PendingDescribesInput
<1>1. IInv => PendingDescribesInput
  <2> SUFFICES ASSUME IInv, op = "idle" PROVE
        LET ahead == SubSeq(stream, taken + 1, taken + retained) IN
          /\ literal <= retained
          /\ \A k \in 1..literal : Plain(ahead[k])
          /\ escape.tag = "NotStarted" =>
               /\ literal > 0 /\ literal < retained
               /\ escape.bytes = EscapedByte(ahead[literal + 1])
    BY DEF PendingDescribesInput
  <2> DEFINE ahead == SubSeq(stream, taken + 1, taken + retained)
  <2>1. /\ stream \in Seq(Bytes) /\ taken \in Nat /\ retained \in Nat /\ literal \in Nat
        /\ consumed = 0 /\ taken + retained <= Len(stream) /\ at = "idle" /\ Left = retained
    BY JsonAssumption DEF IInv, JsonTypeOK, BuffersInv, Left
  <2>2. \A k \in 1..retained : ahead[k] = stream[taken + k]
    BY <2>1
  <2> HIDE DEF ahead
  <2>3. literal <= retained /\ \A k \in 1..literal : Plain(ahead[k])
    <3>1. literal <= retained /\ \A k \in 1..literal : Plain(stream[taken + consumed + k])
      BY <2>1 DEF IInv, PendingInv
    <3>2. ASSUME NEW k \in 1..literal PROVE Plain(ahead[k])
      <4>1. ahead[k] = stream[taken + consumed + k]
        BY <2>1, <2>2, <3>1
      <4> QED BY <3>1, <4>1 DEF Plain
    <3> QED BY <3>1, <3>2
  <2>4. ASSUME escape.tag = "NotStarted"
        PROVE  literal > 0 /\ literal < retained /\ escape.bytes = EscapedByte(ahead[literal + 1])
    <3>1. /\ literal > 0 /\ literal < retained
          /\ escape.bytes = EscapedByte(stream[taken + consumed + literal + 1])
      BY <2>1, <2>4 DEF IInv, PendingInv
    <3>2. ahead[literal + 1] = stream[taken + consumed + literal + 1]
      BY <2>1, <2>2, <3>1
    <3> QED BY <3>1, <3>2 DEF EscapedByte
  <2> QED BY <2>3, <2>4 DEF ahead
<1> QED BY <1>1, InitInv, StepInv, PTL DEF JsonSpec

\* No call goes past the end of its input or of its output, and no offer past
\* the end of the stream.  `finish` passes no input on to flush_pending, which
\* copies and counts there what it remembers: it never remembers anything then.
THEOREM JsonStaysInBuffers ==
  JsonSpec => [](/\ consumed <= input /\ Len(buffer) <= room
                 /\ taken + retained <= Len(stream)
                 /\ op = "finish" => consumed = 0)
<1>1. IInv => /\ consumed <= input /\ Len(buffer) <= room
              /\ taken + retained <= Len(stream)
              /\ op = "finish" => consumed = 0
  BY DEF IInv, JsonTypeOK, BuffersInv
<1> QED BY <1>1, InitInv, StepInv, PTL DEF JsonSpec

-----------------------------------------------------------------------------
(* FlattenSeq, for sequences of every length.                              *)

\* Induction up to a bound, for a set instead of a predicate.
LEMMA NatSetInduction ==
  ASSUME NEW N \in Nat, NEW S, 0 \in S, \A n \in 0..N : n \in S /\ n < N => n + 1 \in S
  PROVE  0..N \subseteq S
<1> DEFINE Bad == {n \in 0..N : n \notin S}
<1>1. SUFFICES ASSUME Bad # {} PROVE FALSE
  OBVIOUS
<1>2. Bad \subseteq Nat
  OBVIOUS
<1> HIDE DEF Bad
<1>3. PICK m \in Bad : \A n \in Bad : m <= n
  <2>1. Min(Bad) \in Bad /\ \A n \in Bad : Min(Bad) <= n
    BY <1>1, <1>2, LeastNat
  <2> QED BY <2>1
<1>4. m \in 0..N /\ m \notin S /\ m # 0
  BY <1>3 DEF Bad
<1>5. m - 1 \in 0..N /\ m - 1 < N /\ m - 1 + 1 = m
  BY <1>4
<1>6. m - 1 \in S
  BY <1>3, <1>5 DEF Bad
<1> QED BY <1>4, <1>5, <1>6

\* f is the recursive function in FlattenSeq.
Flattens(f, seqs, n) == f = [i \in 1..n |-> IF i = 1 THEN seqs[i] ELSE f[i - 1] \o seqs[i]]

\* There is such a function, for sequences of every length.
LEMMA FlattenExists ==
  ASSUME NEW N \in Nat, NEW seqs
  PROVE  \E f : Flattens(f, seqs, N)
<1> DEFINE S == {n \in 0..N : \E f : Flattens(f, seqs, n)}
<1>1. 0 \in S
  <2>1. Flattens([i \in 1..0 |-> seqs[1]], seqs, 0)
    BY DEF Flattens
  <2> QED BY <2>1
<1>2. ASSUME NEW n \in 0..N, n \in S, n < N PROVE n + 1 \in S
  <2>1. PICK f : Flattens(f, seqs, n)
    BY <1>2
  <2> DEFINE g == [i \in 1..(n+1) |-> IF i = n + 1 THEN IF i = 1 THEN seqs[i] ELSE f[n] \o seqs[i] ELSE f[i]]
  <2>2. \A i \in 1..n : f[i] = IF i = 1 THEN seqs[i] ELSE f[i-1] \o seqs[i]
    BY <2>1 DEF Flattens
  <2>3. ASSUME NEW i \in 1..(n+1) PROVE g[i] = IF i = 1 THEN seqs[i] ELSE g[i-1] \o seqs[i]
    <3>1. CASE i = n + 1
      BY <3>1
    <3>2. CASE i # n + 1
      BY <2>2, <3>2
    <3> QED BY <3>1, <3>2
  <2>4. Flattens(g, seqs, n + 1)
    BY <2>3 DEF Flattens
  <2> QED BY <1>2, <2>4
<1> HIDE DEF S
<1>3. N \in S
  BY <1>1, <1>2, NatSetInduction
<1> QED BY <1>3 DEF S

\* FlattenSeq is its last value.
LEMMA FlattenIs ==
  ASSUME NEW seqs, Len(seqs) \in Nat, Len(seqs) # 0
  PROVE  \E f : Flattens(f, seqs, Len(seqs)) /\ FlattenSeq(seqs) = f[Len(seqs)]
<1> DEFINE h == CHOOSE f : f = [i \in 1..Len(seqs) |-> IF i = 1 THEN seqs[i] ELSE f[i-1] \o seqs[i]]
<1>1. FlattenSeq(seqs) = h[Len(seqs)]
  BY DEF FlattenSeq
<1>2. \E f : f = [i \in 1..Len(seqs) |-> IF i = 1 THEN seqs[i] ELSE f[i-1] \o seqs[i]]
  BY FlattenExists DEF Flattens
<1>3. h = [i \in 1..Len(seqs) |-> IF i = 1 THEN seqs[i] ELSE h[i-1] \o seqs[i]]
  BY <1>2
<1> HIDE DEF h
<1> QED BY <1>1, <1>3 DEF Flattens

\* Two such functions agree as far as their sequences do.
LEMMA FlattenAgree ==
  ASSUME NEW n \in Nat, NEW m \in Nat, NEW s, NEW t, NEW f, NEW g,
         n <= m, \A i \in 1..n : s[i] = t[i], Flattens(f, s, n), Flattens(g, t, m)
  PROVE  \A i \in 1..n : f[i] = g[i]
<1> DEFINE S == {i \in 0..n : i = 0 \/ f[i] = g[i]}
<1>1. \A i \in 1..n : f[i] = IF i = 1 THEN s[i] ELSE f[i - 1] \o s[i]
  BY DEF Flattens
<1>2. \A i \in 1..m : g[i] = IF i = 1 THEN t[i] ELSE g[i - 1] \o t[i]
  BY DEF Flattens
<1>3. 0 \in S
  OBVIOUS
<1>4. ASSUME NEW i \in 0..n, i \in S, i < n PROVE i + 1 \in S
  <2>1. /\ i + 1 \in 1..n /\ i + 1 \in 1..m /\ (i + 1) - 1 = i /\ s[i + 1] = t[i + 1]
        /\ i + 1 = 1 <=> i = 0
    BY <1>4
  <2>2. f[i + 1] = IF i = 0 THEN s[i + 1] ELSE f[i] \o s[i + 1]
    BY <1>1, <2>1
  <2>3. g[i + 1] = IF i = 0 THEN t[i + 1] ELSE g[i] \o t[i + 1]
    BY <1>2, <2>1
  <2>4. f[i + 1] = g[i + 1]
    BY <1>4, <2>1, <2>2, <2>3
  <2> QED BY <2>1, <2>4
<1> HIDE DEF S
<1>5. 0..n \subseteq S
  BY <1>3, <1>4, NatSetInduction
<1> QED BY <1>5 DEF S

\* One more sequence is appended to the result.
LEMMA FlattenAppend ==
  ASSUME NEW S, NEW seqs \in Seq(Seq(S)), NEW e \in Seq(S)
  PROVE  FlattenSeq(Append(seqs, e)) = IF seqs = <<>> THEN e ELSE FlattenSeq(seqs) \o e
<1>1. PICK n \in Nat : n = Len(seqs)
  OBVIOUS
<1>2. PICK t : t = Append(seqs, e)
  OBVIOUS
<1>3. Len(t) = n + 1 /\ t[n + 1] = e /\ \A i \in 1..n : seqs[i] = t[i]
  BY <1>1, <1>2
<1>4. PICK g : Flattens(g, t, n + 1) /\ FlattenSeq(t) = g[n + 1]
  BY <1>3, FlattenIs
<1>5. \A i \in 1..(n + 1) : g[i] = IF i = 1 THEN t[i] ELSE g[i - 1] \o t[i]
  BY <1>4 DEF Flattens
<1>6. g[n + 1] = IF n + 1 = 1 THEN e ELSE g[n] \o e
  <2>1. n + 1 \in 1..(n + 1) /\ (n + 1) - 1 = n
    OBVIOUS
  <2> QED BY <1>3, <1>5, <2>1
<1>7. CASE n = 0
  <2>1. seqs = <<>>
    <3>1. \A q \in Seq(Seq(S)) : Len(q) = 0 => q = <<>>
      OBVIOUS
    <3> QED BY <1>1, <1>7, <3>1
  <2>2. n + 1 = 1
    BY <1>7
  <2>3. g[n + 1] = e
    BY <1>6, <2>2
  <2> QED BY <1>2, <1>4, <2>1, <2>3
<1>8. CASE n # 0
  <2>1. PICK f : Flattens(f, seqs, n) /\ FlattenSeq(seqs) = f[n]
    BY <1>1, <1>8, FlattenIs
  <2>2. f[n] = g[n]
    <3>1. n + 1 \in Nat /\ n <= n + 1 /\ n \in 1..n
      BY <1>8
    <3>2. \A i \in 1..n : f[i] = g[i]
      <4>1. Flattens(f, seqs, n)
        BY <2>1
      <4>2. Flattens(g, t, n + 1)
        BY <1>4
      <4>3. \A i \in 1..n : seqs[i] = t[i]
        BY <1>3
      <4> QED BY <3>1, <4>1, <4>2, <4>3, FlattenAgree
    <3> QED BY <3>1, <3>2
  <2>3. g[n + 1] = g[n] \o e
    BY <1>6, <1>8
  <2>4. seqs # <<>>
    BY <1>1, <1>8
  <2> QED BY <1>2, <1>4, <2>1, <2>2, <2>3, <2>4
<1> QED BY <1>7, <1>8

-----------------------------------------------------------------------------
(* What a stream yields in one call, byte by byte.                         *)

\* Nothing yields nothing.
LEMMA EscapedEmpty == Escaped(<<>>) = <<>>
<1>1. [k \in DOMAIN <<>> |-> EscapedByte(<<>>[k])] = <<>>
  OBVIOUS
<1> QED BY <1>1 DEF Escaped, FlattenSeq

\* One more byte appends its escape.
LEMMA EscapedAppend ==
  ASSUME NEW s \in Seq(Bytes), NEW b \in Bytes
  PROVE  Escaped(Append(s, b)) = Escaped(s) \o EscapedByte(b)
<1>1. PICK e : e = [k \in DOMAIN s |-> EscapedByte(s[k])]
  OBVIOUS
<1>2. e \in Seq(Seq(Symbols)) /\ Len(e) = Len(s)
  <2>1. \A k \in 1..Len(s) : EscapedByte(s[k]) \in Seq(Symbols)
    BY EscapedByteOf
  <2> QED BY <1>1, <2>1
<1>3. EscapedByte(b) \in Seq(Symbols)
  BY EscapedByteOf
<1>4. [k \in DOMAIN Append(s, b) |-> EscapedByte(Append(s, b)[k])] = Append(e, EscapedByte(b))
  <2>1. DOMAIN Append(s, b) = 1..(Len(s) + 1)
    OBVIOUS
  <2>2. \A k \in 1..Len(s) : Append(s, b)[k] = s[k]
    OBVIOUS
  <2>3. Append(s, b)[Len(s) + 1] = b
    OBVIOUS
  <2>4. ASSUME NEW k \in 1..(Len(s) + 1)
        PROVE  EscapedByte(Append(s, b)[k]) = Append(e, EscapedByte(b))[k]
    <3>1. CASE k = Len(s) + 1
      BY <1>2, <2>3, <3>1
    <3>2. CASE k # Len(s) + 1
      <4>1. k \in 1..Len(s)
        BY <3>2
      <4>2. Append(e, EscapedByte(b))[k] = e[k] /\ e[k] = EscapedByte(s[k])
        BY <1>1, <1>2, <1>3, <4>1
      <4> QED BY <2>2, <4>1, <4>2
    <3> QED BY <3>1, <3>2
  <2>5. DOMAIN Append(e, EscapedByte(b)) = 1..(Len(s) + 1)
    BY <1>2, <1>3
  <2>6. Append(e, EscapedByte(b)) = [k \in 1..(Len(s) + 1) |-> Append(e, EscapedByte(b))[k]]
    <3>1. Append(e, EscapedByte(b)) \in Seq(Seq(Symbols))
      BY <1>2, <1>3
    <3>2. \A q \in Seq(Seq(Symbols)) : q = [k \in DOMAIN q |-> q[k]]
      OBVIOUS
    <3> QED BY <2>5, <3>1, <3>2, Zenon
  <2> QED BY <2>1, <2>4, <2>6, Zenon
<1>5. Escaped(Append(s, b)) = IF e = <<>> THEN EscapedByte(b) ELSE FlattenSeq(e) \o EscapedByte(b)
  BY <1>2, <1>3, <1>4, FlattenAppend DEF Escaped
<1>6. CASE e = <<>>
  <2>1. s = <<>>
    BY <1>2, <1>6
  <2>2. <<>> \o EscapedByte(b) = EscapedByte(b)
    BY <1>3
  <2> QED BY <1>5, <1>6, <2>1, <2>2, EscapedEmpty
<1>7. CASE e # <<>>
  BY <1>1, <1>5, <1>7 DEF Escaped
<1> QED BY <1>6, <1>7

\* So does one more byte of a stream.
LEMMA EscapedStep ==
  ASSUME NEW s \in Seq(Bytes), NEW n \in Nat, n < Len(s)
  PROVE  Escaped(First(s, n + 1)) = Escaped(First(s, n)) \o EscapedByte(s[n + 1])
<1>1. First(s, n) \in Seq(Bytes) /\ s[n + 1] \in Bytes
  BY DEF First
<1>2. First(s, n + 1) = Append(First(s, n), s[n + 1])
  BY DEF First
<1> QED BY <1>1, <1>2, EscapedAppend

\* The output of a stream is a sequence of symbols.
LEMMA EscapedOf ==
  ASSUME NEW s \in Seq(Bytes), NEW n \in 0..Len(s)
  PROVE  Escaped(First(s, n)) \in Seq(Symbols)
<1> DEFINE S == {i \in 0..n : Escaped(First(s, i)) \in Seq(Symbols)}
<1>1. 0 \in S
  <2>1. First(s, 0) = <<>>
    BY DEF First
  <2>2. <<>> \in Seq(Symbols) /\ 0 \in 0..n
    OBVIOUS
  <2> QED BY <2>1, <2>2, EscapedEmpty, Zenon
<1>2. ASSUME NEW i \in 0..n, i \in S, i < n PROVE i + 1 \in S
  <2>1. Escaped(First(s, i + 1)) = Escaped(First(s, i)) \o EscapedByte(s[i + 1])
    BY <1>2, EscapedStep
  <2>2. Escaped(First(s, i)) \in Seq(Symbols)
    BY <1>2
  <2>3. EscapedByte(s[i + 1]) \in Seq(Symbols)
    BY <1>2, EscapedByteOf
  <2>4. Escaped(First(s, i + 1)) \in Seq(Symbols)
    BY <2>1, <2>2, <2>3, ConcatProperties, Zenon
  <2> QED BY <1>2, <2>4
<1> HIDE DEF S
<1>3. 0..n \subseteq S
  BY <1>1, <1>2, NatSetInduction
<1> QED BY <1>3 DEF S

\* Concatenation as an operator of its own: what is used of it are these facts.
Cat(x, y) == x \o y

LEMMA CatOf ==
  \A x, y, z \in Seq(Symbols) :
    Cat(x, y) \in Seq(Symbols) /\ Cat(Cat(x, y), z) = Cat(x, Cat(y, z))
<1> TAKE x, y, z \in Seq(Symbols)
<1>1. x \o y \in Seq(Symbols)
  BY ConcatProperties
<1>2. (x \o y) \o z = x \o (y \o z)
  BY ConcatAssociative
<1> QED BY <1>1, <1>2 DEF Cat

\* A run of plain bytes yields its copy.
LEMMA EscapedRun ==
  ASSUME NEW s \in Seq(Bytes), NEW n \in Nat, NEW m \in Nat, n + m <= Len(s),
         \A k \in 1..m : Plain(s[n + k])
  PROVE  Escaped(First(s, n + m)) = Escaped(First(s, n)) \o Copied(SubSeq(s, n + 1, n + m))
<1> DEFINE Run(i) == Copied(SubSeq(s, n + 1, n + i))
           Holds(i) == Escaped(First(s, n + i)) = Escaped(First(s, n)) \o Run(i)
           S == {i \in 0..m : Holds(i)}
<1>1. Escaped(First(s, n)) \in Seq(Symbols)
  BY EscapedOf
<1>2. ASSUME NEW i \in 0..m PROVE Run(i) = [k \in 1..i |-> <<s[n + k], 1>>] /\ Run(i) \in Seq(Symbols)
  <2>1. SubSeq(s, n + 1, n + i) \in Seq(Bytes) /\ Len(SubSeq(s, n + 1, n + i)) = i
    OBVIOUS
  <2>2. \A k \in 1..i : SubSeq(s, n + 1, n + i)[k] = s[n + k]
    OBVIOUS
  <2>3. Run(i) \in Seq(Symbols)
    BY <2>1, CopiedOf
  <2>4. DOMAIN SubSeq(s, n + 1, n + i) = 1..i
    BY <2>1
  <2>5. Run(i) = [k \in 1..i |-> <<s[n + k], 1>>]
    BY <2>2, <2>4 DEF Copied
  <2> QED BY <2>3, <2>5
<1>3. 0 \in S
  <2>1. Run(0) = <<>>
    <3>1. Run(0) = [k \in 1..0 |-> <<s[n + k], 1>>]
      <4>1. 0 \in 0..m
        OBVIOUS
      <4> HIDE DEF Run
      <4> QED BY <1>2, <4>1
    <3>2. [k \in 1..0 |-> <<s[n + k], 1>>] = <<>>
      OBVIOUS
    <3> QED BY <3>1, <3>2, Zenon
  <2> HIDE DEF Run
  <2>2. Escaped(First(s, n)) \o <<>> = Escaped(First(s, n))
    BY <1>1, ConcatEmptySeq
  <2>3. n + 0 = n /\ 0 \in 0..m
    OBVIOUS
  <2>4. Holds(0)
    BY <2>1, <2>2, <2>3, Zenon
  <2> QED BY <2>3, <2>4
<1>4. ASSUME NEW i \in 0..m, i \in S, i < m PROVE i + 1 \in S
  <2>1. PICK b \in Bytes : b = s[n + (i + 1)]
    BY <1>4
  <2>2. EscapedByte(b) = <<<<b, 1>>>>
    <3>1. i + 1 \in 1..m
      BY <1>4
    <3>2. Plain(b)
      BY <2>1, <3>1
    <3>3. Width(b) = 1
      BY <3>2 DEF Plain
    <3> QED BY <3>3 DEF EscapedByte
  <2>3. Run(i + 1) = Run(i) \o <<<<b, 1>>>>
    <3>1. i + 1 \in 0..m
      BY <1>4
    <3>2. Run(i + 1) = [k \in 1..(i + 1) |-> <<s[n + k], 1>>]
      BY <1>2, <3>1
    <3>3. Run(i) = [k \in 1..i |-> <<s[n + k], 1>>]
      BY <1>2
    <3>4. PICK x : x = Run(i) /\ x \in Seq(Symbols) /\ Len(x) = i
      <4>1. Run(i) \in Seq(Symbols) /\ DOMAIN Run(i) = 1..i
        BY <1>2, <3>3
      <4> HIDE DEF Run
      <4> QED BY <4>1
    <3>5. PICK y : y = <<<<b, 1>>>> /\ y \in Seq(Symbols) /\ Len(y) = 1 /\ y[1] = <<b, 1>>
      <4>1. <<b, 1>> \in Symbols
        BY <2>1 DEF Symbols
      <4>2. \A z \in Symbols : <<z>> \in Seq(Symbols) /\ Len(<<z>>) = 1 /\ <<z>>[1] = z
        OBVIOUS
      <4> QED BY <4>1, <4>2, Zenon
    <3>6. /\ x \o y \in Seq(Symbols) /\ Len(x \o y) = i + 1
          /\ \A k \in 1..(i + 1) : (x \o y)[k] = IF k <= i THEN x[k] ELSE y[k - i]
      BY <3>4, <3>5, ConcatProperties
    <3>7. ASSUME NEW k \in 1..(i + 1) PROVE (x \o y)[k] = <<s[n + k], 1>>
      <4>1. CASE k <= i
        <5>1. x[k] = <<s[n + k], 1>>
          BY <3>3, <3>4, <4>1
        <5> QED BY <3>6, <4>1, <5>1
      <4>2. CASE ~(k <= i)
        <5>1. k = i + 1 /\ k - i = 1
          BY <4>2
        <5>2. (x \o y)[k] = y[1]
          BY <3>6, <4>2, <5>1
        <5> QED BY <2>1, <3>5, <5>1, <5>2
      <4> QED BY <4>1, <4>2
    <3>8. x \o y = [k \in 1..(i + 1) |-> (x \o y)[k]]
      <4>1. \A q \in Seq(Symbols) : q = [k \in 1..Len(q) |-> q[k]]
        OBVIOUS
      <4> QED BY <3>6, <4>1, Zenon
    <3>9. x \o y = [k \in 1..(i + 1) |-> <<s[n + k], 1>>]
      BY <3>7, <3>8, Zenon
    <3> QED BY <3>2, <3>4, <3>5, <3>9, Zenon
  <2>4. Escaped(First(s, n + (i + 1))) = Escaped(First(s, n + i)) \o <<<<b, 1>>>>
    <3>1. n + i \in Nat /\ n + i < Len(s) /\ (n + i) + 1 = n + (i + 1)
      BY <1>4
    <3> QED BY <2>1, <2>2, <3>1, EscapedStep
  <2>5. Run(i) \in Seq(Symbols) /\ <<<<b, 1>>>> \in Seq(Symbols)
    <3>1. <<b, 1>> \in Symbols
      BY <2>1 DEF Symbols
    <3> HIDE DEF Run
    <3> QED BY <1>2, <3>1
  <2> HIDE DEF Run
  <2>6. (Escaped(First(s, n)) \o Run(i)) \o <<<<b, 1>>>>
          = Escaped(First(s, n)) \o (Run(i) \o <<<<b, 1>>>>)
    <3>1. Cat(Cat(Escaped(First(s, n)), Run(i)), <<<<b, 1>>>>)
            = Cat(Escaped(First(s, n)), Cat(Run(i), <<<<b, 1>>>>))
      BY <1>1, <2>5, CatOf
    <3> QED BY <3>1 DEF Cat
  <2>7. Holds(i + 1)
    BY <1>4, <2>3, <2>4, <2>6
  <2> QED BY <1>4, <2>7
<1> HIDE DEF S
<1>5. 0..m \subseteq S
  BY <1>3, <1>4, NatSetInduction
<1>6. m \in S
  BY <1>5
<1> QED BY <1>6 DEF S

-----------------------------------------------------------------------------
(* The output.                                                             *)

\* The rest of an escape that was started.
Held == IF escape.tag = "Started" THEN escape.bytes ELSE <<>>

\* What was written, and what is held, is the one-call output of the bytes
\* consumed so far.  A call that has to stop has filled its output.  The
\* driver offers at least what it got back.
OutputInv ==
  /\ out \in Seq(Symbols)
  /\ (out \o buffer) \o Held = Escaped(Upto(consumed))
  /\ escape.tag = "Started" => escape.bytes # <<>>
  /\ at = "return" /\ (op = "process" \/ escape.tag = "Started") => Free = 0
  /\ op = "process" => retained <= input
  /\ at = "entry" => buffer = <<>>

HInv == IInv /\ OutputInv

\* A cut of a sequence loses nothing, and is made where the space ends.
LEMMA FitsAndStaysJoin ==
  ASSUME NEW S, NEW s \in Seq(S), NEW space \in Nat
  PROVE  /\ Fits(s, space) \o Stays(s, space) = s
         /\ Stays(s, space) # <<>> => Len(Fits(s, space)) = space
<1>1. PICK n \in 0..Len(s) : n = Shorter(Len(s), space) /\ (n < Len(s) => n = space)
  BY DEF Shorter
<1>2. SubSeq(s, 1, n) \o SubSeq(s, n + 1, Len(s)) = SubSeq(s, 1, Len(s))
  <2>1. 1 \in 1..Len(s) + 1 /\ n \in (1 - 1)..Len(s) /\ Len(s) \in n..Len(s)
    OBVIOUS
  <2>2. \A j \in 1..Len(s) + 1 : \A k \in j - 1..Len(s) : \A m \in k..Len(s) :
          SubSeq(s, j, k) \o SubSeq(s, k + 1, m) = SubSeq(s, j, m)
    BY ConcatAdjacentSubSeq
  <2> QED BY <2>1, <2>2, Zenon
<1>3. SubSeq(s, 1, Len(s)) = s
  BY SubSeqFull
<1>4. SubSeq(s, n + 1, Len(s)) # <<>> => n < Len(s)
  OBVIOUS
<1>5. Len(SubSeq(s, 1, n)) = n
  OBVIOUS
<1> QED BY <1>1, <1>2, <1>3, <1>4, <1>5 DEF Fits, Stays, First, Skip

\* What was written, then a step writes x; it held h, and then holds r.
LEMMA Regroup ==
  \A w, v, x, h, r, more \in Seq(Symbols) :
    Cat(x, r) = Cat(h, more) => Cat(Cat(w, Cat(v, x)), r) = Cat(Cat(Cat(w, v), h), more)
BY CatOf

\* What is held after an escape was cut.
LEMMA HeldAfter ==
  ASSUME NEW s \in Seq(Symbols), NEW space \in Nat, escape' = StartedWith(s, space)
  PROVE  /\ Held' = Stays(s, space) /\ Held' \in Seq(Symbols)
         /\ escape'.tag = "Started" => escape'.bytes # <<>>
         /\ escape' # NoEscape => Len(Fits(s, space)) = space
<1>1. Stays(s, space) \in Seq(Symbols)
  BY FitsAndStays
<1>2. CASE Stays(s, space) = <<>>
  <2>1. escape' = NoEscape
    BY <1>2 DEF StartedWith
  <2> QED BY <1>1, <1>2, <2>1 DEF NoEscape, Held
<1>3. CASE Stays(s, space) # <<>>
  <2>1. escape' = Started(Stays(s, space))
    BY <1>3 DEF StartedWith
  <2> QED BY <1>1, <1>3, <2>1, FitsAndStaysJoin DEF Started, Held
<1> QED BY <1>2, <1>3

\* What the next n bytes yield when they are plain: their copy.
LEMMA CopyYields ==
  ASSUME IInv, NEW n \in Nat, n <= input - consumed,
         \A k \in 1..n : Plain(stream[taken + consumed + k])
  PROVE  Escaped(Upto(consumed + n)) = Escaped(Upto(consumed)) \o Copied(First(Remaining, n))
<1>1. /\ stream \in Seq(Bytes) /\ taken \in Nat /\ consumed \in Nat /\ input \in Nat
      /\ taken + input <= Len(stream) /\ consumed <= input
  <2>1. stream \in Seq(Bytes) /\ taken \in Nat /\ retained \in Nat
    BY JsonAssumption DEF IInv, JsonTypeOK
  <2> QED BY <2>1 DEF IInv, JsonTypeOK, BuffersInv
<1>2. PICK b \in Nat : b = taken + consumed /\ b + n <= Len(stream)
  BY <1>1
<1>3. First(Remaining, n) = SubSeq(stream, b + 1, b + n)
  <2>1. Remaining \in Seq(Bytes) /\ n \in 0..Len(Remaining)
    BY <1>1, RemainingOf
  <2>2. /\ First(Remaining, n) \in Seq(Bytes) /\ Len(First(Remaining, n)) = n
        /\ \A k \in 1..n : First(Remaining, n)[k] = Remaining[k]
    BY <2>1, FirstOf
  <2>3. \A k \in 1..n : First(Remaining, n)[k] = stream[b + k]
    <3>1. \A k \in 1..(input - consumed) : Remaining[k] = stream[taken + consumed + k]
      BY RemainingOf
    <3>2. \A k \in 1..n : k \in 1..(input - consumed)
      BY <1>1
    <3>3. \A k \in 1..n : Remaining[k] = stream[b + k]
      BY <1>2, <3>1, <3>2
    <3> QED BY <2>2, <3>3
  <2>4. /\ SubSeq(stream, b + 1, b + n) \in Seq(Bytes) /\ Len(SubSeq(stream, b + 1, b + n)) = n
        /\ \A k \in 1..n : SubSeq(stream, b + 1, b + n)[k] = stream[b + k]
    BY <1>1, <1>2
  <2> QED BY <2>2, <2>3, <2>4
<1>4. \A k \in 1..n : Plain(stream[b + k])
  BY <1>2
<1>5. Escaped(First(stream, b + n)) = Escaped(First(stream, b)) \o Copied(SubSeq(stream, b + 1, b + n))
  BY <1>1, <1>2, <1>4, EscapedRun
<1>6. taken + (consumed + n) = b + n
  BY <1>1, <1>2
<1> QED BY <1>2, <1>3, <1>5, <1>6 DEF Upto

\* The bytes a step writes, and those it then holds, are those it held and
\* those that the input it consumes yields.
LEMMA OutputStep ==
  ASSUME NEW c \in Nat, NEW bytes \in Seq(Symbols), NEW more \in Seq(Symbols), NEW place
  PROVE  /\ HInv /\ Goes(place, c, bytes)
         /\ Held \in Seq(Symbols) /\ Held' \in Seq(Symbols)
         /\ bytes \o Held' = Held \o more
         /\ Escaped(Upto(consumed + c)) = Escaped(Upto(consumed)) \o more
         => out' \in Seq(Symbols) /\ (out' \o buffer') \o Held' = Escaped(Upto(consumed))'
<1>0. SUFFICES
        ASSUME HInv, Goes(place, c, bytes), Held \in Seq(Symbols), Held' \in Seq(Symbols),
               bytes \o Held' = Held \o more,
               Escaped(Upto(consumed + c)) = Escaped(Upto(consumed)) \o more
        PROVE  out' \in Seq(Symbols) /\ (out' \o buffer') \o Held' = Escaped(Upto(consumed))'
  OBVIOUS
<1>1. /\ out \in Seq(Symbols) /\ buffer \in Seq(Symbols)
      /\ (out \o buffer) \o Held = Escaped(Upto(consumed))
  BY <1>0 DEF HInv, IInv, JsonTypeOK, OutputInv
<1>2. out' = out /\ buffer' = buffer \o bytes
  BY <1>0 DEF Goes
<1>3. Escaped(Upto(consumed))' = Escaped(Upto(consumed + c))
  BY <1>0 DEF Goes, Upto, First, Escaped, EscapedByte
<1>4. (out \o (buffer \o bytes)) \o Held' = ((out \o buffer) \o Held) \o more
  <2>1. out \in Seq(Symbols) /\ buffer \in Seq(Symbols)
    BY <1>1
  <2>2. Held \in Seq(Symbols) /\ Held' \in Seq(Symbols) /\ bytes \o Held' = Held \o more
    BY <1>0
  <2>3. Cat(bytes, Held') = Cat(Held, more)
    BY <2>2 DEF Cat
  <2>4. Cat(Cat(out, Cat(buffer, bytes)), Held') = Cat(Cat(Cat(out, buffer), Held), more)
    BY <2>1, <2>2, <2>3, Regroup
  <2> QED BY <2>4 DEF Cat
<1> QED BY <1>0, <1>1, <1>2, <1>3, <1>4

\* The sequences that the output is made of.
LEMMA HeldOf == (IInv => Held \in Seq(Symbols)) /\ (IInv' => Held' \in Seq(Symbols))
<1>1. <<>> \in Seq(Symbols)
  OBVIOUS
<1> QED BY <1>1 DEF IInv, JsonTypeOK, PendingEscape, Held

\* So is what the consumed bytes yield.
LEMMA UptoOf == IInv => Escaped(Upto(consumed)) \in Seq(Symbols)
<1> SUFFICES ASSUME IInv PROVE Escaped(First(stream, taken + consumed)) \in Seq(Symbols)
  BY DEF Upto
<1>1. /\ stream \in Seq(Bytes) /\ taken \in Nat /\ consumed \in Nat /\ input \in Nat
      /\ retained \in Nat
  BY JsonAssumption DEF IInv, JsonTypeOK
<1>2. taken + consumed \in 0..Len(stream)
  BY <1>1 DEF IInv, BuffersInv
<1> QED BY <1>1, <1>2, EscapedOf

\* A step inside a call: what it writes and holds, and where it may stop.
LEMMA GoesOutput ==
  ASSUME NEW c \in Nat, NEW bytes \in Seq(Symbols), NEW more \in Seq(Symbols), NEW place
  PROVE  /\ HInv /\ IInv' /\ Goes(place, c, bytes)
         /\ bytes \o Held' = Held \o more
         /\ Escaped(Upto(consumed + c)) = Escaped(Upto(consumed)) \o more
         /\ escape'.tag = "Started" => escape'.bytes # <<>>
         /\ place = "return" /\ (op = "process" \/ escape'.tag = "Started") => Len(bytes) = Free
         /\ place # "entry"
         => HInv'
<1>0. SUFFICES
        ASSUME HInv, IInv', Goes(place, c, bytes), bytes \o Held' = Held \o more,
               Escaped(Upto(consumed + c)) = Escaped(Upto(consumed)) \o more,
               escape'.tag = "Started" => escape'.bytes # <<>>,
               place = "return" /\ (op = "process" \/ escape'.tag = "Started") => Len(bytes) = Free,
               place # "entry"
        PROVE  HInv'
  OBVIOUS
<1>1. Held \in Seq(Symbols) /\ Held' \in Seq(Symbols)
  BY <1>0, HeldOf DEF HInv
<1>2. out' \in Seq(Symbols) /\ (out' \o buffer') \o Held' = Escaped(Upto(consumed))'
  BY <1>0, <1>1, OutputStep
<1>3. at' = place /\ op' = op /\ retained' = retained /\ input' = input /\ room' = room
  BY <1>0 DEF Goes
<1>4. Free \in Nat /\ Free' = Free - Len(bytes)
  <2>1. buffer \in Seq(Symbols) /\ room \in Nat
    BY <1>0 DEF HInv, IInv, JsonTypeOK
  <2>2. Len(buffer') = Len(buffer) + Len(bytes)
    BY <1>0, <2>1 DEF Goes
  <2> QED BY <1>0, <1>3, <2>1, <2>2, FreeOf DEF Free, HInv
<1>5. at' = "return" /\ (op' = "process" \/ escape'.tag = "Started") => Free' = 0
  BY <1>0, <1>3, <1>4
<1> QED BY <1>0, <1>2, <1>3, <1>5 DEF HInv, OutputInv

\* A step that only moves on.
LEMMA QuietOutput ==
  ASSUME NEW place
  PROVE  /\ HInv /\ IInv' /\ Goes(place, 0, <<>>) /\ escape' = escape
         /\ place = "return" => op # "process" /\ escape.tag # "Started"
         /\ place # "entry"
         => HInv'
<1>0. SUFFICES
        ASSUME HInv, IInv', Goes(place, 0, <<>>), escape' = escape,
               place = "return" => op # "process" /\ escape.tag # "Started",
               place # "entry"
        PROVE  HInv'
  OBVIOUS
<1>1. <<>> \in Seq(Symbols) /\ Len(<<>>) = 0
  OBVIOUS
<1>2. \A q \in Seq(Symbols) : <<>> \o q = q /\ q \o <<>> = q
  OBVIOUS
<1>3. Held \in Seq(Symbols) /\ Held' = Held
  BY <1>0, HeldOf DEF HInv, Held
<1>4. <<>> \o Held' = Held \o <<>>
  BY <1>2, <1>3
<1>5. Escaped(Upto(consumed + 0)) = Escaped(Upto(consumed)) \o <<>>
  <2>1. Escaped(Upto(consumed)) \in Seq(Symbols)
    BY <1>0, UptoOf DEF HInv
  <2>2. consumed + 0 = consumed
    BY <1>0 DEF HInv, IInv, JsonTypeOK
  <2> QED BY <1>2, <2>1, <2>2
<1>6. escape'.tag = "Started" => escape'.bytes # <<>>
  BY <1>0 DEF HInv, OutputInv
<1> QED BY <1>0, <1>1, <1>4, <1>5, <1>6, GoesOutput

\* The empty sequence in a concatenation.
LEMMA NothingAdded == \A q \in Seq(Symbols) : <<>> \o q = q /\ q \o <<>> = q
OBVIOUS

\* Entering flush_pending writes nothing.
LEMMA EnterOutput == HInv /\ Enter => HInv'
<1> SUFFICES ASSUME HInv, Enter PROVE HInv'
  OBVIOUS
<1>1. IInv'
  BY EnterInv DEF HInv
<1>2. Goes("started", 0, <<>>) /\ escape' = escape
  BY DEF Enter
<1> QED BY <1>1, <1>2, QuietOutput

\* The rest of a started escape.
LEMMA DrainStartedOutput == HInv /\ DrainStarted => HInv'
<1> SUFFICES ASSUME HInv, DrainStarted PROVE HInv'
  OBVIOUS
<1>1. IInv /\ IInv' /\ escape \in PendingEscape /\ consumed \in Nat
  BY DrainStartedInv DEF HInv, IInv, JsonTypeOK
<1>2. CASE escape.tag = "Started"
  <2>1. PICK place :
          /\ place = IF escape' = NoEscape /\ op # "flush" THEN "literal" ELSE "return"
          /\ escape' = StartedWith(escape.bytes, Free)
          /\ Goes(place, 0, Fits(escape.bytes, Free))
    BY <1>2 DEF DrainStarted
  <2>2. escape.bytes \in Seq(Symbols) /\ Free \in Nat /\ <<>> \in Seq(Symbols)
    BY <1>1, FreeOf DEF PendingEscape
  <2>3. Fits(escape.bytes, Free) \in Seq(Symbols)
    BY <2>2, FitsAndStays
  <2>4. /\ Held' = Stays(escape.bytes, Free)
        /\ escape'.tag = "Started" => escape'.bytes # <<>>
        /\ escape' # NoEscape => Len(Fits(escape.bytes, Free)) = Free
    BY <2>1, <2>2, HeldAfter
  <2>5. Held = escape.bytes
    BY <1>2 DEF Held
  <2>6. Fits(escape.bytes, Free) \o Held' = Held \o <<>>
    <3>1. Fits(escape.bytes, Free) \o Stays(escape.bytes, Free) = escape.bytes
      BY <2>2, FitsAndStaysJoin
    <3> QED BY <2>2, <2>4, <2>5, <3>1, NothingAdded
  <2>7. Escaped(Upto(consumed + 0)) = Escaped(Upto(consumed)) \o <<>>
    <3>1. consumed + 0 = consumed
      BY <1>1
    <3> QED BY <1>1, <3>1, UptoOf, NothingAdded
  <2>8. place = "return" /\ (op = "process" \/ escape'.tag = "Started")
          => Len(Fits(escape.bytes, Free)) = Free
    BY <2>1, <2>4 DEF NoEscape
  <2> QED BY <1>1, <2>1, <2>2, <2>3, <2>4, <2>6, <2>7, <2>8, GoesOutput
<1>3. CASE escape.tag # "Started"
  <2>1. PICK place :
          /\ place = IF op # "flush" THEN "literal" ELSE "return"
          /\ Goes(place, 0, <<>>) /\ escape' = escape
    BY <1>3 DEF DrainStarted
  <2> QED BY <1>1, <1>3, <2>1, QuietOutput
<1> QED BY <1>2, <1>3

\* The remembered literal.
LEMMA DrainLiteralOutput == HInv /\ DrainLiteral => HInv'
<1> SUFFICES ASSUME HInv, DrainLiteral PROVE HInv'
  OBVIOUS
<1>1. IInv /\ IInv'
  BY DrainLiteralInv DEF HInv
<1>2. PICK n, bytes :
        /\ n = Shorter(literal, Free) /\ bytes = Copied(First(Remaining, n))
        /\ at = "literal" /\ escape' = escape
        /\ Goes(IF n < literal THEN "return" ELSE "escape", n, bytes)
        /\ n \in Nat /\ n <= literal /\ n <= input - consumed
        /\ bytes \in Seq(Symbols) /\ Len(bytes) = n
  BY <1>1, DrainLiteralMoves
<1>3. Held = <<>> /\ Held' = <<>> /\ escape'.tag # "Started"
  BY <1>1, <1>2 DEF IInv, PlaceInv, Held
<1>4. bytes \o Held' = Held \o bytes
  BY <1>2, <1>3, NothingAdded
<1>5. Escaped(Upto(consumed + n)) = Escaped(Upto(consumed)) \o bytes
  <2>1. \A k \in 1..n : Plain(stream[taken + consumed + k])
    <3>1. \A k \in 1..literal : Plain(stream[taken + consumed + k])
      BY <1>1 DEF IInv, PendingInv
    <3>2. \A k \in 1..n : k \in 1..literal
      BY <1>1, <1>2 DEF IInv, JsonTypeOK
    <3> QED BY <3>1, <3>2
  <2> QED BY <1>1, <1>2, <2>1, CopyYields
<1>6. n < literal => Len(bytes) = Free
  BY <1>1, <1>2, FreeOf DEF Shorter
<1>7. PICK place : place = (IF n < literal THEN "return" ELSE "escape") /\ Goes(place, n, bytes)
  BY <1>2
<1> QED BY <1>1, <1>2, <1>3, <1>4, <1>5, <1>6, <1>7, GoesOutput

\* The remembered escape: the byte it stands for is consumed.
LEMMA StartEscapeOutput == HInv /\ StartEscape => HInv'
<1> SUFFICES ASSUME HInv, StartEscape PROVE HInv'
  OBVIOUS
<1>1. IInv /\ IInv' /\ escape \in PendingEscape /\ consumed \in Nat /\ taken \in Nat
  BY StartEscapeInv DEF HInv, IInv, JsonTypeOK
<1>2. at = "escape" /\ literal = 0 /\ escape.tag # "Started" /\ op # "flush"
  BY <1>1 DEF IInv, PlaceInv, StartEscape
<1>3. CASE escape.tag = "NotStarted"
  <2>1. op = "process"
    BY <1>1, <1>2, <1>3 DEF IInv, PlaceInv, JsonTypeOK, BuffersInv
  <2>2. PICK place :
          /\ place = IF escape' = NoEscape THEN "scan" ELSE "return"
          /\ escape' = StartedWith(escape.bytes, Free)
          /\ Goes(place, 1, Fits(escape.bytes, Free))
    BY <1>3, <2>1 DEF StartEscape, Trigger
  <2>3. escape.bytes \in Seq(Symbols) /\ Free \in Nat
    BY <1>1, FreeOf DEF PendingEscape
  <2>4. Fits(escape.bytes, Free) \in Seq(Symbols)
    BY <2>3, FitsAndStays
  <2>5. /\ Held' = Stays(escape.bytes, Free)
        /\ escape'.tag = "Started" => escape'.bytes # <<>>
        /\ escape' # NoEscape => Len(Fits(escape.bytes, Free)) = Free
    BY <2>2, <2>3, HeldAfter
  <2>6. Fits(escape.bytes, Free) \o Held' = Held \o escape.bytes
    <3>1. Fits(escape.bytes, Free) \o Stays(escape.bytes, Free) = escape.bytes
      BY <2>3, FitsAndStaysJoin
    <3>2. Held = <<>>
      BY <1>2 DEF Held
    <3> QED BY <2>3, <2>5, <3>1, <3>2, NothingAdded
  <2>7. Escaped(Upto(consumed + 1)) = Escaped(Upto(consumed)) \o escape.bytes
    <3>1. stream \in Seq(Bytes) /\ retained \in Nat /\ input \in Nat
      BY <1>1, JsonAssumption DEF IInv, JsonTypeOK
    <3>2. PICK n \in Nat : n = taken + consumed
      BY <1>1
    <3>3. n < Len(stream)
      <4>1. 0 < input - consumed /\ taken + input <= Len(stream)
        BY <1>1, <1>2, <1>3, <2>1, <3>1 DEF IInv, PendingInv, BuffersInv, Left
      <4> QED BY <1>1, <3>1, <3>2, <4>1
    <3>4. escape.bytes = EscapedByte(stream[n + 1])
      <4>1. escape.bytes = EscapedByte(stream[taken + consumed + literal + 1])
        BY <1>1, <1>3 DEF IInv, PendingInv
      <4>2. taken + consumed + literal + 1 = n + 1
        BY <1>1, <1>2, <3>2
      <4> QED BY <4>1, <4>2
    <3>5. Escaped(First(stream, n + 1)) = Escaped(First(stream, n)) \o EscapedByte(stream[n + 1])
      BY <3>1, <3>3, EscapedStep
    <3>6. taken + (consumed + 1) = n + 1
      BY <1>1, <3>2
    <3> QED BY <3>2, <3>4, <3>5, <3>6 DEF Upto
  <2> QED BY <1>1, <2>2, <2>3, <2>4, <2>5, <2>6, <2>7, GoesOutput
<1>4. CASE escape.tag # "NotStarted"
  <2>1. PICK place :
          /\ place = IF op = "process" THEN "scan" ELSE "return"
          /\ Goes(place, 0, <<>>) /\ escape' = escape
    BY <1>4 DEF StartEscape
  <2> QED BY <1>1, <1>2, <2>1, QuietOutput
<1> QED BY <1>3, <1>4

\* The literal that does not fit.
LEMMA ChunkIsCutOutput == HInv /\ ChunkIsCut => HInv'
<1> SUFFICES ASSUME HInv, ChunkIsCut PROVE HInv'
  OBVIOUS
<1>1. IInv /\ IInv'
  BY ChunkIsCutInv DEF HInv
<1>2. at = "scan" /\ op = "process" /\ escape.tag = "None" /\ Free < Chunk
  BY <1>1 DEF IInv, PlaceInv, ChunkIsCut
<1>3. escape'.tag # "Started"
  BY DEF ChunkIsCut, Remembers, NoEscape, NotStarted
<1>4. PICK n, bytes :
        n = Free /\ bytes = Copied(First(Remaining, n)) /\ Goes("return", n, bytes)
  BY DEF ChunkIsCut
<1>5. n \in Nat /\ n <= input - consumed /\ n < Chunk /\ Chunk \in Nat
  BY <1>1, <1>2, <1>4, FreeOf, ChunkOf DEF IInv, JsonTypeOK
<1>6. bytes \in Seq(Symbols) /\ Len(bytes) = n
  BY <1>1, <1>4, <1>5, CopyOf
<1>7. bytes \o Held' = Held \o bytes
  BY <1>2, <1>3, <1>6, NothingAdded DEF Held
<1>8. Escaped(Upto(consumed + n)) = Escaped(Upto(consumed)) \o bytes
  <2>1. \A k \in 1..n : Plain(stream[taken + consumed + k])
    <3>1. \A k \in 1..Chunk : Plain(stream[taken + consumed + k])
      BY <1>1, ChunkOf
    <3>2. \A k \in 1..n : k \in 1..Chunk
      BY <1>5
    <3> QED BY <3>1, <3>2
  <2> QED BY <1>1, <1>4, <1>5, <2>1, CopyYields
<1> QED BY <1>1, <1>3, <1>4, <1>5, <1>6, <1>7, <1>8, GoesOutput

\* The bytes of a chunk and what they yield.
LEMMA ChunkYields ==
  ASSUME IInv, NEW s \in Seq(Symbols), s = ChunkEscape(Remaining),
         NEW copy \in Seq(Symbols), copy = Copied(First(Remaining, Chunk))
  PROVE  Escaped(Upto(consumed + (IF s = <<>> THEN Chunk ELSE Chunk + 1)))
           = Escaped(Upto(consumed)) \o (copy \o s)
<1>1. /\ stream \in Seq(Bytes) /\ retained \in Nat /\ input \in Nat
      /\ taken \in Nat /\ consumed \in Nat
  BY JsonAssumption DEF IInv, JsonTypeOK
<1>2. Chunk \in Nat /\ Chunk <= input - consumed
  BY <1>1, ChunkOf
<1>3. Escaped(Upto(consumed + Chunk)) = Escaped(Upto(consumed)) \o copy
  BY <1>2, ChunkOf, CopyYields
<1>4. CASE s = <<>>
  BY <1>3, <1>4, NothingAdded
<1>5. CASE s # <<>>
  <2>1. Chunk < input - consumed /\ s = EscapedByte(stream[taken + consumed + Chunk + 1])
    BY <1>1, <1>2, <1>5, ChunkOf
  <2>2. PICK n \in Nat : n = taken + (consumed + Chunk) /\ n = taken + consumed + Chunk
    BY <1>1, <1>2
  <2>3. taken + input <= Len(stream)
    BY <1>1, <1>2, <2>1 DEF IInv, BuffersInv
  <2>4. n < Len(stream) /\ taken + (consumed + (Chunk + 1)) = n + 1
    BY <1>1, <1>2, <2>1, <2>2, <2>3
  <2>5. Escaped(First(stream, n + 1)) = Escaped(First(stream, n)) \o EscapedByte(stream[n + 1])
    BY <1>1, <2>4, EscapedStep
  <2>6. Escaped(Upto(consumed + (Chunk + 1))) = Escaped(Upto(consumed + Chunk)) \o s
    BY <2>1, <2>2, <2>4, <2>5 DEF Upto
  <2>7. Escaped(Upto(consumed)) \in Seq(Symbols)
    BY UptoOf
  <2>8. Cat(Cat(Escaped(Upto(consumed)), copy), s) = Cat(Escaped(Upto(consumed)), Cat(copy, s))
    BY <2>7, CatOf
  <2> QED BY <1>3, <1>5, <2>6, <2>8 DEF Cat
<1> QED BY <1>4, <1>5

\* The literal that fits and the escape after it.
LEMMA ChunkFitsOutput == HInv /\ ChunkFits => HInv'
<1> SUFFICES ASSUME HInv, ChunkFits PROVE HInv'
  OBVIOUS
<1>1. IInv /\ IInv'
  BY ChunkFitsInv DEF HInv
<1>2. at = "scan" /\ op = "process" /\ escape.tag = "None" /\ Chunk <= Free
  BY <1>1 DEF IInv, PlaceInv, ChunkFits
<1>3. PICK s, space, c, copy, place :
        /\ s = ChunkEscape(Remaining) /\ space = Free - Chunk
        /\ c = IF s = <<>> THEN Chunk ELSE Chunk + 1
        /\ copy = Copied(First(Remaining, Chunk))
        /\ place = IF escape' = NoEscape THEN "scan" ELSE "return"
        /\ escape' = StartedWith(s, space)
        /\ Goes(place, c, copy \o Fits(s, space))
  BY DEF ChunkFits
<1>4. /\ Chunk \in Nat /\ Chunk <= input - consumed /\ Free \in Nat
      /\ space \in Nat /\ s \in Seq(Symbols) /\ c \in Nat
  <2>1. /\ Chunk \in Nat /\ Chunk <= input - consumed /\ Free \in Nat /\ s \in Seq(Symbols)
    BY <1>1, <1>3, ChunkOf, FreeOf DEF IInv, JsonTypeOK
  <2> QED BY <1>2, <1>3, <2>1
<1>5. copy \in Seq(Symbols) /\ Len(copy) = Chunk
  BY <1>1, <1>3, <1>4, CopyOf
<1>6. Fits(s, space) \in Seq(Symbols) /\ Stays(s, space) \in Seq(Symbols)
  BY <1>4, FitsAndStays
<1>7. /\ Held' = Stays(s, space)
      /\ escape'.tag = "Started" => escape'.bytes # <<>>
      /\ escape' # NoEscape => Len(Fits(s, space)) = space
  BY <1>3, <1>4, HeldAfter
<1>8. PICK bytes \in Seq(Symbols) :
        bytes = copy \o Fits(s, space) /\ Len(bytes) = Chunk + Len(Fits(s, space))
  <2>1. \A x, y \in Seq(Symbols) : x \o y \in Seq(Symbols) /\ Len(x \o y) = Len(x) + Len(y)
    BY ConcatProperties
  <2> QED BY <1>5, <1>6, <2>1, Zenon
<1>9. PICK more \in Seq(Symbols) : more = copy \o s
  <2>1. \A x, y \in Seq(Symbols) : x \o y \in Seq(Symbols)
    BY ConcatProperties
  <2> QED BY <1>4, <1>5, <2>1, Zenon
<1>10. bytes \o Held' = Held \o more
  <2>1. Cat(Cat(copy, Fits(s, space)), Stays(s, space)) = Cat(copy, Cat(Fits(s, space), Stays(s, space)))
    BY <1>5, <1>6, CatOf
  <2>2. Fits(s, space) \o Stays(s, space) = s
    BY <1>4, FitsAndStaysJoin
  <2>3. bytes \o Stays(s, space) = more
    BY <1>8, <1>9, <2>1, <2>2 DEF Cat
  <2>4. Held = <<>>
    BY <1>2 DEF Held
  <2> QED BY <1>7, <1>9, <2>3, <2>4, NothingAdded
<1>11. Escaped(Upto(consumed + c)) = Escaped(Upto(consumed)) \o more
  BY <1>1, <1>3, <1>4, <1>5, <1>9, ChunkYields
<1>12. place = "return" => Len(bytes) = Free
  BY <1>3, <1>4, <1>7, <1>8
<1> QED BY <1>1, <1>3, <1>4, <1>7, <1>8, <1>9, <1>10, <1>11, <1>12, GoesOutput

\* An answer hands over what the call wrote.
LEMMA CommittedOf == IInv => Committed(Len(buffer)) = buffer
<1> SUFFICES ASSUME IInv PROVE Committed(Len(buffer)) = buffer
  OBVIOUS
<1>1. buffer \in Seq(Symbols)
  BY DEF IInv, JsonTypeOK
<1>2. Committed(Len(buffer)) = [k \in 1..Len(buffer) |-> buffer[k]]
  BY <1>1 DEF Committed
<1> QED BY <1>1, <1>2

\* What an answer leaves behind.
LEMMA ReturnOutput ==
  ASSUME NEW a
  PROVE  /\ HInv /\ IInv' /\ Return(a) /\ escape' = escape
         /\ a.written = Len(buffer) /\ a.consumed = consumed
         => /\ HInv' /\ out' = out \o buffer
            /\ Len(out') = Len(out) + a.written
<1>0. SUFFICES
        ASSUME HInv, IInv', Return(a), escape' = escape,
               a.written = Len(buffer), a.consumed = consumed
        PROVE  HInv' /\ out' = out \o buffer /\ Len(out') = Len(out) + a.written
  OBVIOUS
<1>1. /\ out \in Seq(Symbols) /\ buffer \in Seq(Symbols) /\ taken \in Nat /\ consumed \in Nat
      /\ (out \o buffer) \o Held = Escaped(Upto(consumed))
      /\ escape.tag = "Started" => escape.bytes # <<>>
  BY <1>0 DEF HInv, IInv, JsonTypeOK, OutputInv
<1>2. /\ out' = out \o buffer /\ buffer' = <<>> /\ taken' = taken + consumed /\ consumed' = 0
      /\ op' = "idle" /\ at' = "idle" /\ stream' = stream
  BY <1>0, CommittedOf DEF Return, HInv
<1>3. out' \in Seq(Symbols) /\ Len(out') = Len(out) + Len(buffer)
  BY <1>1, <1>2
<1>4. (out' \o buffer') \o Held' = Escaped(Upto(consumed))'
  <2>1. out' \o buffer' = out \o buffer
    BY <1>2, <1>3, NothingAdded
  <2>2. Held' = Held
    BY <1>0 DEF Held
  <2>3. taken' + consumed' = taken + consumed
    BY <1>1, <1>2
  <2>4. Escaped(Upto(consumed))' = Escaped(Upto(consumed))
    BY <1>2, <2>3 DEF Upto, First, Escaped, EscapedByte
  <2> QED BY <1>1, <2>1, <2>2, <2>4
<1> QED BY <1>0, <1>1, <1>2, <1>3, <1>4 DEF HInv, OutputInv

\* The driver offers at least what it got back.
LEMMA DriverOutput == HInv /\ Driver => HInv'
<1> SUFFICES ASSUME HInv, Driver PROVE HInv'
  OBVIOUS
<1>1. IInv /\ IInv' /\ retained \in Nat
  BY DriverInv DEF HInv, IInv, JsonTypeOK
<1>2. /\ UNCHANGED <<stream, taken, retained, out, consumed, buffer, escape>> /\ at' = "entry"
  BY DEF Driver, CallProcess, CallFlush, CallFinish, Begin
<1>3. op' = "process" => retained' <= input'
  <2>1. CASE CallProcess
    <3>1. PICK i \in retained..(Len(stream) - taken), o \in Rooms : Begin("process", i, o)
      BY <2>1 DEF CallProcess
    <3> QED BY <1>1, <3>1 DEF Begin
  <2>2. CASE CallFlush \/ CallFinish
    BY <2>2 DEF CallFlush, CallFinish, Begin
  <2> QED BY <2>1, <2>2 DEF Driver
<1>4. Escaped(Upto(consumed))' = Escaped(Upto(consumed)) /\ Held' = Held
  BY <1>2 DEF Upto, First, Escaped, EscapedByte, Held
<1>5. buffer' = <<>>
  BY <1>1, <1>2 DEF Driver, CallProcess, CallFlush, CallFinish, Begin, IInv, BuffersInv
<1> QED BY <1>1, <1>2, <1>3, <1>4, <1>5 DEF HInv, OutputInv

-----------------------------------------------------------------------------
(* The promise of HonestCodec.                                             *)

\* What was written is the beginning of what the consumed bytes yield; what is
\* missing of it is held.
LEMMA WrittenSoFar ==
  ASSUME NEW written \in Seq(Symbols), NEW held \in Seq(Symbols)
  PROVE  /\ IsPrefix(written, written \o held)
         /\ Len(written \o held) = Len(written) + Len(held)
         /\ held # <<>> => Len(written) < Len(written \o held)
         /\ held = <<>> => written \o held = written
<1>1. PICK s \in Seq(Symbols) : s = written \o held /\ Len(s) = Len(written) + Len(held)
  BY ConcatProperties
<1>2. SubSeq(s, 1, Len(written)) = written
  <2>1. \A k \in 1..Len(written) : s[k] = written[k]
    BY <1>1, ConcatProperties
  <2>2. PICK q \in Seq(Symbols) :
          q = SubSeq(s, 1, Len(written)) /\ Len(q) = Len(written) /\ \A k \in 1..Len(written) : q[k] = s[k]
    BY <1>1
  <2> QED BY <2>1, <2>2, SeqEqual
<1>3. SubSeq(written, 1, Len(written)) = written
  BY SubSeqFull
<1>4. IsPrefix(written, s)
  BY <1>1, <1>2, <1>3 DEF IsPrefix
<1>5. held # <<>> => Len(held) > 0
  OBVIOUS
<1>6. held = <<>> => written \o held = written
  BY NothingAdded
<1> QED BY <1>1, <1>4, <1>5, <1>6

\* What every answer does: the bytes it claims were consumed and written.
LEMMA ReturnMoves ==
  ASSUME NEW a
  PROVE  /\ HInv /\ IInv' /\ Return(a) /\ escape' = escape
         /\ a.written = Len(buffer) /\ a.consumed = consumed
         => /\ Honest!Moves(last')
            /\ Len(out') + Len(Held) = Len(Honest!Output(taken'))
            /\ Held = <<>> => out' = Honest!Output(taken')
<1>0. SUFFICES
        ASSUME HInv, IInv', Return(a), escape' = escape,
               a.written = Len(buffer), a.consumed = consumed
        PROVE  /\ Honest!Moves(last')
               /\ Len(out') + Len(Held) = Len(Honest!Output(taken'))
               /\ Held = <<>> => out' = Honest!Output(taken')
  OBVIOUS
<1>1. /\ HInv' /\ out' = out \o buffer /\ Len(out') = Len(out) + a.written
  BY <1>0, ReturnOutput
<1>2. /\ out \in Seq(Symbols) /\ out' \in Seq(Symbols) /\ buffer \in Seq(Symbols)
      /\ Held \in Seq(Symbols) /\ Held' = Held
  BY <1>0, <1>1, HeldOf DEF HInv, IInv, JsonTypeOK, OutputInv, Held
<1>3. /\ buffer' = <<>> /\ consumed' = 0 /\ taken' = taken + consumed /\ taken' \in Nat
      /\ last'.answer = a /\ last'.input = input /\ last'.room = room /\ stream' = stream
      /\ consumed <= input /\ Len(buffer) <= room
  BY <1>0 DEF Return, HInv, IInv, JsonTypeOK, BuffersInv
<1>4. Honest!Output(taken') = out' \o Held
  <2>1. (out' \o buffer') \o Held' = Escaped(Upto(consumed))'
    BY <1>1 DEF HInv, OutputInv
  <2>2. Escaped(Upto(consumed))' = Escaped(SubSeq(stream, 1, taken'))
    <3>1. taken' + consumed' = taken'
      BY <1>3
    <3>2. Escaped(Upto(consumed))' = Escaped(First(stream, taken' + consumed'))
      BY <1>3 DEF Upto, First, Escaped, EscapedByte
    <3> QED BY <3>1, <3>2 DEF First
  <2>3. out' \o buffer' = out'
    BY <1>2, <1>3, NothingAdded
  <2>4. Honest!Output(taken') = Escaped(SubSeq(stream, 1, taken'))
    BY DEF Honest!Output, EscapedOutput
  <2> QED BY <1>2, <2>1, <2>2, <2>3, <2>4
<1>5. IsPrefix(out, out')
  BY <1>1, <1>2, WrittenSoFar
<1>6. /\ IsPrefix(out', Honest!Output(taken'))
      /\ Len(Honest!Output(taken')) = Len(out') + Len(Held)
      /\ Held = <<>> => Honest!Output(taken') = out'
  BY <1>2, <1>4, WrittenSoFar
<1>7. Honest!Moves(last')
  <2>1. last'.answer.consumed <= last'.input /\ last'.answer.written <= last'.room
    BY <1>0, <1>3
  <2>2. taken' = taken + last'.answer.consumed /\ Len(out') = Len(out) + last'.answer.written
    BY <1>0, <1>1, <1>3
  <2>3. Honest!IsPrefix(out, out') /\ Honest!IsPrefix(out', Honest!Output(taken'))
    BY <1>5, <1>6 DEF IsPrefix, Honest!IsPrefix
  <2> QED BY <2>1, <2>2, <2>3 DEF Honest!Moves
<1> QED BY <1>1, <1>2, <1>6, <1>7

\* The answers of `process`.
LEMMA ReturnProcessHonest ==
  HInv /\ ReturnProcess => HInv' /\ stream' = stream /\ Honest!HonestProcess(last')
<1> SUFFICES ASSUME HInv, ReturnProcess
             PROVE  HInv' /\ stream' = stream /\ Honest!HonestProcess(last')
  OBVIOUS
<1>1. IInv /\ IInv' /\ op = "process" /\ escape' = escape /\ retained <= input
      /\ consumed \in Nat /\ room \in Nat
  BY ReturnProcessInv DEF HInv, OutputInv, ReturnProcess, IInv, JsonTypeOK
<1>2. PICK a :
        /\ Return(a) /\ a.written = Len(buffer) /\ a.consumed = consumed
        /\ \/ a.tag = "OutputFilled" /\ a.written = room
           \/ a.tag = "InputConsumed" /\ consumed = input
  <2>1. CASE at = "return" /\ Return(OutputFilled(consumed))
    <3>1. Len(buffer) = room
      BY <1>1, <2>1, FreeOf DEF HInv, OutputInv
    <3> QED BY <2>1, <3>1 DEF OutputFilled, Answer
  <2>2. CASE at = "scan" /\ consumed = input /\ Return(InputConsumed)
    BY <2>2 DEF InputConsumed, Answer
  <2> QED BY <2>1, <2>2 DEF ReturnProcess
<1>3. HInv' /\ Honest!Moves(last')
  BY <1>1, <1>2, ReturnOutput, ReturnMoves
<1>4. /\ last'.op = "process" /\ last'.input = input /\ last'.room = room /\ last'.answer = a
      /\ retained' = input - a.consumed /\ stream' = stream
  BY <1>1, <1>2 DEF Return
<1>5. CASE a.tag = "OutputFilled" /\ a.written = room
  BY <1>1, <1>3, <1>4, <1>5 DEF Honest!HonestProcess
<1>6. CASE a.tag = "InputConsumed" /\ consumed = input
  BY <1>1, <1>2, <1>3, <1>4, <1>6 DEF Honest!HonestProcess
<1> QED BY <1>2, <1>5, <1>6

\* The answers of `flush` and `finish`.
LEMMA ReturnDrainHonest ==
  HInv /\ ReturnDrain
    => HInv' /\ stream' = stream /\ (Honest!HonestFlush(last') \/ Honest!HonestFinish(last'))
<1> SUFFICES ASSUME HInv, ReturnDrain
             PROVE  /\ HInv' /\ stream' = stream
                    /\ Honest!HonestFlush(last') \/ Honest!HonestFinish(last')
  OBVIOUS
<1>1. /\ IInv /\ IInv' /\ op \in {"flush", "finish"} /\ at = "return" /\ escape' = escape
      /\ taken \in Nat /\ consumed = 0
  BY ReturnDrainInv DEF HInv, ReturnDrain, IInv, JsonTypeOK, BuffersInv
<1>2. PICK a :
        /\ Return(a) /\ a.written = Len(buffer) /\ a.consumed = consumed
        /\ \/ a.tag = "OutputFilled" /\ a.written = room /\ Held # <<>>
           \/ a.tag = "Done" /\ Held = <<>>
  <2>1. CASE escape.tag = "Started"
    <3>1. Len(buffer) = room /\ Held # <<>>
      BY <1>1, <2>1, FreeOf DEF HInv, OutputInv, Held
    <3> QED BY <1>1, <2>1, <3>1 DEF ReturnDrain, StillHeld, OutputFilled, Answer
  <2>2. CASE escape.tag # "Started"
    BY <1>1, <2>2 DEF ReturnDrain, StillHeld, Done, Answer, Held
  <2> QED BY <2>1, <2>2
<1>3. /\ HInv' /\ Honest!Moves(last') /\ out' \in Seq(Symbols) /\ Held \in Seq(Symbols)
      /\ Len(out') + Len(Held) = Len(Honest!Output(taken'))
      /\ Held = <<>> => out' = Honest!Output(taken')
  BY <1>1, <1>2, ReturnOutput, ReturnMoves, HeldOf DEF HInv, OutputInv
<1>4. /\ last'.op = op /\ last'.input = input /\ last'.room = room /\ last'.answer = a
      /\ retained' = retained /\ taken' = taken /\ stream' = stream
  BY <1>1, <1>2 DEF Return
<1>5. CASE a.tag = "OutputFilled" /\ a.written = room /\ Held # <<>>
  <2>1. Honest!MoreIsPending
    BY <1>3, <1>5 DEF Honest!MoreIsPending
  <2> QED BY <1>1, <1>3, <1>4, <1>5, <2>1 DEF Honest!HonestFlush, Honest!HonestFinish
<1>6. CASE a.tag = "Done" /\ Held = <<>>
  <2>1. ~Honest!IsBad(taken) /\ ~Honest!IsPartial(taken)
    BY DEF Honest!IsBad, Honest!IsPartial, Never
  <2>2. out' = Honest!Output(taken)
    BY <1>3, <1>4, <1>6
  <2> QED BY <1>1, <1>3, <1>4, <1>6, <2>1, <2>2 DEF Honest!HonestFlush, Honest!HonestFinish
<1> QED BY <1>2, <1>5, <1>6

\* The error of `finish`: the driver holds input that it did not offer again.
LEMMA LiteralIsMissingHonest ==
  HInv /\ LiteralIsMissing => HInv' /\ stream' = stream /\ Honest!HonestFinish(last')
<1> SUFFICES ASSUME HInv, LiteralIsMissing
             PROVE  HInv' /\ stream' = stream /\ Honest!HonestFinish(last')
  OBVIOUS
<1>1. /\ IInv /\ IInv' /\ op = "finish" /\ at = "entry" /\ literal > 0 /\ escape' = escape
      /\ taken \in Nat /\ consumed = 0 /\ buffer = <<>> /\ retained \in Nat
  BY LiteralIsMissingInv DEF HInv, OutputInv, LiteralIsMissing, IInv, JsonTypeOK, BuffersInv
<1>2. retained > 0
  BY <1>1 DEF IInv, JsonTypeOK, PendingInv, Left
<1>3. PICK a : /\ Return(a) /\ a.tag = "Err" /\ a.written = Len(buffer) /\ a.consumed = consumed
  BY <1>1 DEF LiteralIsMissing, Answer
<1>4. HInv' /\ Honest!Moves(last')
  BY <1>1, <1>3, ReturnOutput, ReturnMoves
<1>5. /\ last'.op = "finish" /\ last'.answer = a
      /\ retained' = retained /\ taken' = taken /\ stream' = stream
  BY <1>1, <1>3 DEF Return
<1> QED BY <1>2, <1>3, <1>4, <1>5 DEF Honest!HonestFinish

\* Every step inside a call is a stutter, every answer is one of the promise.
LEMMA StepHonest == HInv /\ [Next]_vars => HInv' /\ [Honest!HonestNext]_(Honest!vars)
<1> SUFFICES ASSUME HInv, [Next]_vars PROVE HInv' /\ [Honest!HonestNext]_(Honest!vars)
  OBVIOUS
<1>1. CASE Enter \/ DrainStarted \/ DrainLiteral \/ StartEscape \/ ChunkIsCut \/ ChunkFits
  <2>1. HInv'
    BY <1>1, EnterOutput, DrainStartedOutput, DrainLiteralOutput, StartEscapeOutput,
       ChunkIsCutOutput, ChunkFitsOutput
  <2>2. UNCHANGED <<stream, taken, retained, out, last>>
    BY <1>1 DEF Enter, DrainStarted, DrainLiteral, StartEscape, ChunkIsCut, ChunkFits, Goes
  <2> QED BY <2>1, <2>2 DEF Honest!vars
<1>2. CASE ReturnProcess
  BY <1>2, ReturnProcessHonest DEF Honest!HonestNext
<1>3. CASE ReturnDrain
  BY <1>3, ReturnDrainHonest DEF Honest!HonestNext
<1>4. CASE LiteralIsMissing
  BY <1>4, LiteralIsMissingHonest DEF Honest!HonestNext
<1>5. CASE Driver
  <2>1. last' = Honest!NoCall /\ UNCHANGED <<stream, taken, retained, out>>
    BY <1>5 DEF Driver, CallProcess, CallFlush, CallFinish, Begin, NoCall, Answer, NoKind,
                Honest!NoCall
  <2> QED BY <1>5, <2>1, DriverOutput DEF Honest!HonestNext
<1>6. CASE UNCHANGED vars \/ (Stopped /\ UNCHANGED <<literal, escape>>)
  <2>1. UNCHANGED vars
    BY <1>6 DEF Stopped, vars
  <2>2. IInv'
    BY <2>1, StepInv DEF HInv
  <2>3. HInv'
    BY <2>1, <2>2 DEF HInv, OutputInv, Held, Upto, First, Escaped, EscapedByte, Free, vars, callVars
  <2> QED BY <2>1, <2>3 DEF Honest!vars, vars, callVars
<1> QED BY <1>1, <1>2, <1>3, <1>4, <1>5, <1>6 DEF Next

\* At the start nothing was written.
LEMMA InitHonest == Init => HInv /\ Honest!HonestInit
<1> SUFFICES ASSUME Init PROVE HInv /\ Honest!HonestInit
  OBVIOUS
<1>1. IInv
  BY InitInv
<1>2. /\ stream \in Seq(Bytes) /\ taken = 0 /\ retained = 0 /\ consumed = 0 /\ out = <<>>
      /\ buffer = <<>> /\ op = "idle" /\ at = "idle" /\ escape.tag = "None" /\ last = NoCall
  BY JsonAssumption DEF Init, CallInit, NoEscape
<1>3. Upto(consumed) = <<>>
  BY <1>2 DEF Upto, First
<1>4. out \in Seq(Symbols) /\ (out \o buffer) \o Held = <<>>
  <2>1. Held = <<>>
    BY <1>2 DEF Held
  <2>2. <<>> \in Seq(Symbols)
    OBVIOUS
  <2> QED BY <1>2, <2>1, <2>2, NothingAdded
<1>5. HInv
  BY <1>1, <1>2, <1>3, <1>4, EscapedEmpty DEF HInv, OutputInv
<1>6. last = Honest!NoCall
  BY <1>2 DEF NoCall, Answer, NoKind, Honest!NoCall
<1> QED BY <1>2, <1>5, <1>6 DEF Honest!HonestInit

\* The escaper is a codec as protocol.rs asks for, for every stream, every
\* escaping and every way to cut input and output into calls: together the
\* calls of `process`, `flush` and `finish` write what one call would, each
\* says truly how far it got, and Done of `finish` means that all is out.
THEOREM JsonImplementsHonestCodec == JsonSpec => ImplementsHonestCodec
BY InitHonest, StepHonest, PTL DEF JsonSpec, ImplementsHonestCodec, Honest!HonestSpec

=============================================================================
