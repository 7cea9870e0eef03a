---------------------------- MODULE SinksProofs ----------------------------
(***************************************************************************)
(* The safety of the sinks for every length of slice, buffer and growth:   *)
(* no commit leaves the memory that is there, no byte reaches the          *)
(* destination twice, and every step is one that SinkContract, the promise *)
(* to the drivers, allows.                                                 *)
(***************************************************************************)
EXTENDS Sinks, SequenceTheorems, Integers, TLAPS

-----------------------------------------------------------------------------
(* The inductive invariant.                                                *)

\* A byte somebody wrote.
Byte == Nat \ {0}

SinksTypeOK ==
  /\ sink \in {SliceSink, VecSink} \cup Scratch
  /\ capacity \in Nat
  /\ content \in Seq(Byte) /\ buffer \in Seq(Byte) /\ rest \in Seq(Byte)
  /\ offered \in Nat /\ asked \in Nat
  /\ op \in {"idle", "commit"}
  /\ result.tag \in {"Ok", "Some", "None", "Err"}
  /\ next \in Byte /\ retried \in BOOLEAN

\* The space a sink counts on is all there, and in memory it is unused space.
SpaceInv ==
  /\ offered # 0 => Len(buffer) = offered
  /\ sink \notin Scratch => offered + Len(content) <= capacity /\ op = "idle" /\ result.tag # "Err"

\* write_all has at most the bytes of its commit left to write.
RestInv == IF op = "commit" THEN Len(rest) <= Clamped(asked) ELSE rest = <<>>

\* The first byte that the destination does not have yet: the ones of a
\* commit in progress arrive one after the other.
Arriving == IF op = "commit" THEN next + Clamped(asked) - Len(rest) ELSE next

\* Bytes before the m-th, bytes in order, and the bytes from the m-th on.
Below(s, m)    == \A i \in 1..Len(s) : s[i] < m
Rising(s)      == \A i, j \in 1..Len(s) : i < j => s[i] < s[j]
RunsFrom(s, m) == \A i \in 1..Len(s) : s[i] = m + i - 1

\* Unless the caller repeats itself, the destination has bytes from before
\* Arriving only, in order, and the space and the rest go on from there.
OrderInv ==
  ~retried =>
    /\ Below(content, Arriving) /\ Rising(content) /\ RunsFrom(rest, Arriving)
    /\ result.tag # "Err" => \A i \in 1..offered : buffer[i] = next + i - 1
    /\ op = "commit" => result.tag # "Err"

IInv == SinksTypeOK /\ SpaceInv /\ RestInv /\ OrderInv

-----------------------------------------------------------------------------
(* Sequences of bytes.                                                     *)

\* A finite table of bytes is a sequence of bytes.
LEMMA TableIsSeq ==
  ASSUME NEW n \in Nat, NEW f \in [1..n -> Byte]
  PROVE  f \in Seq(Byte) /\ Len(f) = n /\ \A i \in 1..n : f[i] \in Byte
OBVIOUS

\* Appending n entries of t to s.
LEMMA Appended ==
  ASSUME NEW s \in Seq(Byte), NEW t \in Seq(Byte)
  PROVE  /\ s \o t \in Seq(Byte) /\ Len(s \o t) = Len(s) + Len(t)
         /\ \A i \in 1..Len(s \o t) : (s \o t)[i] = IF i <= Len(s) THEN s[i] ELSE t[i - Len(s)]
<1>1. Len(s) \in Nat /\ Len(t) \in Nat
  OBVIOUS
<1> QED BY <1>1, ConcatProperties

\* A run from m keeps the order of what was below m.
LEMMA OrderGoesOn ==
  ASSUME NEW s \in Seq(Byte), NEW t \in Seq(Byte), NEW m \in Nat,
         Below(s, m), Rising(s), RunsFrom(t, m)
  PROVE  Below(s \o t, m + Len(t)) /\ Rising(s \o t)
<1> DEFINE u == s \o t
<1>1. Len(s) \in Nat /\ Len(t) \in Nat /\ Len(u) = Len(s) + Len(t)
  BY Appended
<1>2. \A i \in 1..Len(s) : s[i] \in Nat
  BY DEF Byte
<1>3. ASSUME NEW i \in 1..Len(u)
      PROVE  /\ i <= Len(s) => i \in 1..Len(s) /\ u[i] = s[i]
             /\ ~(i <= Len(s)) => i - Len(s) \in 1..Len(t) /\ u[i] = m + (i - Len(s)) - 1
  <2>1. u[i] = IF i <= Len(s) THEN s[i] ELSE t[i - Len(s)]
    BY Appended
  <2>2. ~(i <= Len(s)) => i - Len(s) \in 1..Len(t)
    BY <1>1
  <2> QED BY <1>1, <2>1, <2>2 DEF RunsFrom
<1>4. ASSUME NEW i \in 1..Len(u) PROVE u[i] < m + Len(t)
  BY <1>1, <1>2, <1>3 DEF Below
<1>5. ASSUME NEW i \in 1..Len(u), NEW j \in 1..Len(u), i < j PROVE u[i] < u[j]
  <2>1. CASE j <= Len(s)
    BY <1>1, <1>3, <1>5, <2>1 DEF Rising
  <2>2. CASE i <= Len(s) /\ ~(j <= Len(s))
    <3>1. u[i] < m /\ u[i] \in Nat
      BY <1>2, <1>3, <2>2 DEF Below
    <3>2. u[j] >= m /\ u[j] \in Nat
      BY <1>1, <1>3, <2>2
    <3> QED BY <3>1, <3>2
  <2>3. CASE ~(i <= Len(s))
    BY <1>1, <1>3, <1>5, <2>3
  <2> QED BY <2>1, <2>2, <2>3
<1> QED BY <1>4, <1>5 DEF Below, Rising

\* A sequence cut after its n-th entry.
LEMMA Cut ==
  ASSUME NEW s \in Seq(Byte), NEW n \in 0..Len(s)
  PROVE  /\ SubSeq(s, 1, n) \in Seq(Byte) /\ Len(SubSeq(s, 1, n)) = n
         /\ \A i \in 1..n : SubSeq(s, 1, n)[i] = s[i]
         /\ SubSeq(s, n + 1, Len(s)) \in Seq(Byte)
         /\ Len(SubSeq(s, n + 1, Len(s))) = Len(s) - n
         /\ \A i \in 1..(Len(s) - n) : SubSeq(s, n + 1, Len(s))[i] = s[n + i]
<1>1. Len(s) \in Nat /\ n \in Nat /\ n <= Len(s)
  OBVIOUS
<1>2. \A i \in 1..Len(s) : s[i] \in Byte
  OBVIOUS
<1>3. /\ SubSeq(s, 1, n) \in Seq(Byte) /\ Len(SubSeq(s, 1, n)) = IF 1 <= n THEN n - 1 + 1 ELSE 0
      /\ \A i \in 1..(n - 1 + 1) : SubSeq(s, 1, n)[i] = s[1 + i - 1]
  BY <1>1, <1>2, SubSeqProperties
<1>4. /\ SubSeq(s, n + 1, Len(s)) \in Seq(Byte)
      /\ Len(SubSeq(s, n + 1, Len(s))) = IF n + 1 <= Len(s) THEN Len(s) - (n + 1) + 1 ELSE 0
      /\ \A i \in 1..(Len(s) - (n + 1) + 1) :
           SubSeq(s, n + 1, Len(s))[i] = s[(n + 1) + i - 1]
  BY <1>1, <1>2, SubSeqProperties
<1>5. ASSUME NEW i \in 1..n PROVE SubSeq(s, 1, n)[i] = s[i]
  <2>1. i \in 1..(n - 1 + 1) /\ 1 + i - 1 = i
    BY <1>1
  <2> QED BY <1>3, <2>1
<1>6. ASSUME NEW i \in 1..(Len(s) - n) PROVE SubSeq(s, n + 1, Len(s))[i] = s[n + i]
  <2>1. i \in 1..(Len(s) - (n + 1) + 1) /\ (n + 1) + i - 1 = n + i
    BY <1>1
  <2> QED BY <1>4, <2>1
<1>7. /\ Len(SubSeq(s, 1, n)) = n /\ Len(SubSeq(s, n + 1, Len(s))) = Len(s) - n
  BY <1>1, <1>3, <1>4
<1> QED BY <1>3, <1>4, <1>5, <1>6, <1>7

\* The bytes of a commit are the first ones of the space.
LEMMA FirstBytesTyped ==
  ASSUME SinksTypeOK, SpaceInv, NEW n \in 0..offered
  PROVE  /\ FirstBytes(n) \in Seq(Byte) /\ Len(FirstBytes(n)) = n
         /\ \A i \in 1..n : FirstBytes(n)[i] = buffer[i]
<1>1. (n \in Nat /\ n <= Len(buffer)) \/ n = 0
  BY DEF SinksTypeOK, SpaceInv
<1>2. \A i \in 1..n : i <= Len(buffer) /\ buffer[i] \in Byte
  BY <1>1 DEF SinksTypeOK
<1>3. FirstBytes(n) \in [1..n -> Byte] /\ \A i \in 1..n : FirstBytes(n)[i] = buffer[i]
  BY <1>2 DEF FirstBytes
<1> QED BY <1>3, TableIsSeq

\* A commit stores at most the space.
LEMMA ClampedTyped ==
  ASSUME SinksTypeOK, NEW amount \in Nat
  PROVE  Clamped(amount) \in 0..offered /\ Clamped(amount) <= amount
BY DEF SinksTypeOK, Clamped

\* The space that a spare returns holds the bytes the caller has to store.
LEMMA LentSpace ==
  ASSUME SinksTypeOK, NEW n \in Nat, Lends(n)
  PROVE  /\ offered' = n /\ buffer' \in Seq(Byte) /\ Len(buffer') = n
         /\ \A i \in 1..n : buffer'[i] = next + i - 1
         /\ result'.tag = "Some"
<1>1. \A i \in 1..n : next + i - 1 \in Byte
  BY DEF SinksTypeOK, Byte
<1>2. buffer' \in [1..n -> Byte] /\ \A i \in 1..n : buffer'[i] = next + i - 1
  BY <1>1 DEF Lends
<1> QED BY <1>2, TableIsSeq DEF Lends, Returned

-----------------------------------------------------------------------------
(* The first state, and every step.                                        *)

\* The first state.
LEMMA InitInv == Init => IInv
<1> SUFFICES ASSUME Init PROVE IInv
  OBVIOUS
<1>1. <<>> \in Seq(Byte) /\ Len(<<>>) = 0
  OBVIOUS
<1>2. capacity \in Nat
  BY SinksAssumption DEF Init
<1>3. SinksTypeOK
  <2>1. 1 \in Byte
    BY DEF Byte
  <2> QED BY <1>1, <1>2, <2>1 DEF Init, SinksTypeOK, Returned
<1>4. SpaceInv /\ RestInv
  BY <1>1, <1>2, SinksAssumption
     DEF Init, SpaceInv, RestInv, Returned, Scratch, SliceSink, VecSink, StdSink, EmbeddedSink
<1>5. OrderInv
  BY <1>1 DEF Init, OrderInv, Below, Rising, RunsFrom, Returned
<1> QED BY <1>3, <1>4, <1>5 DEF IInv

\* A spare replaces the space and nothing else.
LEMMA SpareInv == IInv /\ Spare => IInv'
<1> SUFFICES ASSUME IInv, Spare PROVE IInv'
  OBVIOUS
<1>1. /\ op = "idle" /\ UNCHANGED <<sink, content, op, rest, asked, next, retried>>
      /\ Len(content) \in Nat /\ SinksTypeOK
  BY DEF Spare, Goes, callerVars, IInv, SinksTypeOK
<1>2. \/ \E n \in Nat :
           /\ Lends(n) /\ capacity' \in Nat
           /\ sink \notin Scratch => n + Len(content) <= capacity'
      \/ /\ sink = SliceSink /\ result'.tag = "None" /\ UNCHANGED <<buffer, offered, capacity>>
  <2>1. CASE SliceSpare
    <3>1. Unused \in Nat
      BY <1>1, <2>1 DEF SliceSpare, Unused, IInv, SinksTypeOK, SpaceInv, Scratch, SliceSink, StdSink, EmbeddedSink
    <3> QED BY <1>1, <2>1, <3>1 DEF SliceSpare, Unused, Returned, SinksTypeOK
  <2>2. CASE VecSpare
    <3>1. Len(content) <= capacity
      BY <1>1, <2>2 DEF VecSpare, IInv, SinksTypeOK, SpaceInv, Scratch, VecSink, StdSink, EmbeddedSink
    <3>2. capacity' \in Nat /\ Len(content) <= capacity'
      BY <1>1, <2>2, <3>1, SinksAssumption DEF VecSpare, Reserved, SinksTypeOK
    <3> QED BY <1>1, <2>2, <3>2 DEF VecSpare
  <2>3. CASE ScratchSpare
    BY <1>1, <2>3, SinksAssumption DEF ScratchSpare, SinksTypeOK
  <2> QED BY <2>1, <2>2, <2>3 DEF Spare
<1>3. CASE sink = SliceSink /\ result'.tag = "None" /\ UNCHANGED <<buffer, offered, capacity>>
  <2>1. Arriving' = Arriving
    BY <1>1 DEF Arriving
  <2>2. OrderInv'
    BY <1>1, <1>3, <2>1
       DEF IInv, OrderInv, SpaceInv, Scratch, SliceSink, StdSink, EmbeddedSink
  <2> QED BY <1>1, <1>3, <2>2 DEF IInv, SinksTypeOK, SpaceInv, RestInv
<1>4. CASE \E n \in Nat :
             /\ Lends(n) /\ capacity' \in Nat
             /\ sink \notin Scratch => n + Len(content) <= capacity'
  <2>0. PICK n \in Nat :
           /\ Lends(n) /\ capacity' \in Nat
           /\ sink \notin Scratch => n + Len(content) <= capacity'
    BY <1>4
  <2>1. /\ offered' = n /\ buffer' \in Seq(Byte) /\ Len(buffer') = n
        /\ \A i \in 1..n : buffer'[i] = next + i - 1
        /\ result'.tag = "Some"
    BY <1>1, <2>0, LentSpace
  <2>2. Arriving' = next /\ Arriving = next
    BY <1>1 DEF Arriving
  <2>3. OrderInv'
    BY <1>1, <2>1, <2>2 DEF IInv, OrderInv
  <2> QED BY <1>1, <2>0, <2>1, <2>3 DEF IInv, SinksTypeOK, SpaceInv, RestInv
<1> QED BY <1>2, <1>3, <1>4

\* A commit to memory appends to the slice or the vec.
LEMMA CommitToMemoryInv == IInv /\ CommitToMemory => IInv'
<1> SUFFICES ASSUME IInv, CommitToMemory PROVE IInv'
  OBVIOUS
<1>1. PICK amount \in 0..(offered + 1) :
         /\ Asks(amount)
         /\ content' = content \o FirstBytes(Clamped(amount))
         /\ Committed(Clamped(amount))
  BY DEF CommitToMemory
<1>2. /\ SinksTypeOK /\ op = "idle" /\ rest = <<>> /\ sink \notin Scratch
      /\ UNCHANGED <<sink, capacity, buffer, op, rest, retried>>
      /\ asked' = amount /\ amount \in Nat
      /\ offered + Len(content) <= capacity /\ result.tag # "Err"
      /\ offered \in Nat /\ Len(content) \in Nat /\ content \in Seq(Byte)
  BY <1>1 DEF CommitToMemory, Asks, Goes, IInv, SinksTypeOK, SpaceInv, RestInv
<1>3. PICK k \in 0..offered : k = Clamped(amount)
  BY <1>2, ClampedTyped
<1>4. PICK t \in Seq(Byte) :
         /\ t = FirstBytes(k) /\ Len(t) = k /\ \A i \in 1..k : t[i] = buffer[i]
  BY <1>2, FirstBytesTyped DEF IInv
<1>5. content' = content \o t
  BY <1>1, <1>3, <1>4
<1>6. offered' = 0 /\ next' = next + k /\ result'.tag = "Ok"
  BY <1>1, <1>3 DEF Committed, OfferedAfterCommit, Returned
<1>7. content' \in Seq(Byte) /\ Len(content') = Len(content) + k
  BY <1>2, <1>4, <1>5, Appended
<1>8. SinksTypeOK'
  <2>1. next' \in Byte /\ offered' \in Nat
    BY <1>2, <1>6 DEF SinksTypeOK, Byte
  <2> QED BY <1>2, <1>6, <1>7, <2>1 DEF SinksTypeOK
<1>9. SpaceInv' /\ RestInv'
  BY <1>2, <1>6, <1>7 DEF SinksTypeOK, SpaceInv, RestInv
<1>10. ASSUME ~retried PROVE OrderInv'
  <2>1. /\ Below(content, next) /\ Rising(content)
        /\ \A i \in 1..offered : buffer[i] = next + i - 1
    BY <1>2, <1>10 DEF IInv, OrderInv, Arriving
  <2>2. Arriving' = next + Len(t) /\ next \in Nat
    BY <1>2, <1>4, <1>6 DEF Arriving, SinksTypeOK, Byte
  <2>3. RunsFrom(t, next)
    BY <1>2, <1>4, <2>1 DEF RunsFrom
  <2>4. Below(content', Arriving') /\ Rising(content')
    BY <1>2, <1>5, <2>1, <2>2, <2>3, OrderGoesOn
  <2>5. /\ RunsFrom(rest', Arriving')
        /\ \A i \in 1..offered' : buffer'[i] = next' + i - 1
    BY <1>2, <1>6 DEF RunsFrom
  <2> QED BY <1>2, <2>4, <2>5 DEF OrderInv
<1>11. OrderInv'
  BY <1>2, <1>10 DEF OrderInv
<1> QED BY <1>8, <1>9, <1>11 DEF IInv

\* A commit to a writer starts write_all on the first bytes of the space.
LEMMA CommitToWriterInv == IInv /\ CommitToWriter => IInv'
<1> SUFFICES ASSUME IInv, CommitToWriter PROVE IInv'
  OBVIOUS
<1>1. PICK amount \in 0..(offered + 1) : Asks(amount) /\ rest' = FirstBytes(Clamped(amount))
  BY DEF CommitToWriter
<1> DEFINE k == Clamped(amount)
<1>2. /\ SinksTypeOK /\ sink \in Scratch /\ op' = "commit" /\ op = "idle"
      /\ UNCHANGED <<sink, content, capacity, buffer, offered, result, next, retried>>
      /\ asked' = amount /\ asked' \in Nat /\ k \in 0..offered /\ k \in Nat
      /\ Clamped(asked)' = k
      /\ result.tag = "Err" => retried
  BY <1>1, ClampedTyped DEF CommitToWriter, Asks, Goes, IInv, SinksTypeOK, Clamped
<1>3. /\ rest' \in Seq(Byte) /\ Len(rest') = k
      /\ \A i \in 1..k : rest'[i] = buffer[i]
  BY <1>1, <1>2, FirstBytesTyped DEF IInv
<1> HIDE DEF k
<1>4. SinksTypeOK' /\ SpaceInv' /\ RestInv'
  BY <1>2, <1>3 DEF IInv, SinksTypeOK, SpaceInv, RestInv
<1>5. Arriving' = next /\ Arriving = next
  BY <1>2, <1>3 DEF Arriving, SinksTypeOK, Byte
<1>6. OrderInv'
  BY <1>2, <1>3, <1>5 DEF IInv, OrderInv, SinksTypeOK, Below, Rising, RunsFrom
<1> QED BY <1>4, <1>6 DEF IInv

\* A raw write takes bytes off the rest and appends them.
LEMMA RawWritesInv == IInv /\ RawWrites => IInv'
<1> SUFFICES ASSUME IInv, RawWrites PROVE IInv'
  OBVIOUS
<1>1. PICK n \in 1..Len(rest) :
         content' = content \o SubSeq(rest, 1, n) /\ rest' = SubSeq(rest, n + 1, Len(rest))
  BY DEF RawWrites, RestAfter
<1>2. /\ SinksTypeOK /\ op = "commit" /\ Len(rest) <= Clamped(asked)
      /\ UNCHANGED <<sink, capacity, buffer, offered, op, result, asked, next, retried>>
      /\ Len(rest) \in Nat /\ Len(content) \in Nat /\ n \in Nat
      /\ sink \in Scratch /\ Clamped(asked) \in Nat
  <2>1. /\ SinksTypeOK /\ op = "commit" /\ Len(rest) <= Clamped(asked)
        /\ UNCHANGED <<sink, capacity, buffer, offered, op, result, asked, next, retried>>
        /\ Len(rest) \in Nat /\ Len(content) \in Nat /\ sink \in Scratch
    BY DEF RawWrites, callerVars, IInv, SinksTypeOK, RestInv, SpaceInv
  <2>2. Clamped(asked) \in 0..offered /\ offered \in Nat
    BY <2>1, ClampedTyped DEF SinksTypeOK
  <2> QED BY <2>1, <2>2
<1>3. /\ SubSeq(rest, 1, n) \in Seq(Byte) /\ Len(SubSeq(rest, 1, n)) = n
      /\ \A i \in 1..n : SubSeq(rest, 1, n)[i] = rest[i]
  BY <1>2, Cut DEF SinksTypeOK
<1>4. /\ rest' \in Seq(Byte) /\ Len(rest') = Len(rest) - n
      /\ \A i \in 1..(Len(rest) - n) : rest'[i] = rest[n + i]
  BY <1>1, <1>2, Cut DEF SinksTypeOK
<1>5. content' \in Seq(Byte) /\ Len(content') = Len(content) + n
  BY <1>1, <1>2, <1>3, Appended DEF SinksTypeOK
<1>6. SinksTypeOK' /\ SpaceInv'
  BY <1>2, <1>4, <1>5 DEF IInv, SinksTypeOK, SpaceInv
<1>7. Clamped(asked)' = Clamped(asked)
  BY <1>2 DEF Clamped
<1>8. RestInv'
  BY <1>2, <1>4, <1>7 DEF RestInv
<1>9. ASSUME ~retried PROVE OrderInv'
  <2>1. Below(content, Arriving) /\ Rising(content) /\ RunsFrom(rest, Arriving)
    BY <1>9 DEF IInv, OrderInv
  <2>2. Arriving \in Nat /\ Arriving' = Arriving + n
    BY <1>2, <1>4, <1>7 DEF Arriving, SinksTypeOK, Byte
  <2> HIDE DEF Arriving
  <2>3. PICK t \in Seq(Byte) :
           /\ t = SubSeq(rest, 1, n) /\ Len(t) = n /\ \A i \in 1..n : t[i] = rest[i]
    BY <1>3
  <2>4. RunsFrom(t, Arriving)
    BY <1>2, <2>1, <2>3 DEF RunsFrom
  <2>5. content \in Seq(Byte) /\ content' = content \o t
    BY <1>1, <1>2, <2>3 DEF SinksTypeOK
  <2>6. Below(content', Arriving') /\ Rising(content')
    BY <2>1, <2>2, <2>3, <2>4, <2>5, OrderGoesOn
  <2>7. RunsFrom(rest', Arriving')
    BY <1>2, <1>4, <2>1, <2>2 DEF RunsFrom
  <2>8. \A i \in 1..offered' : result'.tag # "Err" => buffer'[i] = next' + i - 1
    BY <1>2, <1>9 DEF IInv, OrderInv
  <2>9. op' = "commit" => result'.tag # "Err"
    BY <1>2, <1>9 DEF IInv, OrderInv
  <2> QED BY <2>6, <2>7, <2>8, <2>9 DEF OrderInv
<1>10. OrderInv'
  BY <1>2, <1>9 DEF OrderInv
<1> QED BY <1>6, <1>8, <1>10 DEF IInv

\* A failed commit gives the rest up; the destination keeps what arrived.
LEMMA CommitFailsInv ==
  ASSUME IInv, op = "commit", NEW kind, CommitFails(kind)
  PROVE  IInv'
<1>1. /\ SinksTypeOK /\ Len(rest) <= Clamped(asked) /\ Len(rest) \in Nat
      /\ Clamped(asked) \in Nat /\ sink \in Scratch
  BY ClampedTyped DEF IInv, SinksTypeOK, RestInv, SpaceInv
<1>2. /\ op' = "idle" /\ rest' = <<>> /\ result'.tag = "Err"
      /\ \/ next' = next + Clamped(asked) /\ retried' = retried
         \/ retried' = TRUE /\ next' = next
      /\ UNCHANGED <<sink, content, capacity, buffer, offered, asked>>
  BY DEF CommitFails, Returned
<1>3. SinksTypeOK'
  <2>1. rest' \in Seq(Byte) /\ next' \in Byte
    BY <1>1, <1>2 DEF SinksTypeOK, Byte
  <2> QED BY <1>1, <1>2, <2>1 DEF SinksTypeOK
<1>4. SpaceInv' /\ RestInv'
  BY <1>1, <1>2 DEF IInv, SpaceInv, RestInv
<1>5. ASSUME ~retried' PROVE OrderInv'
  <2>1. ~retried /\ next' = next + Clamped(asked)
    BY <1>2, <1>5
  <2>2. Arriving' = next' /\ Arriving \in Nat /\ Arriving <= Arriving' /\ Arriving' \in Nat
    BY <1>1, <1>2, <2>1 DEF Arriving, SinksTypeOK, Byte
  <2>3. \A i \in 1..Len(content) : content[i] \in Nat /\ content[i] < Arriving
    BY <1>1, <2>1 DEF IInv, OrderInv, Below, SinksTypeOK, Byte
  <2>4. Below(content', Arriving')
    BY <1>2, <2>2, <2>3 DEF Below
  <2>5. Rising(content') /\ RunsFrom(rest', Arriving')
    BY <1>2, <2>1 DEF IInv, OrderInv, Rising, RunsFrom
  <2> QED BY <1>2, <2>4, <2>5 DEF OrderInv
<1>6. OrderInv'
  BY <1>5 DEF OrderInv
<1> QED BY <1>3, <1>4, <1>6 DEF IInv

\* A commit that returns Ok has written all of its bytes.
LEMMA AllWrittenInv == IInv /\ AllWritten => IInv'
<1> SUFFICES ASSUME IInv, AllWritten PROVE IInv'
  OBVIOUS
<1>1. /\ SinksTypeOK /\ op = "commit" /\ rest = <<>> /\ Clamped(asked) \in Nat /\ sink \in Scratch
  BY ClampedTyped DEF AllWritten, IInv, SinksTypeOK, SpaceInv
<1>2. /\ op' = "idle" /\ result'.tag = "Ok" /\ offered' = 0 /\ next' = next + Clamped(asked)
      /\ UNCHANGED <<sink, content, capacity, buffer, rest, asked, retried>>
  BY DEF AllWritten, Committed, OfferedAfterCommit, Returned
<1>3. SinksTypeOK'
  <2>1. next' \in Byte
    BY <1>1, <1>2 DEF SinksTypeOK, Byte
  <2> QED BY <1>1, <1>2, <2>1 DEF SinksTypeOK
<1>4. SpaceInv' /\ RestInv'
  BY <1>1, <1>2 DEF IInv, SpaceInv, RestInv
<1>5. Arriving' = Arriving
  BY <1>1, <1>2 DEF Arriving, SinksTypeOK, Byte
<1>6. OrderInv'
  BY <1>1, <1>2, <1>5 DEF IInv, OrderInv
<1> QED BY <1>3, <1>4, <1>6 DEF IInv

\* IInv is inductive.
LEMMA StepInv == IInv /\ [Next \/ Stopped]_vars => IInv'
<1> SUFFICES ASSUME IInv, [Next \/ Stopped]_vars PROVE IInv'
  OBVIOUS
<1>1. CASE UNCHANGED vars
  <2>1. UNCHANGED <<sink, content, capacity, buffer, offered, op, rest, result, asked, next, retried>>
    BY <1>1 DEF vars, callerVars
  <2>2. Arriving' = Arriving
    BY <2>1 DEF Arriving, Clamped
  <2>3. SinksTypeOK' /\ SpaceInv' /\ RestInv'
    BY <2>1 DEF IInv, SinksTypeOK, SpaceInv, RestInv, Clamped
  <2> QED BY <2>1, <2>2, <2>3 DEF IInv, OrderInv
<1>2. CASE RawWritesNothing \/ RawFails
  BY <1>2, CommitFailsInv DEF RawWritesNothing, RawFails
<1>3. Stopped \/ RawInterrupted => UNCHANGED vars
  BY DEF Stopped, RawInterrupted
<1> QED BY <1>1, <1>2, <1>3, SpareInv, CommitToMemoryInv, CommitToWriterInv, RawWritesInv,
           AllWrittenInv DEF Next, Work

\* Spec implies it.
LEMMA SpecInv == Spec => []IInv
<1> QED BY InitInv, StepInv, PTL DEF Spec

-----------------------------------------------------------------------------
(* Results.                                                                *)

\* Unless the caller repeats a failed commit, the destination gets every byte
\* at most once and in order, however the raw writer cuts and fails.
THEOREM SinksStoreNothingTwice == Spec => []NothingTwice
<1>1. IInv => NothingTwice
  BY DEF IInv, OrderInv, Rising, NothingTwice
<1> QED BY <1>1, SpecInv, PTL

\* No commit, of whatever amount, takes the position or the length past the
\* memory, and no sink stores a byte that nobody wrote.  A SliceSink is asked to
\* commit once after each spare.
THEOREM SinksStayInCapacity == Spec => []NeverBeyondCapacity
<1>1. IInv => NeverBeyondCapacity
  BY DEF IInv, SinksTypeOK, SpaceInv, NeverBeyondCapacity, Byte
<1> QED BY <1>1, SpecInv, PTL

-----------------------------------------------------------------------------
(* Every step is one that SinkContract allows.  That a commit returns, the *)
(* contract's last conjunct, rests on fairness and stays with the runs.    *)

\* The space as the contract sees it.
Space == SubSeq(buffer, 1, offered)

\* It is there, and a commit takes the first bytes of it.
LEMMA SpaceTyped ==
  ASSUME SinksTypeOK, SpaceInv
  PROVE  /\ Space \in Seq(Byte) /\ Len(Space) = offered
         /\ \A n \in 0..offered : FirstBytes(n) = SubSeq(Space, 1, n)
<1>1. offered \in Nat /\ buffer \in Seq(Byte) /\ offered \in 0..Len(buffer)
  BY DEF SinksTypeOK, SpaceInv
<1>2. PICK t \in Seq(Byte) :
         t = Space /\ Len(t) = offered /\ \A i \in 1..offered : t[i] = buffer[i]
  BY <1>1, Cut DEF Space
<1>3. ASSUME NEW n \in 0..offered PROVE FirstBytes(n) = SubSeq(t, 1, n)
  <2>1. /\ SubSeq(t, 1, n) \in Seq(Byte) /\ Len(SubSeq(t, 1, n)) = n
        /\ \A i \in 1..n : SubSeq(t, 1, n)[i] = t[i]
    BY <1>1, <1>2, Cut
  <2>2. /\ FirstBytes(n) \in Seq(Byte) /\ Len(FirstBytes(n)) = n
        /\ \A i \in 1..n : FirstBytes(n)[i] = buffer[i]
    BY FirstBytesTyped
  <2>3. \A i \in 1..n : FirstBytes(n)[i] = SubSeq(t, 1, n)[i]
    BY <1>1, <1>2, <2>1, <2>2
  <2> QED BY <2>1, <2>2, <2>3, SeqEqual
<1> QED BY <1>2, <1>3

\* What is left of a sequence after its first n entries is a suffix of it,
\* and together with them the whole.
LEMMA CutIsSuffix ==
  ASSUME NEW s \in Seq(Byte), NEW n \in 0..Len(s)
  PROVE  /\ Promise!IsSuffix(SubSeq(s, n + 1, Len(s)), s)
         /\ SubSeq(s, 1, n) \o SubSeq(s, n + 1, Len(s)) = s
<1>1. PICK t \in Seq(Byte) :
         /\ t = SubSeq(s, n + 1, Len(s)) /\ Len(t) = Len(s) - n
         /\ \A i \in 1..(Len(s) - n) : t[i] = s[n + i]
  BY Cut
<1>2. PICK h \in Seq(Byte) :
         h = SubSeq(s, 1, n) /\ Len(h) = n /\ \A i \in 1..n : h[i] = s[i]
  BY Cut
<1>3. Len(s) \in Nat /\ n \in Nat /\ n <= Len(s) /\ Len(t) \in Nat
  BY <1>1
<1>4. h \o t = s
  <2>1. /\ h \o t \in Seq(Byte) /\ Len(h \o t) = Len(s)
        /\ \A i \in 1..Len(s) : (h \o t)[i] = IF i <= n THEN h[i] ELSE t[i - n]
    <3>1. /\ h \o t \in Seq(Byte) /\ Len(h \o t) = Len(h) + Len(t)
          /\ \A i \in 1..Len(h \o t) : (h \o t)[i] = IF i <= Len(h) THEN h[i] ELSE t[i - Len(h)]
      BY Appended
    <3>2. Len(h) = n /\ Len(t) = Len(s) - n
      BY <1>1, <1>2
    <3>3. Len(h) + Len(t) = Len(s)
      BY <1>3, <3>2
    <3> QED BY <3>1, <3>2, <3>3
  <2>2. ASSUME NEW i \in 1..Len(s) PROVE (h \o t)[i] = s[i]
    <3>1. CASE i <= n
      BY <1>2, <1>3, <2>1, <3>1
    <3>2. CASE ~(i <= n)
      <4>1. i - n \in 1..(Len(s) - n) /\ n + (i - n) = i
        BY <1>3, <3>2
      <4> QED BY <1>1, <2>1, <3>2, <4>1
    <3> QED BY <3>1, <3>2
  <2> QED BY <2>1, <2>2, SeqEqual
<1>5. Promise!IsSuffix(t, s)
  <2>1. /\ Promise!Reverse(t) \in Seq(Byte) /\ Len(Promise!Reverse(t)) = Len(t)
        /\ \A i \in 1..Len(t) : Promise!Reverse(t)[i] = t[Len(t) - i + 1]
    <3>1. Promise!Reverse(t) = [i \in 1..Len(t) |-> t[(Len(t) - i) + 1]]
      BY DEF Promise!Reverse
    <3>2. \A i \in 1..Len(t) : (Len(t) - i) + 1 \in 1..Len(t)
      BY <1>3
    <3>3. Promise!Reverse(t) \in [1..Len(t) -> Byte]
      BY <3>1, <3>2
    <3> QED BY <1>3, <3>1, <3>3, TableIsSeq
  <2>2. /\ Promise!Reverse(s) \in Seq(Byte) /\ Len(Promise!Reverse(s)) = Len(s)
        /\ \A i \in 1..Len(s) : Promise!Reverse(s)[i] = s[Len(s) - i + 1]
    <3>1. Promise!Reverse(s) = [i \in 1..Len(s) |-> s[(Len(s) - i) + 1]]
      BY DEF Promise!Reverse
    <3>2. \A i \in 1..Len(s) : (Len(s) - i) + 1 \in 1..Len(s)
      BY <1>3
    <3>3. Promise!Reverse(s) \in [1..Len(s) -> Byte]
      BY <3>1, <3>2
    <3> QED BY <1>3, <3>1, <3>3, TableIsSeq
  <2>3. PICK a \in Seq(Byte) :
           /\ a = Promise!Reverse(t) /\ Len(a) = Len(t)
           /\ \A i \in 1..Len(t) : a[i] = t[Len(t) - i + 1]
    BY <2>1
  <2>4. PICK b \in Seq(Byte) :
           /\ b = Promise!Reverse(s) /\ Len(b) = Len(s)
           /\ \A i \in 1..Len(s) : b[i] = s[Len(s) - i + 1]
    BY <2>2
  <2>5. ASSUME NEW i \in 1..Len(t) PROVE a[i] = b[i]
    <3>1. /\ Len(t) - i + 1 \in 1..(Len(s) - n) /\ n + (Len(t) - i + 1) = Len(s) - i + 1
          /\ i \in 1..Len(s)
      BY <1>1, <1>3
    <3> QED BY <1>1, <2>3, <2>4, <3>1
  <2>6. SubSeq(a, 1, Len(t)) = SubSeq(b, 1, Len(t))
    <3>1. Len(t) \in 0..Len(a) /\ Len(t) \in 0..Len(b)
      BY <1>1, <1>3, <2>3, <2>4
    <3>2. /\ SubSeq(a, 1, Len(t)) \in Seq(Byte) /\ Len(SubSeq(a, 1, Len(t))) = Len(t)
          /\ \A i \in 1..Len(t) : SubSeq(a, 1, Len(t))[i] = a[i]
      BY <3>1, Cut
    <3>3. /\ SubSeq(b, 1, Len(t)) \in Seq(Byte) /\ Len(SubSeq(b, 1, Len(t))) = Len(t)
          /\ \A i \in 1..Len(t) : SubSeq(b, 1, Len(t))[i] = b[i]
      BY <3>1, Cut
    <3>4. \A i \in 1..Len(t) : SubSeq(a, 1, Len(t))[i] = SubSeq(b, 1, Len(t))[i]
      BY <2>5, <3>2, <3>3
    <3> QED BY <3>2, <3>3, <3>4, SeqEqual
  <2>7. Promise!IsPrefix(a, b)
    <3>1. Len(a) = Len(t)
      BY <2>3
    <3>2. Len(a) <= Len(b)
      BY <1>1, <1>3, <2>4, <3>1
    <3>3. SubSeq(a, 1, Len(a)) = SubSeq(b, 1, Len(a))
      BY <2>6, <3>1
    <3> QED BY <3>2, <3>3 DEF Promise!IsPrefix
  <2> QED BY <2>3, <2>4, <2>7 DEF Promise!IsSuffix
<1> QED BY <1>1, <1>2, <1>4, <1>5

\* The mapping, written out.
LEMMA SpareLends == IInv /\ Spare => Promise!Lend
<1> SUFFICES ASSUME IInv, Spare PROVE Promise!Lend
  OBVIOUS
<1>1. /\ op = "idle" /\ UNCHANGED <<sink, content, op, rest>>
      /\ Len(content) \in Nat /\ SinksTypeOK /\ SpaceInv
  BY DEF Spare, Goes, IInv, SinksTypeOK
<1>2. UNCHANGED (sink = SliceSink /\ Unused = 0)
  BY <1>1 DEF Spare, SliceSpare, VecSpare, ScratchSpare, Unused, Scratch, SliceSink, VecSink,
              StdSink, EmbeddedSink
<1>3. \/ sink = SliceSink /\ Unused = 0 /\ result'.tag = "None"
      \/ ~(sink = SliceSink /\ Unused = 0) /\ \E n \in Nat \ {0} : Lends(n)
  <2>1. CASE SliceSpare
    <3>1. Unused \in Nat
      BY <1>1, <2>1 DEF SliceSpare, Unused, SinksTypeOK, SpaceInv, Scratch, SliceSink, StdSink, EmbeddedSink
    <3> QED BY <2>1, <3>1 DEF SliceSpare, Returned
  <2>2. CASE VecSpare
    <3>1. sink = VecSink /\ Len(content) <= capacity /\ capacity \in Nat
      BY <1>1, <2>2 DEF VecSpare, SinksTypeOK, SpaceInv, Scratch, VecSink, StdSink, EmbeddedSink
    <3>2. capacity' - Len(content) \in Nat \ {0}
      BY <1>1, <2>2, <3>1, SinksAssumption DEF VecSpare, Reserved, Unused
    <3> QED BY <2>2, <3>1, <3>2 DEF VecSpare, VecSink, SliceSink
  <2>3. CASE ScratchSpare
    BY <2>3, SinksAssumption DEF ScratchSpare, Scratch, SliceSink, StdSink, EmbeddedSink
  <2> QED BY <2>1, <2>2, <2>3 DEF Spare
<1>4. ASSUME NEW n \in Nat \ {0}, Lends(n) PROVE Space' # <<>> /\ result'.tag = "Some"
  <2>1. offered' = n /\ buffer' \in Seq(Byte) /\ Len(buffer') = n /\ result'.tag = "Some"
    BY <1>1, <1>4, LentSpace
  <2>2. Len(Space') = n
    BY <2>1, Cut DEF Space
  <2> QED BY <2>1, <2>2
<1> QED BY <1>1, <1>2, <1>3, <1>4 DEF Promise!Lend, Space

\* A commit to memory appends what was asked, at once.
LEMMA CommitAppends == IInv /\ CommitToMemory => Promise!Append1
<1> SUFFICES ASSUME IInv, CommitToMemory PROVE Promise!Append1
  OBVIOUS
<1>1. PICK amount \in 0..(offered + 1) :
         /\ Asks(amount)
         /\ content' = content \o FirstBytes(Clamped(amount))
         /\ Committed(Clamped(amount))
  BY DEF CommitToMemory
<1>2. /\ SinksTypeOK /\ SpaceInv /\ op = "idle" /\ UNCHANGED <<rest, op, buffer>>
      /\ asked' = amount /\ amount \in Nat /\ result'.tag = "Ok" /\ offered' = 0
      /\ buffer \in Seq(Byte) /\ offered \in Nat
  BY <1>1 DEF CommitToMemory, Asks, Goes, IInv, SinksTypeOK, Committed, OfferedAfterCommit,
              Returned
<1>3. /\ Len(Space) = offered /\ Clamped(amount) \in 0..offered
      /\ FirstBytes(Clamped(amount)) = SubSeq(Space, 1, Clamped(amount))
  BY <1>2, SpaceTyped, ClampedTyped
<1>4. FirstBytes(Clamped(amount)) = SubSeq(Space, 1, IF asked' < Len(Space) THEN asked' ELSE Len(Space))
  BY <1>2, <1>3 DEF Clamped
<1>5. Space' = <<>>
  BY <1>2, Cut DEF Space
<1> QED BY <1>1, <1>2, <1>4, <1>5 DEF Promise!Append1, Promise!Asked, Space

\* A commit to a writer begins with what was asked.
LEMMA CommitBegins == IInv /\ CommitToWriter => Promise!Begin
<1> SUFFICES ASSUME IInv, CommitToWriter PROVE Promise!Begin
  OBVIOUS
<1>1. PICK amount \in 0..(offered + 1) : Asks(amount) /\ rest' = FirstBytes(Clamped(amount))
  BY DEF CommitToWriter
<1>2. /\ SinksTypeOK /\ SpaceInv /\ op = "idle" /\ op' = "commit"
      /\ UNCHANGED <<sink, content, capacity, buffer, offered, result>>
      /\ asked' = amount /\ amount \in Nat /\ offered \in Nat
  BY <1>1 DEF CommitToWriter, Asks, Goes, IInv, SinksTypeOK
<1>3. /\ Len(Space) = offered /\ Clamped(amount) \in 0..offered
      /\ FirstBytes(Clamped(amount)) = SubSeq(Space, 1, Clamped(amount))
  BY <1>2, SpaceTyped, ClampedTyped
<1>4. rest' = SubSeq(Space, 1, IF asked' < Len(Space) THEN asked' ELSE Len(Space))
  BY <1>1, <1>2, <1>3 DEF Clamped
<1> QED BY <1>2, <1>4 DEF Promise!Begin, Promise!Asked, Space, Unused

\* A raw write stores some of the bytes, from the first on.
LEMMA RawWritesStore == IInv /\ RawWrites => Promise!Store
<1> SUFFICES ASSUME IInv, RawWrites PROVE Promise!Store
  OBVIOUS
<1>1. PICK n \in 1..Len(rest) :
         content' = content \o SubSeq(rest, 1, n) /\ rest' = SubSeq(rest, n + 1, Len(rest))
  BY DEF RawWrites, RestAfter
<1>2. /\ op = "commit" /\ UNCHANGED <<sink, capacity, buffer, offered, op, result, asked>>
      /\ rest \in Seq(Byte) /\ content \in Seq(Byte) /\ sink \in Scratch
      /\ n \in 0..Len(rest)
  BY DEF RawWrites, callerVars, IInv, SinksTypeOK, SpaceInv
<1>3. /\ SubSeq(rest, 1, n) \in Seq(Byte) /\ rest' \in Seq(Byte) /\ Len(rest') = Len(rest) - n
  BY <1>1, <1>2, Cut
<1>4. rest' # rest
  BY <1>1, <1>2, <1>3
<1>5. /\ Promise!IsSuffix(rest', rest)
      /\ SubSeq(rest, 1, n) \o rest' = rest
  BY <1>1, <1>2, CutIsSuffix
<1>6. content' \o rest' = content \o rest
  <2>1. (content \o SubSeq(rest, 1, n)) \o rest' = content \o (SubSeq(rest, 1, n) \o rest')
    BY <1>2, <1>3, ConcatAssociative
  <2> QED BY <1>1, <1>5, <2>1
<1>7. UNCHANGED (sink = SliceSink /\ Unused = 0)
  BY <1>2 DEF Scratch, SliceSink, StdSink, EmbeddedSink
<1> QED BY <1>2, <1>4, <1>5, <1>6, <1>7 DEF Promise!Store

\* write_all returns: Ok with nothing left, or an error that is no interruption.
LEMMA CommitReturns ==
  IInv /\ (RawWritesNothing \/ RawFails \/ AllWritten) => Promise!Return
<1> SUFFICES ASSUME IInv, RawWritesNothing \/ RawFails \/ AllWritten PROVE Promise!Return
  OBVIOUS
<1>1. UNCHANGED (sink = SliceSink /\ Unused = 0)
  BY DEF RawWritesNothing, RawFails, AllWritten, CommitFails, Unused
<1>2. CASE RawWritesNothing \/ RawFails
  <2>1. PICK kind : CommitFails(kind) /\ kind # "Interrupted" /\ op = "commit" /\ rest # <<>>
    BY <1>2 DEF RawWritesNothing, RawFails, IsInterrupted
  <2> QED BY <1>1, <2>1 DEF CommitFails, Returned, Promise!Return
<1>3. CASE AllWritten
  <2>1. offered' = 0 /\ buffer' = buffer /\ buffer \in Seq(Byte) /\ rest' = <<>>
    BY <1>3 DEF AllWritten, Committed, OfferedAfterCommit, IInv, SinksTypeOK
  <2>2. Space' = <<>>
    BY <2>1, Cut DEF Space
  <2> QED BY <1>1, <1>3, <2>1, <2>2 DEF AllWritten, Committed, Returned, Promise!Return, Space
<1> QED BY <1>2, <1>3

\* A sink starts as the contract says, and every step of every sink, whatever
\* the raw writer does, is a step of the contract or a stutter.
THEOREM SinksMoveAsPromised == Spec => Promise!Init /\ [][Promise!Next]_(Promise!vars)
<1>1. Init => Promise!Init
  <2> SUFFICES ASSUME Init PROVE Promise!Init
    OBVIOUS
  <2>1. Space = <<>>
    BY Cut DEF Init, Space
  <2> QED BY <2>1 DEF Init, Promise!Init, Space
<1>2. IInv /\ [Next \/ Stopped]_vars => [Promise!Next]_(Promise!vars)
  <2>1. (Stopped \/ RawInterrupted \/ UNCHANGED vars) => UNCHANGED Promise!vars
    BY DEF Stopped, RawInterrupted, vars, callerVars, Promise!vars, Unused
  <2> QED BY <2>1, SpareLends, CommitAppends, CommitBegins, RawWritesStore, CommitReturns
             DEF Next, Work, Promise!Next
<1> QED BY <1>1, <1>2, SpecInv, PTL DEF Spec

=============================================================================
