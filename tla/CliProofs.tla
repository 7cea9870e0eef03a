------------------------------ MODULE CliProofs ------------------------------
(***************************************************************************)
(* Exit status 0 of the command line tool is honest for every command      *)
(* line, every buffer of io::copy and all that a codec can make, as far as *)
(* reader and writer keep the promises ByteReader and ByteWriter.          *)
(***************************************************************************)
EXTENDS Cli, Integers, TLAPS

-----------------------------------------------------------------------------
(* The inductive invariant.                                                *)

Places == {"main", "copy", "read", "write", "writer", "finish", "stream", "flush", "fail", "exit"}

CopyPlaces == {"copy", "read", "write", "writer", "finish"}

CliTypeOK ==
  /\ at \in Places /\ chunk \in Nat
  /\ rState \in {"open", "over", "broken"} /\ reading \in BOOLEAN
  /\ rMade \in Nat /\ given \in Nat
  /\ wBuf \in Nat /\ used \in Nat /\ accepted \in Nat /\ wMade \in Nat /\ stored \in Nat
  /\ faulty \in BOOLEAN

\* Between two reads nothing is left in the reader.
ReaderInv ==
  /\ reading <=> at = "read"
  /\ given <= rMade /\ (~reading => given = rMade)

\* io::copy holds what the reader gave and the writer has still to accept.
CopyInv ==
  /\ at = "main" => pipeline = <<>>
  /\ at \in CopyPlaces => Len(pipeline) = 2
  /\ at \in CopyPlaces \cup {"main"} => ~faulty
  /\ at \in {"main", "copy", "read", "finish"} => accepted = given
  /\ at = "write" => accepted + chunk = given
  /\ at = "finish" => rState = "over"
  /\ at = "writer" =>
       \/ method = "write" /\ wBuf = chunk /\ used <= wBuf /\ accepted + chunk = given
       \/ method = "finish" /\ accepted = given /\ rState = "over"
  /\ at = "stream" => Len(pipeline) = 1

Complete ==
  /\ wState = "over" /\ stored = wMade
  /\ Len(pipeline) = 2 => rState = "over" /\ given = rMade /\ accepted = given

ExitInv ==
  /\ at = "flush" => Complete
  /\ at = "exit" /\ status = 0 /\ pipeline # <<>> => flushed /\ Complete

CInv == CliTypeOK /\ ReaderInv /\ CopyInv /\ ExitInv

-----------------------------------------------------------------------------
(* The first state, and the steps outside of io::copy.                     *)

\* The first state.
LEMMA CliInitInv == Init => CInv
<1> SUFFICES ASSUME Init PROVE CInv
  OBVIOUS
<1>1. /\ at = "main" /\ pipeline = <<>> /\ chunk = 0 /\ status = 0
      /\ rState = "open" /\ reading = FALSE /\ rMade = 0 /\ given = 0
      /\ wBuf = 0 /\ used = 0 /\ accepted = 0 /\ wMade = 0 /\ stored = 0 /\ faulty = FALSE
  BY DEF Init, R!Init, W!Init
<1>2. CliTypeOK
  BY <1>1 DEF CliTypeOK, Places
<1>3. ReaderInv
  BY <1>1 DEF ReaderInv
<1>4. CopyInv
  BY <1>1 DEF CopyInv, CopyPlaces
<1>5. ExitInv
  BY <1>1 DEF ExitInv
<1> QED BY <1>2, <1>3, <1>4, <1>5 DEF CInv

\* Help and a line with an error exit at once, with nothing composed.
LEMMA RefusedLineInv == CInv /\ (PrintsUsage \/ RefusesLine) => CInv'
<1> SUFFICES ASSUME CInv, PrintsUsage \/ RefusesLine PROVE CInv'
  OBVIOUS
<1>1. /\ at = "main" /\ at' = "exit" /\ UNCHANGED <<pipeline, chunk, readerVars, writerVars>>
  BY DEF PrintsUsage, RefusesLine, Exits
<1>2. pipeline' = <<>>
  BY <1>1 DEF CInv, CopyInv
<1>3. CliTypeOK' /\ ReaderInv'
  BY <1>1 DEF CInv, CliTypeOK, ReaderInv, Places, readerVars, writerVars
<1>4. CopyInv' /\ ExitInv'
  BY <1>1, <1>2 DEF CopyInv, CopyPlaces, ExitInv
<1> QED BY <1>3, <1>4 DEF CInv

\* The engine starts, with a reader and a writer or with one codec.
LEMMA StartsInv == CInv /\ Starts => CInv'
<1> SUFFICES ASSUME CInv, Starts PROVE CInv'
  OBVIOUS
<1>1. /\ at = "main" /\ UNCHANGED <<chunk, readerVars, writerVars>>
      /\ \/ at' = "copy" /\ \E a, b : pipeline' = <<a, b>>
         \/ at' = "stream" /\ \E a : pipeline' = <<a>>
  BY DEF Starts, Goes
<1>2. \/ at' = "copy" /\ Len(pipeline') = 2
      \/ at' = "stream" /\ Len(pipeline') = 1
  BY <1>1
<1>3. CliTypeOK' /\ ReaderInv'
  BY <1>1 DEF CInv, CliTypeOK, ReaderInv, Places, readerVars, writerVars
<1>4. accepted' = given' /\ ~faulty'
  BY <1>1 DEF CInv, CopyInv, readerVars, writerVars
<1>5. CopyInv' /\ ExitInv'
  BY <1>2, <1>4 DEF CopyInv, CopyPlaces, ExitInv
<1> QED BY <1>3, <1>5 DEF CInv

\* stream_to_stream returns: an Ok of it is complete.
LEMMA StreamInv == CInv /\ StreamToStream => CInv'
<1> SUFFICES ASSUME CInv, StreamToStream PROVE CInv'
  OBVIOUS
<1>1. /\ at = "stream" /\ UNCHANGED <<pipeline, chunk, readerVars>>
      /\ UNCHANGED <<method, wBuf, used, wResult, accepted, faulty, closed>>
      /\ \/ stored' = wMade' /\ wState' = "over" /\ at' = "flush"
         \/ at' = "fail"
  BY DEF StreamToStream, Goes
<1>2. wMade' \in Nat /\ stored' \in Nat
  BY CliAssumption DEF StreamToStream
<1>3. Len(pipeline') = 1
  BY <1>1 DEF CInv, CopyInv
<1>4. CliTypeOK' /\ ReaderInv'
  BY <1>1, <1>2 DEF CInv, CliTypeOK, ReaderInv, Places, readerVars
<1>5. CopyInv'
  BY <1>1, <1>3 DEF CopyInv, CopyPlaces
<1>6. ExitInv'
  BY <1>1, <1>3 DEF ExitInv, Complete
<1> QED BY <1>4, <1>5, <1>6 DEF CInv

\* The end of the program.
LEMMA EndInv == CInv /\ (Flushes \/ Fails) => CInv'
<1> SUFFICES ASSUME CInv, Flushes \/ Fails PROVE CInv'
  OBVIOUS
<1>1. /\ at \in {"flush", "fail"} /\ at' = "exit"
      /\ UNCHANGED <<pipeline, chunk, readerVars, writerVars>>
      /\ status' = 1 \/ (at = "flush" /\ flushed' = TRUE)
  BY DEF Flushes, Fails, Exits
<1>2. CliTypeOK' /\ ReaderInv'
  BY <1>1 DEF CInv, CliTypeOK, ReaderInv, Places, readerVars, writerVars
<1>3. CopyInv'
  BY <1>1 DEF CopyInv, CopyPlaces
<1>4. at = "flush" => Complete'
  BY <1>1 DEF CInv, ExitInv, Complete, readerVars, writerVars
<1>5. ExitInv'
  BY <1>1, <1>4 DEF ExitInv
<1> QED BY <1>2, <1>3, <1>5 DEF CInv

-----------------------------------------------------------------------------
(* io::copy.                                                               *)

\* A read starts.
LEMMA CopyReadsInv == CInv /\ CopyReads => CInv'
<1> SUFFICES ASSUME CInv, CopyReads PROVE CInv'
  OBVIOUS
<1>1. /\ at = "copy" /\ at' = "read" /\ ~reading /\ reading' = TRUE
      /\ UNCHANGED <<pipeline, chunk, writerVars, rState, rMade, given>>
  BY DEF CopyReads, Goes, R!Start
<1>2. CliTypeOK' /\ ReaderInv'
  BY <1>1 DEF CInv, CliTypeOK, ReaderInv, Places, writerVars
<1>3. CopyInv' /\ ExitInv'
  BY <1>1 DEF CInv, CopyInv, CopyPlaces, ExitInv, writerVars
<1> QED BY <1>2, <1>3 DEF CInv

\* What a read hands to io::copy: all of what was made, or the end, or an
\* error.
LEMMA ReadCases ==
  ASSUME CInv, ReadReturns
  PROVE  /\ rResult'.n \in Nat /\ reading' = FALSE /\ UNCHANGED <<rState, rMade>>
         /\ given' = rMade
         /\ \/ AfterRead(rResult') = "fail"
            \/ AfterRead(rResult') = "write" /\ given + rResult'.n = given'
            \/ AfterRead(rResult') = "finish" /\ rState = "over" /\ given' = given
<1>1. rResult'.n \in Nat
  BY CliAssumption DEF ReadReturns, ReadResults, Failure
<1>2. /\ given \in Nat /\ rMade \in Nat /\ given <= rMade /\ (~reading => given = rMade)
      /\ rState \in {"open", "over", "broken"}
  BY DEF CInv, CliTypeOK, ReaderInv
<1>3. CASE R!Return
  <2>1. /\ reading' = FALSE /\ UNCHANGED <<rState, rMade>> /\ given' = rMade
        /\ rResult'.io # "Interrupted"
        /\ IF rMade > given THEN rResult'.tag = "Ok" /\ rResult'.n = rMade - given
           ELSE CASE rState = "over"   -> rResult'.tag = "Ok" /\ rResult'.n = 0
                  [] rState = "broken" -> R!CodecErr
                  [] rState = "open"   -> rResult'.tag \in {"Source", "NoProgress"}
    BY <1>3 DEF R!Return, R!OkOf
  <2>2. CASE rMade > given
    BY <1>1, <1>2, <2>1, <2>2 DEF AfterRead
  <2>3. CASE ~(rMade > given)
    <3>1. given' = given
      BY <1>2, <2>1, <2>3
    <3>2. CASE rState = "over"
      BY <1>1, <2>1, <2>3, <3>1, <3>2 DEF AfterRead
    <3>3. CASE rState = "broken"
      BY <1>1, <2>1, <2>3, <3>3 DEF AfterRead, R!CodecErr
    <3>4. CASE rState = "open"
      BY <1>1, <2>1, <2>3, <3>4 DEF AfterRead
    <3> QED BY <1>2, <3>2, <3>3, <3>4
  <2> QED BY <2>2, <2>3
<1>4. CASE rState # "open" /\ R!Refuse
  <2>1. /\ reading' = FALSE /\ UNCHANGED <<rState, rMade, given>> /\ given = rMade
        /\ rResult'.io # "Interrupted"
    BY <1>2, <1>4 DEF R!Refuse, CInv, CliTypeOK
  <2>2. CASE rState = "broken"
    BY <1>1, <1>4, <2>1, <2>2 DEF R!Refuse, R!CodecErr, AfterRead
  <2>3. CASE rState = "over"
    BY <1>1, <1>4, <2>1, <2>3 DEF R!Refuse, R!OkOf, AfterRead
  <2> QED BY <1>2, <1>4, <2>2, <2>3
<1> QED BY <1>3, <1>4 DEF ReadReturns

\* A read returns.
LEMMA ReadReturnsInv == CInv /\ ReadReturns => CInv'
<1> SUFFICES ASSUME CInv, ReadReturns PROVE CInv'
  OBVIOUS
<1>1. /\ at \in {"read", "copy"} /\ at' = AfterRead(rResult') /\ chunk' = rResult'.n
      /\ UNCHANGED <<pipeline, writerVars>>
  BY DEF ReadReturns, Goes
<1>2. /\ rResult'.n \in Nat /\ reading' = FALSE /\ UNCHANGED <<rState, rMade>>
      /\ given' = rMade
      /\ \/ AfterRead(rResult') = "fail"
         \/ AfterRead(rResult') = "write" /\ given + rResult'.n = given'
         \/ AfterRead(rResult') = "finish" /\ rState = "over" /\ given' = given
  BY ReadCases
<1>3. /\ accepted = given /\ Len(pipeline) = 2 /\ ~faulty
      /\ UNCHANGED <<wBuf, used, accepted, wMade, stored, faulty>>
  BY <1>1 DEF CInv, CopyInv, CopyPlaces, writerVars
<1>4. CliTypeOK' /\ ReaderInv'
  <2>1. at' \in {"fail", "write", "finish"}
    BY <1>1, <1>2
  <2>2. at' \in Places /\ at' # "read"
    BY <2>1 DEF Places
  <2>3. given' \in Nat /\ given' = rMade' /\ given' <= rMade'
    BY <1>2 DEF CInv, CliTypeOK
  <2>4. reading' \in BOOLEAN /\ ~reading'
    BY <1>2
  <2>5. CliTypeOK'
    BY <1>1, <1>2, <1>3, <2>2, <2>3, <2>4 DEF CInv, CliTypeOK
  <2>6. ReaderInv'
    BY <2>2, <2>3, <2>4 DEF ReaderInv
  <2> QED BY <2>5, <2>6
<1>5. CopyInv'
  BY <1>1, <1>2, <1>3 DEF CopyInv, CopyPlaces
<1>6. ExitInv'
  BY <1>1, <1>2 DEF ExitInv
<1> QED BY <1>4, <1>5, <1>6 DEF CInv

\* write_all or finish calls the writer.
LEMMA WriterIsCalledInv == CInv /\ WriterIsCalled => CInv'
<1> SUFFICES ASSUME CInv, WriterIsCalled PROVE CInv'
  OBVIOUS
<1>1. /\ at' = "writer" /\ used' = 0
      /\ \/ at = "write" /\ method' = "write" /\ wBuf' = chunk
         \/ at = "finish" /\ method' = "finish" /\ wBuf' = 0
      /\ UNCHANGED <<pipeline, chunk, readerVars, accepted, wMade, stored, faulty>>
  BY DEF WriterIsCalled, Goes, W!Start
<1>2. CliTypeOK' /\ ReaderInv'
  BY <1>1 DEF CInv, CliTypeOK, ReaderInv, Places, readerVars
<1>3. CopyInv'
  BY <1>1 DEF CInv, CliTypeOK, CopyInv, CopyPlaces, readerVars
<1>4. ExitInv'
  BY <1>1 DEF ExitInv
<1> QED BY <1>2, <1>3, <1>4 DEF CInv

\* What the writer promises of an Ok.
LEMMA WriterSaysOk ==
  ASSUME CInv, at = "writer", W!Return
  PROVE  /\ UNCHANGED <<wState, wMade, stored>> /\ wBuf' = 0 /\ used' = 0
         /\ accepted' = accepted + wResult'.n /\ faulty' \in BOOLEAN
         /\ wResult'.tag = "Ok" => faulty' = faulty /\ stored = wMade
         /\ wResult'.tag = "Ok" /\ method = "write" => wResult'.n = used
         /\ wResult'.tag = "Ok" /\ method = "finish" => wResult'.n = 0 /\ wState = "over"
<1>1. /\ UNCHANGED <<wState, wMade, stored>> /\ wBuf' = 0 /\ used' = 0
      /\ accepted' = accepted + wResult'.n
      /\ W!WriteReturns \/ W!FlushReturns \/ W!FinishReturns
  BY DEF W!Return
<1>2. ~faulty /\ faulty \in BOOLEAN
  BY DEF CInv, CliTypeOK, CopyInv, CopyPlaces
<1>3. ASSUME NEW n, W!Ok(n)
      PROVE  wResult'.n = n /\ faulty' = faulty /\ stored = wMade
  BY <1>2, <1>3 DEF W!Ok, W!Arrived
<1>4. ASSUME NEW tags, W!Harmless(tags), "Ok" \notin tags
      PROVE  wResult'.tag # "Ok" /\ faulty' = faulty
  BY <1>4 DEF W!Harmless
<1>5. W!Fault => wResult'.tag # "Ok" /\ faulty' = TRUE
  BY DEF W!Fault
<1>6. CASE W!WriteReturns
  BY <1>1, <1>2, <1>3, <1>4, <1>5, <1>6 DEF W!WriteReturns
<1>7. CASE W!FlushReturns
  BY <1>1, <1>2, <1>3, <1>4, <1>5, <1>7 DEF W!FlushReturns
<1>8. CASE W!FinishReturns
  BY <1>1, <1>2, <1>3, <1>4, <1>5, <1>8 DEF W!FinishReturns
<1> QED BY <1>1, <1>6, <1>7, <1>8

\* A write returns, and write_all goes on with what is left of the chunk.
LEMMA WriteReturnsInv == CInv /\ WriteReturns => CInv'
<1> SUFFICES ASSUME CInv, WriteReturns PROVE CInv'
  OBVIOUS
<1>1. /\ at = "writer" /\ method = "write" /\ W!Return /\ wResult'.n \in Nat
      /\ chunk' = chunk - wResult'.n /\ UNCHANGED <<pipeline, readerVars>>
      /\ wResult'.io # "Interrupted"
      /\ at' = IF wResult'.tag # "Ok" \/ wResult'.n = 0 THEN "fail"
               ELSE IF chunk' > 0 THEN "write" ELSE "copy"
      /\ wResult'.n = 0 \/ wResult'.tag = "Ok"
  BY CliAssumption DEF WriteReturns, Goes, WriterResults, Failure, W!Return
<1>2. /\ UNCHANGED <<wState, wMade, stored>> /\ wBuf' = 0 /\ used' = 0
      /\ accepted' = accepted + wResult'.n /\ faulty' \in BOOLEAN
      /\ wResult'.tag = "Ok" => faulty' = faulty /\ wResult'.n = used
  BY <1>1, WriterSaysOk
<1>3. /\ used <= chunk /\ accepted + chunk = given /\ Len(pipeline) = 2 /\ ~faulty
      /\ used \in Nat /\ chunk \in Nat /\ accepted \in Nat /\ given \in Nat
  BY <1>1 DEF CInv, CliTypeOK, CopyInv, CopyPlaces
<1>4. chunk' \in Nat /\ accepted' \in Nat /\ accepted' + chunk' = given
  BY <1>1, <1>2, <1>3
<1>5. CliTypeOK' /\ ReaderInv'
  BY <1>1, <1>2, <1>4 DEF CInv, CliTypeOK, ReaderInv, Places, readerVars
<1>6. CopyInv'
  BY <1>1, <1>2, <1>3, <1>4 DEF CopyInv, CopyPlaces, readerVars
<1>7. ExitInv'
  BY <1>1 DEF ExitInv
<1> QED BY <1>5, <1>6, <1>7 DEF CInv

\* Finish returns: after an Ok everything is stored.
LEMMA FinishReturnsInv == CInv /\ FinishReturns => CInv'
<1> SUFFICES ASSUME CInv, FinishReturns PROVE CInv'
  OBVIOUS
<1>1. /\ at = "writer" /\ method = "finish" /\ W!Return /\ wResult'.n \in Nat
      /\ UNCHANGED <<pipeline, chunk, readerVars>>
      /\ at' = IF wResult'.tag = "Ok" THEN "flush" ELSE "fail"
  BY CliAssumption DEF FinishReturns, Goes, WriterResults, Failure
<1>2. /\ UNCHANGED <<wState, wMade, stored>> /\ wBuf' = 0 /\ used' = 0
      /\ accepted' = accepted + wResult'.n /\ faulty' \in BOOLEAN
      /\ wResult'.tag = "Ok" => wResult'.n = 0 /\ wState = "over" /\ stored = wMade
  BY <1>1, WriterSaysOk
<1>3. /\ accepted = given /\ rState = "over" /\ given = rMade
      /\ accepted \in Nat
  BY <1>1 DEF CInv, CliTypeOK, CopyInv, ReaderInv
<1>4. CliTypeOK' /\ ReaderInv'
  BY <1>1, <1>2, <1>3 DEF CInv, CliTypeOK, ReaderInv, Places, readerVars
<1>5. CopyInv'
  BY <1>1 DEF CopyInv, CopyPlaces
<1>6. ExitInv'
  BY <1>1, <1>2, <1>3 DEF ExitInv, Complete, readerVars
<1> QED BY <1>4, <1>5, <1>6 DEF CInv

\* The codecs work inside of a call.
LEMMA CodecWorksInv == CInv /\ CodecWorks => CInv'
<1> SUFFICES ASSUME CInv, CodecWorks PROVE CInv'
  OBVIOUS
<1>1. UNCHANGED <<at, status, pipeline, chunk, flushed>>
  BY DEF CodecWorks, cliVars
<1>2. CASE at = "read" /\ R!Work /\ UNCHANGED writerVars
  <2>1. /\ rMade' \in rMade..MaxMade /\ rState' \in {"open", "over", "broken"}
        /\ UNCHANGED <<reading, given>>
        /\ UNCHANGED <<wState, method, wBuf, used, accepted, wMade, stored, faulty>>
    BY <1>2 DEF R!Work, writerVars
  <2>2. rMade' \in Nat /\ rMade <= rMade'
    BY <2>1, CliAssumption DEF CInv, CliTypeOK
  <2>3. CliTypeOK' /\ ReaderInv'
    BY <1>1, <1>2, <2>1, <2>2 DEF CInv, CliTypeOK, ReaderInv, Places
  <2>4. CopyInv' /\ ExitInv'
    BY <1>1, <1>2, <2>1 DEF CInv, CopyInv, ExitInv
  <2> QED BY <2>3, <2>4 DEF CInv
<1>3. CASE at = "writer" /\ W!Work /\ UNCHANGED readerVars
  <2>1. /\ used' \in used..wBuf /\ wMade' \in wMade..MaxMade
        /\ stored' \in stored..(stored + (wMade' - wMade))
        /\ UNCHANGED <<method, wBuf, accepted, faulty>>
        /\ UNCHANGED <<rState, reading, rMade, given>>
    BY <1>3 DEF W!Work, readerVars
  <2>2. used' \in Nat /\ wMade' \in Nat /\ stored' \in Nat /\ used' <= wBuf
    BY <2>1, CliAssumption DEF CInv, CliTypeOK
  <2>3. CliTypeOK' /\ ReaderInv'
    BY <1>1, <2>1, <2>2 DEF CInv, CliTypeOK, ReaderInv
  <2>4. CopyInv'
    BY <1>1, <1>3, <2>1, <2>2 DEF CInv, CopyInv
  <2>5. ExitInv'
    BY <1>1, <1>3 DEF ExitInv
  <2> QED BY <2>3, <2>4, <2>5 DEF CInv
<1> QED BY <1>2, <1>3 DEF CodecWorks

\* CInv is inductive.
LEMMA CliStepInv == CInv /\ [Program \/ CodecWorks \/ Exited]_vars => CInv'
<1> SUFFICES ASSUME CInv, [Program \/ CodecWorks \/ Exited]_vars PROVE CInv'
  OBVIOUS
<1>1. CASE UNCHANGED vars
  BY <1>1 DEF vars, cliVars, readerVars, writerVars, CInv, CliTypeOK, ReaderInv, CopyInv, ExitInv,
              Complete
<1> QED BY <1>1, RefusedLineInv, StartsInv, CopyReadsInv, ReadReturnsInv, WriterIsCalledInv,
           WriteReturnsInv, FinishReturnsInv, StreamInv, EndInv, CodecWorksInv
        DEF Program, Exited

\* Spec implies it.
LEMMA CliSpecInv == Spec => []CInv
<1> QED BY CliInitInv, CliStepInv, PTL DEF Spec

-----------------------------------------------------------------------------
(* Result.                                                                 *)

\* Exit status 0 of a run says that stdout has everything, flushed.
THEOREM CliSuccessIsComplete == Spec => []SuccessMeansComplete
<1>1. CInv => SuccessMeansComplete
  BY DEF CInv, ExitInv, Complete, SuccessMeansComplete
<1> QED BY <1>1, CliSpecInv, PTL

=============================================================================
