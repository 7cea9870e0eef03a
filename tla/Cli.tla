-------------------------------- MODULE Cli --------------------------------
(***************************************************************************)
(* The command line tool (cli/src/main.rs), from the words of its command  *)
(* line to its exit status: it composes the named codecs and drives them   *)
(* from stdin to stdout, with io::copy between a reader and a writer or    *)
(* with stream_to_stream.                                                  *)
(*                                                                         *)
(* The reader and the writer are here by their promises, ByteReader and    *)
(* ByteWriter, which Reader and Writer implement; StreamToStream shows     *)
(* what an Ok of stream_to_stream says.  A composed codec is the list of   *)
(* the codecs that a byte passes.                                          *)
(***************************************************************************)
EXTENDS Naturals, Sequences, SequencesExt

CONSTANTS
  Lines,    \* the command lines typed
  BufLen,   \* length of the buffer of io::copy
  MaxMade   \* bound: bytes that a codec makes

ASSUME CliAssumption == BufLen \in Nat \ {0} /\ MaxMade \in Nat

VARIABLES
  args,      \* the words that were not parsed yet
  at,        \* the place in the code
  status,    \* the exit status
  pipeline,  \* the composed codecs, in the order a byte meets them
  chunk,     \* io::copy: bytes read and not written yet
  flushed    \* stdout was flushed

cliVars == <<args, at, status, pipeline, chunk, flushed>>

VARIABLES rState, reading, rBuf, rResult, rMade, given
readerVars == <<rState, reading, rBuf, rResult, rMade, given>>

VARIABLES wState, method, wBuf, used, wResult, accepted, wMade, stored, faulty, closed
writerVars == <<wState, method, wBuf, used, wResult, accepted, wMade, stored, faulty, closed>>

vars == <<cliVars, readerVars, writerVars>>

R == INSTANCE ByteReader WITH
  state <- rState, buf <- rBuf, result <- rResult, made <- rMade

W == INSTANCE ByteWriter WITH
  state <- wState, buf <- wBuf, result <- wResult, made <- wMade

Init ==
  /\ args \in Lines /\ at = "main" /\ status = 0
  /\ pipeline = <<>> /\ chunk = 0 /\ flushed = FALSE
  /\ rResult = [tag |-> "Ok", n |-> 0, io |-> "None"] /\ R!Init
  /\ wResult = [tag |-> "Ok", n |-> 0, io |-> "None"] /\ W!Init

Goes(place) == at' = place /\ UNCHANGED status

Exits(code) == at' = "exit" /\ status' = code

-----------------------------------------------------------------------------
(* parse_args.                                                             *)

Modes   == {"--readers", "--writers"}
Engines == {"copy", "stream"}
Help    == {"--help", "-h"}

Fresh ==
  [mode |-> "None", value |-> FALSE, bad |-> FALSE,
   engine |-> "copy", names |-> [m \in Modes |-> <<>>]]

\* `value` says that the word must be the value of --engine.
Parse(p, word) ==
  IF p.value THEN [p EXCEPT !.value = FALSE, !.engine = word, !.bad = @ \/ word \notin Engines]
  ELSE IF word = "--engine" THEN [p EXCEPT !.value = TRUE]
  ELSE IF word \in Modes    THEN [p EXCEPT !.mode = word]
  ELSE IF p.mode = "None"   THEN [p EXCEPT !.bad = TRUE]
  ELSE [p EXCEPT !.names[p.mode] = Append(@, word)]

Parsed == FoldLeft(Parse, Fresh, args)

IsBad(p) == p.bad \/ p.value

-----------------------------------------------------------------------------
(* compose.                                                                *)

CODECS == {"identity", "rot13", "base64-enc", "base64-dec", "json-enc"}

\* make_codec finds all of them.
Known(names) == ToSet(names) \subseteq CODECS

ChainSwapped(first, second) == second \o first

\* Chain::new: the second codec reads what the first one writes.
ChainOf(first, second) == first \o second

\* The last codec is the base of the fold; none is transparent.
Compose(names) ==
  IF names = <<>> THEN <<"identity">>
  ELSE FoldRight(LAMBDA name, composed : ChainOf(<<name>>, composed),
                 Front(names), <<Last(names)>>)

-----------------------------------------------------------------------------
(* main and run.                                                           *)

PrintsUsage ==
  /\ at = "main" /\ ToSet(args) \cap Help # {}
  /\ Exits(0)
  /\ UNCHANGED <<args, pipeline, chunk, flushed, readerVars, writerVars>>

\* Parsing and composing come before any byte of stdin.
RefusesLine ==
  /\ at = "main" /\ ToSet(args) \cap Help = {}
  /\ LET names == Parsed.names IN
       IsBad(Parsed) \/ ~Known(names["--readers"]) \/ ~Known(names["--writers"])
  /\ Exits(1)
  /\ UNCHANGED <<args, pipeline, chunk, flushed, readerVars, writerVars>>

Starts ==
  /\ at = "main" /\ ToSet(args) \cap Help = {}
  /\ LET p       == Parsed
         readers == p.names["--readers"]
         writers == p.names["--writers"]
     IN /\ ~IsBad(p) /\ Known(readers) /\ Known(writers)
        /\ IF p.engine = "copy"
           THEN pipeline' = <<Compose(readers), Compose(writers)>> /\ Goes("copy")
           ELSE pipeline' = <<Compose(readers \o writers)>> /\ Goes("stream")
  /\ args' = <<>>
  /\ UNCHANGED <<chunk, flushed, readerVars, writerVars>>

-----------------------------------------------------------------------------
(* run_io: io::copy from the reader, write_all to the writer, and finish.  *)

Failure(tags) == [tag : tags, n : {0}, io : {"Interrupted", "Other"}]

ReadResults ==
  [tag : {"Ok"}, n : 0..BufLen, io : {"None"}]
    \cup Failure({"Source", "Codec", "NoProgress"})

WriterResults ==
  [tag : {"Ok"}, n : 0..BufLen, io : {"None"}]
    \cup Failure({"Sink", "Codec", "NoProgress", "SinkExhausted"})

LeavesUnfinished(r) ==
  IF r.tag # "Ok" THEN "fail" ELSE IF r.n = 0 THEN "flush" ELSE "write"

AgainAfterError(r) ==
  IF r.tag # "Ok" THEN "copy" ELSE IF r.n = 0 THEN "finish" ELSE "write"

\* io::copy reads again after an interruption; the end of its loop, and any
\* other error, are where read says so.
AfterRead(r) ==
  IF r.io = "Interrupted" THEN "copy"
  ELSE IF r.tag # "Ok" THEN "fail" ELSE IF r.n = 0 THEN "finish" ELSE "write"

CopyReads ==
  /\ at = "copy" /\ R!Start(BufLen)
  /\ Goes("read")
  /\ UNCHANGED <<args, pipeline, chunk, flushed, writerVars>>

ReadReturns ==
  /\ rResult' \in ReadResults
  /\ \/ at = "read" /\ R!Return
     \/ at = "copy" /\ rState # "open" /\ R!Refuse
  /\ chunk' = rResult'.n
  /\ Goes(AfterRead(rResult'))
  /\ UNCHANGED <<args, pipeline, flushed, writerVars>>

WriterIsCalled ==
  /\ \/ at = "write" /\ W!Start("write", chunk)
     \/ at = "finish" /\ W!Start("finish", 0)
  /\ Goes("writer")
  /\ UNCHANGED <<args, pipeline, chunk, flushed, readerVars>>

\* write_all goes on with the rest of the chunk, after an interruption too;
\* Ok(0) is an error to it.  An error also drops reader and writer.
WriteReturns ==
  /\ at = "writer" /\ method = "write"
  /\ wResult' \in WriterResults /\ W!Return
  /\ chunk' = chunk - wResult'.n
  /\ Goes(IF wResult'.io = "Interrupted" THEN "write"
          ELSE IF wResult'.tag # "Ok" \/ wResult'.n = 0 THEN "fail"
          ELSE IF chunk' > 0 THEN "write" ELSE "copy")
  /\ UNCHANGED <<args, pipeline, flushed, readerVars>>

FinishReturns ==
  /\ at = "writer" /\ method = "finish"
  /\ wResult' \in WriterResults /\ W!Return
  /\ Goes(IF wResult'.tag = "Ok" THEN "flush" ELSE "fail")
  /\ UNCHANGED <<args, pipeline, chunk, flushed, readerVars>>

\* What happens inside of a read, or of a method of the writer.
CodecWorks ==
  /\ \/ at = "read" /\ R!Work /\ UNCHANGED writerVars
     \/ at = "writer" /\ W!Work /\ UNCHANGED readerVars
  /\ UNCHANGED cliVars

-----------------------------------------------------------------------------
(* run_io_stream: one codec for both lists.                                *)

\* Ok says that the codec has ended and that everything it made is stored.
StreamToStream ==
  /\ at = "stream"
  /\ \E m \in 0..MaxMade : wMade' = m /\ stored' \in 0..m
  /\ \/ stored' = wMade' /\ wState' = "over" /\ Goes("flush")
     \/ wState' \in {"open", "finishing", "broken"} /\ Goes("fail")
  /\ UNCHANGED <<args, pipeline, chunk, flushed, readerVars>>
  /\ UNCHANGED <<method, wBuf, used, wResult, accepted, faulty, closed>>

-----------------------------------------------------------------------------
(* Both engines flush stdout at the end.                                   *)

Flushes ==
  /\ at = "flush"
  /\ \/ flushed' = TRUE /\ Exits(0)
     \/ flushed' = FALSE /\ Exits(1)
  /\ UNCHANGED <<args, pipeline, chunk, readerVars, writerVars>>

Fails ==
  /\ at = "fail" /\ Exits(1)
  /\ UNCHANGED <<args, pipeline, chunk, flushed, readerVars, writerVars>>

Program ==
  \/ PrintsUsage \/ RefusesLine \/ Starts
  \/ CopyReads \/ ReadReturns \/ WriterIsCalled \/ WriteReturns \/ FinishReturns
  \/ StreamToStream \/ Flushes \/ Fails

Exited == at = "exit" /\ UNCHANGED vars

\* The program runs, and each read and each method of the writer returns.
Spec == Init /\ [][Program \/ CodecWorks \/ Exited]_vars /\ WF_vars(Program)

-----------------------------------------------------------------------------
(* Properties.                                                             *)

\* The names in the command line that follow a word `mode`, in their order.
Listed(mode) ==
  LET IsName(i) ==
        /\ args[i] \notin Modes \cup {"--engine"}
        /\ i > 1 => args[i - 1] # "--engine"
      Follows(i) ==
        \E j \in 1..i : args[j] = mode /\ \A k \in (j + 1)..i : args[k] \notin Modes
      places == SelectSeq([i \in DOMAIN args |-> i], LAMBDA i : IsName(i) /\ Follows(i))
  IN  [k \in DOMAIN places |-> args[places[k]]]

NotTransparent(names) == SelectSeq(names, LAMBDA name : name # "identity")

\* With either engine a byte passes the codecs in the order of the usage text:
\* those of --readers as listed, then those of --writers as listed, wherever
\* the options stand and however often they are repeated.
ComposedInOrder ==
  [][pipeline' # pipeline =>
       NotTransparent(FlattenSeq(pipeline'))
         = NotTransparent(Listed("--readers") \o Listed("--writers"))]_vars

\* Exit status 0 of a run says that stdout has it all, flushed: each codec has
\* ended, the writer took what the reader gave, and stored what it made of it.
SuccessMeansComplete ==
  at = "exit" /\ status = 0 /\ pipeline # <<>> =>
    /\ flushed /\ wState = "over" /\ stored = wMade
    /\ Len(pipeline) = 2 => rState = "over" /\ given = rMade /\ accepted = given

\* The tool exits: no error, no short write and no end of its input makes the
\* loop of io::copy go round for ever, as long as stdin ends.
Terminates == <>(at = "exit")

=============================================================================
