# TLA+ models and proofs for rust-codecs

rust-codecs drives byte codecs: a *driver* lends a codec some input and some
output space, the codec reports how far it got, and the driver moves the bytes
between a source and a sink. The library is sequential; what makes it hard is
the protocol. Every call can be partial, every part can fail at every step,
the same operation is resumed over many calls, and callers retry. The models
in this directory let the codecs, the endpoints and the callers do *anything
their traits allow* and check what the drivers make of it.

Paths below are relative to `src/crate/core/src/` unless they say otherwise.

## 1. The system

| Component | State | Operations | What makes it hard | What makes it correct |
|---|---|---|---|---|
| Protocol (`protocol.rs`, `step.rs`) | `FinishPhase` | `validated` of each answer, `check_open`, `start_finish` | a codec may claim counts outside its buffers | a claim outside the buffers moves nothing |
| `Pump` (`stream.rs`) | `finish_phase`, `failed`, `total` | `transfer_from`, `transfer_step`, `flush_to`, `finish_to` | source, `spare`, codec and `commit` fail one after the other in one pass; operations in any order; full sink or stuck codec | codec contract kept, exact totals, no silent loss, sticky error, every call returns |
| `stream_to_stream` (`stream.rs`) | a pump | one transfer, one finish | output that fits exactly; end at EOF or in-band | Ok means complete |
| `Chain` (`chain.rs`) | two codecs, staging, flush cycle, pending and latched error | `process`, `flush`, `finish` | an error of the first codec waits, over calls, until the second has passed on the bytes before it | no byte lost, first error wins, a chain is a codec |
| Readers: `CodecReader`, `BufReadCodecReader` of `std_io` and `embedded_io` (`shared_io/read.rs`, `source.rs`, `retry.rs`) | a pump; the scratch buffer, or that of the wrapped `BufRead` | `read` | Err after bytes, Ok(0) without end, interrupted raw calls, input that grows after its end | the contract of `Read` |
| Writers: `CodecWriter` of both backends (`shared_io/write.rs`) | a pump | `write`, `flush`, `finish` | errors after bytes were taken, full sinks, `finish` called again | the contract of `Write`, as far as the code claims it |
| Sinks: `SliceSink`, `VecSink`, `ScratchSink` (`slice`, `vec`, `shared_io/sink.rs`) | a position or the vec, the buffer, `offered` | `spare`, `commit`, the loop of `write_all` | short, empty, interrupted and failing raw writes; a commit of too much, or twice | the contract of `Sink`; no byte twice |
| Backends (`std_io`, `embedded_io`) | none | `is_interrupted`, the conversion of errors | which errors a caller retries by itself | no interruption of a raw `read` or `write` reaches the caller; one of the wrapped writer's own `flush` does |
| Codecs (`codecs/*`) | pending groups, literals, escapes | `process`, `flush`, `finish` | bytes seen but not consumed, outputs that end inside a group or an escape, an error after a group that did not fit | any split of input and output gives the one-call output; each answer is true |
| `encode_str` (`vec/string.rs`) | none | one `stream_to_stream` | an `unreachable!` that relies on the sink that grows | it is not reached |
| CLI (`src/crate/cli/src/main.rs`) | the composed codecs | parsing, `compose`, two engines | the order of the codecs, the trailer after `io::copy`, errors anywhere | status 0 means complete and flushed |

How they interact: all is calls, downwards. The command line tool
composes chains and calls `io::copy` or `stream_to_stream`. A wrapper
(`CodecReader`, `CodecWriter`, `stream_to_stream`) calls the pump, the pump calls the source,
the codec and the sink through their traits, and a `Chain` is one such codec
that calls two more. State is kept only in the objects on that path; nothing
runs concurrently. Errors travel up, and some of them are kept: the pump
latches the kind of a codec error, the chain keeps a pending one until the
bytes before it are out.

## 2. Modules

    Protocol             answers, validation, FinishPhase, the codec contract
      IoErrors           error kinds of the two backends
        Sinks            the sinks over memory and over a raw writer; implements SinkContract
          SinksProofs
      Pump               the pump over arbitrary endpoints and codec
        PumpProofs       also the lemmas on answers and on moves that the next three use
        Reader           (with IoErrors) four readers, raw call by raw call; implements ByteReader
          ReaderProofs
        Writer           (with IoErrors) two writers over any sink; implements ByteWriter
          WriterProofs
        StreamToStream   stream_to_stream and encode_str over honest parts
          StreamToStreamProofs
      LatchingCodec      what a chain promises (abstract)
      Chain              the chain over two arbitrary codecs; implements LatchingCodec
        ChainProofs
      CodecCall          one call of a codec in steps, and a driver that cuts the stream
        JsonEnc          the JSON escaper; implements HonestCodec
          JsonEncProofs
        Base64Shared     what the two Base64 codecs hold and do in the same way
          Base64Enc      the encoder; implements HonestCodec
          Base64Dec      the decoder; implements HonestCodec
    HonestCodec          what the drivers rely on in a codec (abstract)
    SinkContract         what the drivers rely on in a sink (abstract)
    ByteReader           what a reader promises its caller (abstract)
    ByteWriter           what a writer promises its caller (abstract)
    Cli                  the command line tool, composed of ByteReader and ByteWriter
      CliProofs

The abstract specifications close the gaps between the layers: the codecs are
shown to be what `StreamToStream` assumes, a chain to be a codec again, the
sinks to be what the pump assumes of a sink, and the readers and writers to be
what `Cli` assumes of them.

The modules also define the altered operators that the mutation runs of
`PROJECT.json` put in the place of the real ones (`ValidatedTrusting`,
`CallsAgainAlways`, `RemembersRun` and the like); nothing else uses them.

**Protocol.** An answer of a codec is a record of a tag, the two counts and
an error kind; bytes have no value. `ProcessAnswers`, `BoundedAnswers` and
`DrainAnswers` are all answers to a call, one-byte overclaims included (the
drivers only compare, so one byte stands for all). `Validated` is the
`validated` family. `AfterProcess`, `AfterFlush` and `AfterFinish` are a
monitor of the contract in `protocol.rs`: a codec called when the traits leave
it undefined becomes `"misused"` for good.

**Pump.** One step is one pass of a loop of the code, that is: at most one
call each of `chunk`, `spare`, the codec, `consume` and `commit`. That is
exactly the body of `transfer_step` or one round of `drain_loop`; the actions
are its ways to end (`Refused`, `ChunkFails`, `SourceEnds`, `SpareFails`,
`StepFails`, `StepStalls`, `StepMoves`, `DrainFails`, `DrainStalls`,
`DrainMoves`, `FinishAgain`). `transfer_from` differs from `transfer_step`
only in that it goes round (`EndPass`). `taken`, `emitted` and `stored` are
history: what really moved at the three places, to compare the counts with.
The parameters of `Transfers` and `Drains` are the answers of endpoints and
codec: Pump itself tries all, the modules that extend it narrow them.
A failed commit is modelled as storing nothing, which is the assumption the
code makes (`stream.rs:376`, `stream.rs:419`).

**Reader** extends Pump and is one of four wrappers, chosen at the start: a
backend, and a source that owns a scratch buffer or lends the buffer of a
`BufRead`. Each raw call is a step of its own (`RawInterrupted`, `RawFails`,
`RawEnds`, `RawGives`): it may be interrupted, give short counts, fail, and
report an end and then grow. `fetch` says where `retry_fill_buf` is, which
calls `fill_buf` twice: the first call is retried, the second one is not, and
an empty result returns at once (`CallsAgain`). `TransferInto` and `FinishInto`
are the passes of the pump on these endpoints, the rest is
`boundary_aware_pump_read`. `pending` is what was pulled and not consumed.

**Writer** extends Pump, replaces the source by the caller's buffer and lets the
sink do anything. `finish` consumes the writer only when it succeeds.

**IoErrors** is the conversion of a result to the error kind of the backend,
because callers like `io::copy` and `write_all` go by the kind.

**StreamToStream** makes every part honest, so that completeness can be said:
the codec may hold output back (`held`), and its last answer to `finish` is
Done exactly when it holds nothing. The caller is one with a bounded sink and
endpoints that fail, or `encode_str` with a `VecSink`.

**Sinks.** One module for `SliceSink`, `VecSink` and `ScratchSink` under each
backend. Bytes are numbered, so that a byte that is lost, doubled or never
written shows. `commit` to a raw writer is a loop of `RawWrites`,
`RawInterrupted`, `RawWritesNothing`, `RawFails`; the caller fills the space,
commits any amount up to one too many, and after a failed commit gives its
bytes up or tries them again. `Vec::reserve` and the `write_all` of std are
external.

**SinkContract, ByteReader, ByteWriter** are abstract specifications: each is
what the docs of the trait or of the wrapper promise, with its liveness (every
commit, read or method returns) and without pumps, buffers and loops.

**Cli** is the program from its words to its exit status. A composed codec is
the list of the codecs that a byte passes. Reader and writer are instances of
ByteReader and ByteWriter, and `io::copy` (external) is a loop of their reads
and writes that, like std's, tries again after an error of the kind
Interrupted: that it always ends rests on the promise that there is none.
`stream_to_stream` is one step that may fail anywhere. `Program`
are the steps of `main.rs` and `io::copy`, `CodecWorks` what happens inside a
read or a write.

**Chain.** One step is one codec call of a loop pass and the bookkeeping after
it, or a return that needs none. `process` and `drain_through` are the same
loop with a different call of the first codec, so the passes are shared:
`DrainStaging`, `DeliverError`, `ReturnProgress`, `DrainSecond`, `RunFirst`.
`drained` says that this pass has run `drain_staging_into`. The entry check of
`deliver_error_if_due` is the same action as the one in the loop, because at
the entry with an empty staging buffer nothing lies between the two.
`inFlight`, `holding`, `moved` and `cause` are history.

**LatchingCodec** is the abstract specification: a codec by the contract of
`protocol.rs` with the latch of the chain's docs, without codecs, staging or
flush cycle. `Chain!ImplementsLatchingCodec` maps only the latch; the other
variables are shared by name.

**HonestCodec** is the contract of `protocol.rs` for a codec that transforms
bytes, one step a call: the output of all calls is a prefix of what the
consumed input yields in one call; InputConsumed means that the whole input
was; OutputFilled of a drain means that the output is full and more is
pending; an error is said of corrupt or truncated streams only; Done of
`finish` means that the stream was valid and all of it is out. This is the
assumption under which `StreamToStream` says that Ok is complete. It takes the
transformation as operators (`OutputOf`, `Corrupt`, `Truncated`) that the
codec modules define over a whole stream, without calls; `setting` is what the
codec was made with, here whether the engine pads.

**CodecCall** is the frame of a call: its buffers, its answer, and `at`, the
place in its code, so that each module has one action per stage of the code.
Its driver cuts the stream into inputs and outputs as it likes, with `flush`
and repeated `finish` in between, finishes anywhere, and offers what was not
consumed again, perhaps with more behind it. That it is never offered less, or
something else, is a restriction the authors know they rely on
(`src/crate/known_issues.md`, "JsonEnc keeps state about bytes that it did not
consume"). After an error, or Done of `finish`, the driver stops.

**JsonEnc** abstracts a byte to its kind and place, and the escapes to their
widths: byte `k` of what `b` becomes is `<<b, k>>`. `literal` and `escape` are
`pending_literal_len` and `pending_escape`; `DrainStarted`, `DrainLiteral` and
`StartEscape` are the three stages of `flush_pending`, `ChunkIsCut` and
`ChunkFits` the passes of the loop. A literal is copied without another look
at its bytes (`Copied`), so one that was not plain would show in the output.

**Base64Enc, Base64Dec** have symbolic groups: symbol or byte `k` of a group
`g` is `<<g, k>>`, so that a group made of the wrong bytes shows. The engine of
the `base64` crate is external: it encodes any group, and it decodes a group
if its characters are data with padding at the end as configured (`padded`:
required or refused, chosen at the start). The actions
are the stages of `process_run` (held output, pending group, bulk, one more
group, leftover) and of `finish`; in the decoder also the search for the next
run without whitespace, limited by the output as in the code. An engine that
fails where the code has just made room for it is left out.

## 3. Runs

| Run | Asks | States |
|---|---|---|
| `pump` | Does the pump keep the contract, the counts and its word, called in any order with everything failing? | 5.8 k |
| `chain` | Is the chain, over two arbitrary codecs, lossless, fair to the first error, and itself a codec? | 62 k |
| `reader` | Is each of the four readers a `Read` over any raw reader? | 42 k |
| `writer` | Are the writers a `Write`, up to the errors the FIXME lists? | 101 k |
| `stream` | Is Ok complete, SinkExhausted true, and `encode_str` free of panics? | 2.7 k |
| `sinks` | Does each sink keep the contract, and double no byte by itself? | 20 k |
| `json` | Does any cut of input and output give the same escapes? | 41 k |
| `base64_enc` | The same for the encoder, padding only at the end? | 28 k |
| `base64_dec` | The same for the decoder, with errors at their place and after the bytes before them? Does every call return? | 128 k |
| `cli` | Are the codecs composed in the order asked for, does status 0 mean complete output, does the tool exit? | 78 k |
| `writer_err` | Does an Err of `write` mean that nothing was taken? (No: issue #20) | violation |
| `chain_latch` | Does a latched error of a chain repeat in every later call? (Not in `process` and `flush` after `finish`) | violation |

**Bounds.** Chunks and spaces have lengths 1 and 2 (spaces also 0), the
shortest at which a call can be partial, exact or empty. Source, sink and codec
output are finite (3 to 8 bytes), longer than two chunks, so a transfer takes
several passes, a sink fills up before, at and after the end of the input, and
a drain is cut off and resumed. In `pump` the totals wrap at 2, below what
moves. In `chain` the staging buffer has two bytes (partial drains), calls two
bytes of input and output, and the first codec writes at most three bytes in a
call of the chain (`MaxMid`): the staging buffer is filled twice. Two error
kinds are used where two errors can meet, and one where the kind is only
passed on. No number in the code is a threshold beyond these: the drivers
compare lengths with 0 and with each other.

The codecs do have thresholds, the groups and the escapes. `json` runs over all
streams of four plain and quoted bytes and some with the six-byte escape, with
outputs of 0 to 3 bytes: an escape takes up to three calls, a literal is cut
before, in and behind, and what was remembered meets longer input. `base64_enc`
has two groups and two bytes and outputs of 0, 1, 3, 4, 5 and 9 symbols: none,
less than, exactly, and more than one and two groups. `base64_dec` has up to 11
characters: a whole group before a whole, padded or bad one, data behind padding, short
tails, whitespace in, between and after groups; outputs of 0, 1, 4 and 6 bytes.
A driver may finish early, so every prefix of these streams is covered too.

`reader` has a scratch buffer and reads of up to two bytes, three bytes of
input and up to four of output: a pull takes several raw calls, a read several
pulls, a finish several reads. `sinks` has a slice of three bytes and a buffer
of two: a commit takes one or two raw writes, each of which can be cut, and the
vec grows from capacity 0 or 1 past `MaxStored`, 4. `cli` has every command
line of up to three out of nine words, one of which is no codec, and six longer
ones with options repeated, turned round and cut off; the buffer of `io::copy`
has two bytes and the codecs make three, so there is a second read, and a
chunk is written in one call or two.

**Finite output.** `MaxOut`, `MaxMid` and `MaxHeld` bound what a codec writes.
The authors decided not to limit codecs that never finish
(`src/crate/known_issues.md`), so the liveness properties are about the
others. The bounds stop the codec, they never disable an error or a return.

**Fairness.** The library is single-threaded: a call runs until it returns.
That is weak fairness of the passes (`Pass` of Pump and Chain, `Work` of
Reader, Writer, Sinks and Base64Dec, `Program` of Cli) and nothing else. Calls
of the caller have no fairness. An interruption of a raw call is outside of
`Work`: a raw call is not interrupted for ever, which is the assumption of
every retry loop. In `Cli`, fairness of `Program` includes that a read or a
write returns, which `reader` and `writer` check, and that stdin ends. `tick`
in Pump flips on every pass, so that a pass that moves nothing is a step, and a
loop of them a counterexample. That a raw call blocks is outside.

**Callers.** They call in any order with any buffer, with one restriction:
after an in-band end the pump is asked for `finish` only
(`protocol.rs`, `BoundaryAwareCodec`). Reader is not restricted; that it obeys
is its property `ReaderKeepsContract`. The caller of a `SliceSink` commits only
after `spare`, since a slice does not remember what it lent.

## 4. Findings

* `writer_err`: `write` can return Err after it took bytes, against the
  `Write` contract quoted in its own doc. Known to the authors (issue #20).
  `ImplementsByteWriter` adds that their list of cases is complete, and
  `BytesAccountedFor` that the counts are right as long as none occurred.
* `chain_latch`: the doc of `Chain::process` says that later calls repeat the
  latched kind; after `finish`, `process` and `flush` answer AfterFinish.
  `LatchingCodec` describes what the code does.

## 5. Proofs

The theorems hold for every value of the constants, that is for every length
of a buffer, size of a word, set of error kinds, command line, stream of bytes
and table of escapes, under these assumptions, which TLC evaluates on every
run: lengths are numbers, and those of the scratch, staging and copy buffers
positive; there is at least one error kind; an escape has at least one byte.
The bounds of section 3 are constants too, so no theorem depends on them.

All theorems have one shape: an inductive invariant, one lemma for each step
that keeps it, and the properties as consequences of the invariant or of the
invariant and one step. The invariants were checked by TLC, as invariants of
the run of the module, before they were proved. What is in them beside the
properties is what the code silently relies on.

**PumpProofs.** All safety properties of the `pump` run. None of the five state
invariants is inductive alone: the contract needs the agreement (a pump that
had not latched the error would call again), the agreement needs to know that a
call is only made in a live phase (`PhaseInv`), and the totals need the types
for the arithmetic of `%`. A validated answer is inside its buffers
(`ValidatedSound`), and a move keeps the totals exact although both sides wrap
(`MoveExact`, from `WrappedSum`).

**StreamToStreamProofs, ReaderProofs, WriterProofs** start from the invariant of
the pump and show that their narrower endpoints keep it; hence the contract of
the codec and the exact totals also hold for these drivers. What they add:

* `stream_to_stream`: `SaysInv`, what each result of the pump says of the two
  ends and of the codec. Ok is complete because Done is an answer of a codec that
  holds nothing and the part before ended at the end of the input;
  `unreachable!` is not reached because `SinkExhausted` is said only for a
  bounded sink.
* The readers: `CountsInv`, that all bytes are somewhere; `EndInv`, that an end
  once seen leads to `finish` in the same read, so the codec is never asked to
  process again; and `FetchInv`, that the second `fill_buf`, which is not
  retried, finds bytes already there and never reaches the raw reader. Without
  the last one an interruption could come out.
* The writers: `CountsInv`, that the sums agree until a fault is reported, except
  for the fault the method is about to report, and `OutcomeInv`, what the result
  of the pump says before the method turns it into its own.

`ReaderMovesAsPromised` and `WriterMovesAsPromised` show that each step is a
step or a stutter of `ByteReader` and `ByteWriter`.

**SinksProofs.** No byte is stored twice because bytes arrive in order:
`Arriving` is the first one the destination does not have, also in the middle of
`write_all`, and everything stored is below it (`OrderInv`). Capacity follows from
`SpaceInv`: the space lent is unused space. `SinksMoveAsPromised` is the step
simulation of `SinkContract`.

**ChainProofs.** All safety properties of the `chain` run, and the whole
refinement of `LatchingCodec`, which has no liveness. The invariant adds
that an emptied staging is rewound (`StagingInv`; else the first codec would
write over staged bytes), that a call that will be refused has moved nothing
(`CallInv`), that flags and codecs tell the same story (`CodecsInv`), that a
first codec which was flushed has taken no input since (`FlushInv`), and that an
error has a cause (`CauseInv`).

**JsonEncProofs.** First what is remembered: `PendingInv` says it in every state
of a call, over the input still to be read (`Left`); between calls it is
`PendingDescribesInput`. A remembered escape always follows a remembered
literal, which is why `finish`, whose check looks at the literal only, never
starts it without input. Then the output: `OutputInv` says that what was
written, and the rest of a started escape, are the one-call output of the
bytes consumed so far, and that a call which has to stop has filled its output.
Each step adds to both sides the same bytes (`GoesOutput`); that the copy of a
remembered run is what escaping it yields needs `PendingInv` (`CopyYields`). With it
every answer is one of `HonestCodec`: `JsonImplementsHonestCodec` is the whole
refinement.

The one-call output is defined by `FlattenSeq`, a recursion over the stream. Its
equations are proved by induction over the bytes. The induction theorems of the
library cannot be used here, since they take an operator; instead `LeastNat` gives the
least element of any set of numbers from the well-foundedness of `<`, and
`NatSetInduction` states induction for a set instead of a predicate.

**CliProofs.** Status 0 is honest: `CopyInv` says at each place of `io::copy` how
what the reader gave, the chunk, and what the writer accepted add up.

**Only model-checked**, and why:

* Liveness (`CallsReturn`, `Terminates`, and the conjuncts of fairness in
  `ImplementsSinkContract`, `ImplementsByteReader` and `ImplementsByteWriter`):
  the prover has no rule for fairness and ENABLED. Of those three the steps are proved.
* `ImplementsHonestCodec` of the Base64 codecs and `ErrorAtItsCause`: the same
  argument as for the escaper, over groups instead of bytes; not written yet.
* `ComposedInOrder`: folds over the words of a line and over the names, so an
  induction over both; not written yet.

## 6. Not modelled

* Values of bytes in the drivers (they never look at one), and initialisation of
  memory: `VecSink::commit` and the casts of `uninit.rs` (issue #19).
* `Display`, `Debug`, `source` of errors, getters, and the forwarding impls for
  references and boxes: no state of the protocol. `get_mut` and `into_parts`
  leave the object's own state alone; what a caller does with the parts is put
  on the caller by the docs.
* The UTF-8 check of `encode_string`, after a complete `encode_str`.
* Identity and Rot13: stateless, one copy of the shorter length. The driver
  modules let a codec answer more than that.
* The texts of the CLI and its `SIGUSR1` handler, which does nothing; that a raw
  call is then interrupted is in Reader and Sinks.
* `src/design-interface` (a frozen prototype), the benchmark, the stress
  scripts and the tests.

## 7. Plan

1. *Done:* Protocol, Pump, Reader, Writer, StreamToStream, Chain with its
   abstract specification; the proofs of Pump.
2. *Done:* JsonEnc, Base64Enc, Base64Dec, each shown to be the codec that the
   drivers assume.
3. *Done:* the sinks, the lending source, both backends, interruptions and
   retries, `encode_str`, the CLI; the abstract reader, writer and sink.
4. *Done:* the proofs of Chain with its refinement, of Sinks, Reader, Writer,
   StreamToStream and Cli, and that JsonEnc implements HonestCodec.
5. Proofs that Base64Enc and Base64Dec implement HonestCodec, and
   `ErrorAtItsCause`. The invariant is that of JsonEncProofs with the held output
   and the partial group in the place of the escape; the equations of the
   one-call output go by induction over groups with `NatSetInduction`.
6. `ComposedInOrder` of Cli, by the same induction over FoldLeft, FoldRight and
   SelectSeq.

New properties should replace shallower ones rather than add to the list.
