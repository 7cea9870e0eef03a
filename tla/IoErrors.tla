------------------------------ MODULE IoErrors ------------------------------
(***************************************************************************)
(* What an I/O error is to the caller of a wrapper: the `kind` that the    *)
(* std_io and embedded_io backends give to the results of the pump.  A     *)
(* caller like std::io::copy goes by the kind: Interrupted is retried.     *)
(***************************************************************************)
EXTENDS Protocol

Backends == {"std", "embedded"}

\* The kinds a raw reader or writer fails with; Other stands for the rest.
RawKinds == {"Interrupted", "Other"}

NoIoKind == "None"

IsNeverInterrupted(kind) == FALSE

\* is_interrupted of the two adapters.
IsInterrupted(kind) == kind = "Interrupted"

\* What the codec's error says of the data; the other kinds are bugs.
CodecIoKind(backend, kind) ==
  CASE kind = "CorruptStream" -> "InvalidData"
    [] kind = "UnexpectedEnd" /\ backend = "std"      -> "UnexpectedEof"
    [] kind = "UnexpectedEnd" /\ backend = "embedded" -> "InvalidData"
    [] OTHER -> "Other"

\* to_io_error and embedded_io::Error for StreamError, with the conversions
\* of a DriveError before them.  `raw` is the kind of the endpoint's error.
IoKindOf(backend, r, raw) ==
  CASE r.tag \in {"Source", "Sink", "Inner"} -> raw
    [] r.tag = "Codec"         -> CodecIoKind(backend, r.kind)
    [] r.tag = "SinkExhausted" -> "WriteZero"
    [] r.tag = "NoProgress"    -> "Other"

=============================================================================
