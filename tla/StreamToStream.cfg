SPECIFICATION StreamSpec

CONSTANTS
  CodecKinds <- OneKind
  Word = 4
  SourceLen = 3
  MaxChunk = 2
  SinkCap = 4
  MaxSpare = 2
  MaxOut = 8
  MaxHeld = 2
  MaxTrailer = 1

INVARIANTS
  OkMeansComplete
  ExactFitSucceeds
  NeverUnreachable
