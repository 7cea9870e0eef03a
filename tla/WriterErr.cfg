SPECIFICATION WriterSpec

CONSTANTS
  CodecKinds <- OneKind
  Word = 8
  SourceLen = 3
  MaxChunk = 2
  SinkCap = 2
  MaxSpare = 2
  MaxOut = 3
  MaxBuf = 2

PROPERTIES
  ErrTakesNothing
