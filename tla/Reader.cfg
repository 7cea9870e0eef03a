SPECIFICATION ReaderSpec

CONSTANTS
  CodecKinds <- TwoKinds
  Word = 8
  SourceLen = 3
  MaxChunk = 2
  SinkCap = 5
  MaxSpare = 2
  MaxOut = 4
  ScratchLen = 2
  MaxBuf = 2

INVARIANTS
  ReaderKeepsContract
  NoByteAstray
  InterruptedStaysInside

PROPERTIES
  EndStays
  ImplementsByteReader
