SPECIFICATION Spec

CONSTANTS
  CodecKinds <- TwoKinds
  Word = 2
  SourceLen = 4
  MaxChunk = 2
  SinkCap = 3
  MaxSpare = 2
  MaxOut = 4

INVARIANTS
  TypeOK
  CodecContractKept
  PumpAgreesWithCodec
  TotalsExact
  EndpointsNeverOverrun

PROPERTIES
  ErrorIsSticky
  LossIsReported
  DoneMeansDone
  CallsReturn
