SPECIFICATION Spec

CONSTANTS
  CodecKinds <- TwoKinds
  StagingLen = 2
  MaxInput = 2
  MaxOutput = 2
  MaxMid = 3

INVARIANTS
  CodecsNeverMisused
  NothingLostBetween
  FirstErrorWins

PROPERTIES
  ErrorWaitsForBytes
  SecondFinishesLast
  FlushDoneMeansFlushed
  ImplementsLatchingCodec
  CallsReturn
