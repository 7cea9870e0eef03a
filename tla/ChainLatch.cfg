SPECIFICATION Spec

CONSTANTS
  CodecKinds <- TwoKinds
  StagingLen = 2
  MaxInput = 2
  MaxOutput = 2
  MaxMid = 3

PROPERTIES
  LatchedErrorRepeats
