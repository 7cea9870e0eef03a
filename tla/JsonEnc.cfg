SPECIFICATION JsonSpec

CONSTANTS
  CodecKinds = {"UnexpectedEnd"}
  Streams <- AllStreams
  Width <- ByteWidth
  Rooms = {0, 1, 2, 3}

INVARIANTS
  PendingDescribesInput

PROPERTIES
  ImplementsHonestCodec
