SPECIFICATION DecSpec

CONSTANTS
  CodecKinds = {"CorruptStream", "UnexpectedEnd"}
  Streams <- AllStreams
  Rooms <- SomeRooms

PROPERTIES
  ErrorAtItsCause
  ImplementsHonestCodec
  CallsReturn
