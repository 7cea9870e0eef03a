SPECIFICATION EncSpec

CONSTANTS
  CodecKinds = {"CodecBufferTooSmall"}
  Streams <- OneStream
  Rooms <- SomeRooms

PROPERTIES
  ImplementsHonestCodec
