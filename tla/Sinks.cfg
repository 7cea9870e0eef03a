SPECIFICATION Spec

CONSTANTS
  CodecKinds <- OneKind
  SliceLen = 3
  BufferLen = 2
  GrowBy = 2
  MaxStored = 4

INVARIANTS
  NothingTwice
  NeverBeyondCapacity

PROPERTIES
  ImplementsSinkContract
