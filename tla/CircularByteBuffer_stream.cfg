\* Rings of two and four bytes that block, one of three that throws, against the promised stream.
CONSTANTS
  Byte = {0, 1}
  Zero = 0
  Kinds <- Streaming
  MaxLength = 4
  Readers = {r1}
  Writers = {w1}
  MaxRead = 2
  MaxWrite = 2
  Ops <- ArrayCalls
SPECIFICATION Spec
INVARIANT OverflowIsAllOrNothing
PROPERTY ImplementsByteStream
