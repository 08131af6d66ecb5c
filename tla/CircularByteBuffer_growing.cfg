\* A ring of three bytes that blocks, or that doubles to six, and fair clients.
CONSTANTS
  Byte = {0, 1}
  Zero = 0
  Kinds <- Growing
  MaxLength = 6
  Readers = {r1}
  Writers = {w1}
  MaxRead = 1
  MaxWrite = 2
  Ops <- GrowingCalls
SPECIFICATION LiveSpec
INVARIANT RingSafe
PROPERTIES ImplementsByteStream WriteCompletes
