CONSTANTS
  Element = {m1, m2}
  Zero = zero
  Unwritten = unwritten
  DefaultBufferSize = 2
  Sizes <- MCSizes
  LargestSize = 8
SPECIFICATION Spec
INVARIANT BufferInvariant
PROPERTY IsAFifo
CHECK_DEADLOCK FALSE
