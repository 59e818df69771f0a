CONSTANTS
  compA = compA
  compB = compB
  toA = toA
  toB = toB
  Component = {compA, compB}
  Connections = {toA, toB}
  User <- MCUser
  Owner <- MCOwner
  Size <- MCSize
  Element = {m1}
  Zero = zero
  Unwritten = unwritten
  NoComponent = none
  DefaultBufferSize = 1
  LargestSize = 2
  MaxCycle = 3
SPECIFICATION Spec
INVARIANT LinkableInvariant
PROPERTY IsSynchronous
PROPERTY ReadersAreUndisturbed
CHECK_DEADLOCK FALSE
