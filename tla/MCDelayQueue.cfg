SPECIFICATION Spec
CONSTANTS
  Delays = {0, 1, 2, 3}
  Throughputs = {0, 1, 2}
  MaxBurst = 3
  MaxCycles = 7
INVARIANTS
  QueueInvariant
  OnTimeInOrder
  RecoversFromBursts
