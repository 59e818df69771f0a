CONSTANTS
  b = b
  TotalThreads = 3
  Block = {b}
  BlockSize <- MCBlockSize
  MemoryInstruction <- MCMemoryInstruction
  NoThread = none
  NoInstruction = noinst
  Barriers = 2
  MaxRecords = 6
  RegionsMeetBarriers = FALSE
  DamagedFiles = TRUE
SPECIFICATION Spec
INVARIANT ReaderInvariant
INVARIANT MutualExclusion
INVARIANT BarriersHold
PROPERTY ReplaysBlocks
