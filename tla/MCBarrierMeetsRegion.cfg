CONSTANTS
  b = b
  TotalThreads = 2
  Block = {b}
  BlockSize <- MCBlockSize
  MemoryInstruction <- MCMemoryInstruction
  NoThread = none
  NoInstruction = noinst
  Barriers = 2
  MaxRecords = 5
  RegionsMeetBarriers = TRUE
  DamagedFiles = FALSE
SPECIFICATION Spec
INVARIANT BarriersHold
