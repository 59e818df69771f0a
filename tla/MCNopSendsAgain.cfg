CONSTANTS
  b = b
  TotalThreads = 2
  NumberOfFetchers = 2
  Block = {b}
  BlockSize <- MCBlockSize
  MemoryInstruction <- MCMemoryInstruction
  InstSize <- MCInstSize
  Requests = {0, 3}
  ResponseSize = 3
  NoThread = none
  NoInstruction = noinst
  Barriers = 2
  MaxRecords = 6
  RegionsMeetBarriers = FALSE
  DamagedFiles = FALSE
SPECIFICATION EngineSpec
PROPERTY SentOnce
