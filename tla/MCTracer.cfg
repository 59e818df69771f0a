CONSTANTS
  narrow = narrow
  wide = wide
  TotalThreads = 3
  Block = {narrow, wide}
  BlockSize <- MCBlockSize
  Accesses <- MCAccesses
  Programs <- MCPrograms
  Limits = {noLimit, 1}
  NoLimit = noLimit
  NoThread = none
  RECORD_ARRAY_SIZE = 2
SPECIFICATION Spec
CHECK_DEADLOCK FALSE
INVARIANTS
  TracerInvariant
  FilesTellTheTrace
  BarriersAgree
  RegionsHoldNoBarrier
  AbruptEndStopsAll
  MemoryMatchesBlocks
PROPERTY AllFilesComplete
