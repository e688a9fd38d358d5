SPECIFICATION Spec
CONSTANTS
  ByteBits = 4
  BlockSectors = 4
  TotalBlocks = 4
  Unusable = {0, 3}
  CountMod = 32
  SpanMod = 8
  DiskSizes = {1, 4, 5, 8}
  Writes <- SomeWrites
  Reads <- SomeReads
  OtherRuns = {1, 2}
  Zero <- ZeroSector
  Foreign <- ForeignSector
  Paths <- SomePaths
  Names <- SomeNames
  NameLength = 2
  Records <- SomeRecords
  FatSector = 15
  MaxRounds = 2
INVARIANTS OthersKept LocateFinds BufferReturned
PROPERTY RefinesStore
CONSTRAINT Bounded
CHECK_DEADLOCK FALSE
