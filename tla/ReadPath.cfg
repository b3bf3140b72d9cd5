SPECIFICATION Spec
CONSTANTS
  Lexicon <- MCLexicon
  Schema <- MCSchema
  WordBits = 2
  ByteValues = 2
  FalsePositives = {"10"}
  CacheCapacity = 9
  MaxEntry = 2
  MaxInt = 1
  Keys = {"10", "9"}
  RowsFor <- MCRowsFor
  MemLimit = 1
  MaxWrites = 2
  MaxID = 3
  Queries <- MCQueries
  ChunkSizes = {1, 2}
  UintLimit = 8
INVARIANTS
  ReadPathTypeOK
  FilesRoundTrip
  GetIsLogical
  ScanIsGet
  PruneSafe
  SelectSound
  SelectComplete
  CacheSound
  OptimizerPreserves
  GroupsPartition
  PagesAreSlices
PROPERTIES
  ScanMissesOnlyWhenPassed
