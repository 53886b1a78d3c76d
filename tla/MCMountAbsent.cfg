CONSTANTS
  PtrBytes = 2
  WordBits = 3
  NumWords = 3
  ChunkBytes = 6
  RootBytes = 2
  MaxCrashes = 1
  InitialFiles = {"absent"}
  InitialTags <- TwoMaps

SPECIFICATION FairSpec

PROPERTY
  EveryStoreMounts
