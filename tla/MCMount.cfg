CONSTANTS
  PtrBytes = 2
  WordBits = 3
  NumWords = 3
  ChunkBytes = 6
  RootBytes = 2
  MaxCrashes = 2
  InitialFiles = {"absent", "full"}
  InitialTags <- AllMaps

SPECIFICATION FairSpec

INVARIANTS
  TypeOK
  ServingIsFormatted
  NoTagOverOverwrittenChunk
  RootBlockCommitsFormat
PROPERTIES
  MountCompletes
  MountAdvances
  ImplementsFormatting
