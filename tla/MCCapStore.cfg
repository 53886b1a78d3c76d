CONSTANTS
  PtrBytes = 2
  WordBits = 4
  NumWords = 4
  ChunkBytes = 8
  Zero = "zero"
  CapByte = "cap"
  MaxCalls = 2
  Byte <- MCBytes
  Caps <- MCCaps
  Offsets <- MCOffsets
  Lengths <- MCLengths
  InitialStores <- MCStores
  Junk <- MCJunk

SPECIFICATION Spec

INVARIANTS
  TypeOK
  ZeroReachesAllButLastChunk
PROPERTIES
  ImplementsCapMemory
  TagsChangeNearby

\* An assertion that fails ends the process; MaxCalls bounds the calls.
CHECK_DEADLOCK FALSE
