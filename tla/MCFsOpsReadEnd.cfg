CONSTANTS
  BaseBits = 2
  SizeBits = 2
  PermBits = 3
  Salt <- MCSalt
  File = {f1, f2}
  NoFile = NoFile
  Handle = {h1, h2, h3}
  Null = Null
  Answers <- MCAnswers
  NoMetadata = NoMetadata
  Offsets <- MCOffsets
  RootCaps <- MCRootCaps

SPECIFICATION Spec

INVARIANT ReadAtEndReturnsNothing
