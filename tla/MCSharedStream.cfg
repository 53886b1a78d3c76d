CONSTANTS
  Thread = {t1, t2}
  MapBytes = 8
  FileBytes = 256
  TagBytes = 4
  CapBytes = 8
  RootBytes = 184
  Longest = 184
  Words <- MCNone
  Updates <- MCNone
  Extents <- MCNone
  Slots <- MCNone
  Depths <- MCDepths

SPECIFICATION Spec

INVARIANT AccessesItsCapability
