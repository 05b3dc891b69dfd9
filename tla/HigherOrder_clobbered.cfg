\* A concatMap in the argument of a concatMap, with a buffer size that is right.
SPECIFICATION Spec
CONSTANTS
  Lists <- MCLists
  Ints <- MCInts
  OctetLimit = 2
  Blobs = {b1}
  NoBlob = NoBlob
  FirstOctets <- MCFirstOctets
  Widths <- MCWidths
  Unset = Unset
  TempCapacity = 4
  TempCounts = {4}
  MaxDepth = 2
  MaxNested = 1
INVARIANT ConcatMapNests
CHECK_DEADLOCK FALSE
