\* Calls nested two deep; the size of a temporary buffer is 0 or more than there is.
SPECIFICATION Spec
CONSTANTS
  Lists <- MCLists
  Ints <- MCInts
  OctetLimit = 2
  Blobs = {b1}
  NoBlob = NoBlob
  FirstOctets <- MCFirstOctets
  Widths <- MCWidths
  Unset = Unset
  TempCapacity = 4
  TempCounts = {0, 6}
  MaxDepth = 2
  MaxNested = 1
INVARIANT TypeOK
INVARIANT MapsArePointwise
INVARIANT FoldsThread
INVARIANT SearchesStopAtTheFirst
INVARIANT ConcatMapConcatenates
CHECK_DEADLOCK FALSE
