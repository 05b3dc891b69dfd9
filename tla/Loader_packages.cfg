\* Three calls of the host: unpack and free, in any order.
SPECIFICATION Spec
CONSTANTS
  Images <- MCImages
  NoImage = NoImage
  Pointers <- MCPointers
  HostNames <- MCHostNames
  MaxCalls = 3
INVARIANT TypeOK
INVARIANT AcceptedIsReady
INVARIANT FaultsHaveACause
INVARIANT NothingIsLost
PROPERTY ImplementsCatalog
\* The process may stop, and the host may have made all its calls.
CHECK_DEADLOCK FALSE
