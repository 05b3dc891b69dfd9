\* Every function on each of its inputs.
SPECIFICATION Spec
CONSTANTS
  Half <- MCHalf
  Capacity = 16
  SinTable <- MCSinTable
  Noise <- MCNoise
  Unset = Unset
  PositionLimit = 8
  MaxEntries = 2
  Ints <- MCInts
  Angles <- MCAngles
  Words <- MCWords
  Lists <- MCLists
  Maybes <- MCMaybes
  Positions <- MCPositions
  Dimensions <- MCDimensions
  Sizes <- MCSizes
  FillValues <- MCFillValues
  LineTables <- MCLineTables
  FileCounts <- MCFileCounts
  VariableTables <- MCVariableTables
  Positions16 <- MCPositions16
  WordBits = 21
  EnumLimit = 8
  Factors <- MCFactors
  Strings <- MCStrings
  SizedLists <- MCSizedLists
  FirstFrames <- MCFirstFrames
  Tags <- MCTags
  EnumTables <- MCEnumTables
  IntTables <- MCIntTables
  Types <- MCTypes
  Meaning <- MCMeaning
  FirstBlobs <- MCFirstBlobs
  MaxCalls = 1
INVARIANT ScalarsMatch
INVARIANT CollectionsMatch
INVARIANT LookupsMatch
INVARIANT BlobsMatch
INVARIANT ArgumentsArrive
\* The process may stop, and the calls have been made.
CHECK_DEADLOCK FALSE
