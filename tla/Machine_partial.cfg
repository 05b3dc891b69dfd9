SPECIFICATION Spec
CONSTANTS
  main = main
  step = step
  add = add
  map = map
  mapToBlob = mapToBlob
  log = log
  strange = strange
  partial = partial
  applied = applied
  root = root
  t1 = t1
  t2 = t2
  Internal <- MCInternal
  External <- MCExternal
  Curried <- MCCurried
  NoFunction = NoFunction
  Closes <- MCCloses
  Code <- MCCode
  ParameterCount <- MCParameterCount
  HigherOrder <- MCHigherOrder
  Arguments <- MCArguments
  PassesOne <- MCPassesOne
  Strange <- MCStrange
  Contexts <- MCContexts
  Root = root
  NoContext = NoContext
  MaxFrame = 2
  MaxCount = 3
  ErrorTraps = TRUE
  HasDebugInfo = TRUE
INVARIANT ResultsAreFresh
CHECK_DEADLOCK FALSE
