SPECIFICATION Spec
CONSTANTS
  ContextBytes = 1
  InitBuffer = 1
  IntMax = 16
  Requests = {0, 1, 3}
  MaxInput = 4
  MaxResets = 1
  Deferrals = {TRUE, FALSE}
  IsParamEntity = FALSE
  Null = Null
INVARIANTS BufferInv PositionsTrue WorkIsLinear ResultsTrue
PROPERTIES TokensFollow CallsReturn
CHECK_DEADLOCK FALSE
