SPECIFICATION Spec
CONSTANTS
  Null = Null
  Bad = Bad
  Title = {"t", "u"}
  Guid = {"g", "h", "again"}
  Date <- Days
  Feeds <- SmallFeeds
  InitCapacity = 16
  AllocFails = {FALSE, TRUE}
INVARIANTS LoopInv PrintsNew FailuresExplained
