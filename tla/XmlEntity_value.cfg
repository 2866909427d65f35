CONSTANTS
  Entities = {"a", "b"}
  Documents <- LostDocuments
  Width <- MCWidth
  Threshold = 20
  Factor = 2
  Null = Null
SPECIFICATION Spec
CHECK_DEADLOCK FALSE
INVARIANT OpenedAreClosed
