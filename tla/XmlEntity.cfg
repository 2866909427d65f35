CONSTANTS
  Entities = {"a", "b"}
  Documents <- MCDocuments
  Width <- MCWidth
  Threshold = 20
  Factor = 2
  Null = Null
SPECIFICATION Spec
INVARIANTS EntityInv RefusalsExact Expanded AmplificationBounded
PROPERTIES CallsReturn
CHECK_DEADLOCK FALSE
