SPECIFICATION Spec
CONSTANTS
  Starts <- EveryEra
  WalkYears = 400
INVARIANTS DaysCorrect NumbersFit
CHECK_DEADLOCK FALSE
