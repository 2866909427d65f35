SPECIFICATION RunsSpec
CONSTANTS
  Runs = {r1, r2}
  MaxVersion = 3
  Window = 2
  MaxStale = 1
  Absent = Absent
  Hole = Hole
INVARIANTS PrintedOnce NothingMissed RunsInv
PROPERTIES TornForGood
SYMMETRY Symmetry
