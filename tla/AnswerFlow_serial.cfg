SPECIFICATION Spec
CONSTANTS
  Players = {p1}
  Actions = {a1, a2}
  Slots = {s1}
  PointValues = {1}
  SwapAttempts = 2
  Overlaps <- Serial
  Lobby = {}
  MaxRounds = 2
  MaxMatches = 2
  MaxCrashes = 1
  MaxGone = 1
SYMMETRY ActionSymmetry
INVARIANTS
  ScoreIsSumOfPoints
  RevealIsFinal
PROPERTY TapsAreAtomic
CHECK_DEADLOCK FALSE
