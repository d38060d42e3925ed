SPECIFICATION Spec
CONSTANTS
  Players = {p1}
  Actions = {a1, a2}
  Slots = {s1, s2}
  PointValues = {1}
  SwapAttempts = 2
  Overlaps <- TwoTaps
  Lobby = {p1}
  MaxRounds = 1
  MaxMatches = 1
  MaxCrashes = 0
  MaxGone = 1
INVARIANT ScoreIsSumOfPoints
CHECK_DEADLOCK FALSE
