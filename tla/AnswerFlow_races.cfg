SPECIFICATION Spec
CONSTANTS
  Players = {p1}
  Actions = {a1, a2}
  Slots = {s1, s2}
  PointValues = {1}
  SwapAttempts = 2
  Overlaps <- AnswersRace
  Lobby = {p1}
  MaxRounds = 1
  MaxMatches = 1
  MaxCrashes = 1
  MaxGone = 1
SYMMETRY FullSymmetry
INVARIANTS
  TypeOK
  LastTapCounts
  AckedIsRecorded
PROPERTY DepartureSticks
CHECK_DEADLOCK FALSE
