SPECIFICATION Spec
CONSTANTS
  Slots = {s1}
  MaxMatches = 2
  MaxRounds = 2
  TotalRounds = 1
  Configs <- QuickStart
  Interleaved = FALSE
  MaxHostEvents = 3
  MaxCrashes = 1
  MaxFaults = 0
INVARIANT RoomPhaseProjectsMatchPhase
CHECK_DEADLOCK FALSE
