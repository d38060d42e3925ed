SPECIFICATION Spec
CONSTANTS
  Slots = {s1, s2}
  MaxMatches = 2
  MaxRounds = 2
  TotalRounds = 1
  Configs <- QuickStart
  Interleaved = TRUE
  MaxHostEvents = 3
  MaxCrashes = 0
  MaxFaults = 1
SYMMETRY SlotSymmetry
INVARIANTS
  TypeOK
  PausedStateMatchesPhase
  ReferencesStored
CHECK_DEADLOCK FALSE
