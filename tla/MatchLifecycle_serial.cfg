SPECIFICATION FairSpec
CONSTANTS
  Slots = {s1}
  MaxMatches = 3
  MaxRounds = 6
  TotalRounds = 2
  Configs <- AllConfigs
  Interleaved = FALSE
  MaxHostEvents = 4
  MaxCrashes = 2
  MaxFaults = 0
INVARIANTS
  PhaseProjection
  PumpArmed
  RoundsKeepPace
PROPERTIES
  PublishedPhases
  MatchMovesOn
CHECK_DEADLOCK FALSE
