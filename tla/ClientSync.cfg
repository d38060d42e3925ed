SPECIFICATION FairSpec
CONSTANTS
    Calls = {c1, c2}
    MaxMatches = 2
    MaxSteps = 1
    MaxTime = 1
    MaxDrops = 1
    MaxLosses = 1
    Interleaved = FALSE
INVARIANTS
    TypeOK
    SequenceNeverLeads
PROPERTIES
    NeverBack
    RefusedIsKnown
    Resyncs
    KickedLeaves
CHECK_DEADLOCK FALSE
