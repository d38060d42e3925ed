SPECIFICATION Spec
CONSTANTS
    a1 = a1
    a2 = a2
    a3 = a3
    o1 = o1
    o2 = o2
    e1 = e1
    e2 = e2
    e3 = e3
    e4 = e4
    h1 = h1
    Countries <- MCCountries
    Facts <- MCFacts
    Seeds = {s1, s2}
    Configs <- EveryGame
    MaxMatches = 2
    MaxRecoveries = 1
INVARIANTS
    TypeOK
    OneRightAnswer
    NewWhileEnough
CHECK_DEADLOCK FALSE
