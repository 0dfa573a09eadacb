SPECIFICATION Spec
CONSTANTS
    dsA = dsA
    dsB = dsB
    dsC = dsC
    dsD = dsD
    NServers = 4
    F = 1
    Stray = {0}
    Worlds <- MCWorlds
    Turn = 1
INVARIANTS TypeOK KeepBest PlanIsOK TuplesOnce
PROPERTY WorseOnlyWhenTied
CHECK_DEADLOCK FALSE
