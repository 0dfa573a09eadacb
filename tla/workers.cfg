SPECIFICATION FairSpec
CONSTANTS
    q1 = q1
    q2 = q2
    Queries = {q1, q2}
    Counts <- MCCounts
    W = 3
INVARIANTS TypeOK AtMostW ContextAlive ResultsWhole CountIsSum
PROPERTY LevelsEnd
