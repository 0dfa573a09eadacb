SPECIFICATION FairSpec
CONSTANTS
    q1 = q1
    q2 = q2
    Queries = {q1, q2}
    Counts <- MCTwo
    W = 2
PROPERTY LevelsEnd
CHECK_DEADLOCK FALSE
