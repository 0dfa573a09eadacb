SPECIFICATION FairSpec
CONSTANTS
    A = A
    B = B
    C = C
    x = x
    y = y
    z = z
    peer1 = peer1
    peer2 = peer2
    Peers = {peer1, peer2}
    Levels = 2
    Datasets = {A, B, C}
    Cells = {x, y}
    Plans <- NoJobAtLevel0
    NetCap = 1
    ToCopyCap = 1
    CopyCap = 1
    CompareCap = 1
    SignalCap = 1
PROPERTY JoinAnswers
CHECK_DEADLOCK FALSE
