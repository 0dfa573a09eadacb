SPECIFICATION FairSpec
CONSTANTS
    base = base
    step = step
    x = x
    y = y
    None = None
    Names = {base}
    StepNames = {}
    Sids <- MCSids
    Local <- MCLocalBase
    G = {g1, g2, g3}
    DsObjs = {d1}
    SegObjs = {o1, o2}
    Items = 1
    Queries = 1
    MaxCleans = 0
    Polite = FALSE
    Lossy = FALSE
PROPERTIES WaiterServed CopyEnds
CHECK_DEADLOCK FALSE
