SPECIFICATION Spec
CONSTANTS
    base = base
    step = step
    x = x
    y = y
    None = None
    Names <- MCNames
    StepNames <- MCStepNames
    Sids <- MCSids
    Local <- MCLocal
    G = {g1, g2, g3}
    DsObjs = {d1, d2}
    SegObjs = {o1, o2, o3, o4}
    Items = 1
    Queries = 2
    MaxCleans = 0
    Polite = FALSE
    Lossy = FALSE
SYMMETRY Symm
INVARIANT FinishedOnce
CHECK_DEADLOCK FALSE
