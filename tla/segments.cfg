SPECIFICATION Spec
CONSTANTS
    base = base
    step = step
    x = x
    y = y
    None = None
    Names <- MCNames
    StepNames <- MCStepNames
    Sids <- MCSids
    Local <- MCLocal
    G = {g1, g2}
    DsObjs = {d1, d2, d3}
    SegObjs = {o1, o2, o3, o4, o5}
    Items = 1
    Queries = 1
    MaxCleans = 1
    Polite = TRUE
    Lossy = TRUE
SYMMETRY Symm
INVARIANTS TypeOK CompleteIsWhole NoUseAfterFree CopiedHasHistogram
CHECK_DEADLOCK FALSE
