SPECIFICATION Spec
CONSTANTS
    base = base
    step = step
    x = x
    y = y
    None = None
    Names <- MCNames
    StepNames <- MCStepNames
    Sids = {x}
    Local <- MCLocalStep
    G = {g1, g2}
    DsObjs = {d1, d2, d3, d4}
    SegObjs = {o1, o2, o3}
    Items = 1
    Queries = 1
    MaxCleans = 2
    Polite = FALSE
    Lossy = FALSE
SYMMETRY Symm
INVARIANTS FinishedOnce SoleWriter OneDatasetPerName
PROPERTIES FinishedIsFinal ImplementsLatch
CHECK_DEADLOCK FALSE
