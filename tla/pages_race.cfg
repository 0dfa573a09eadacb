SPECIFICATION Spec
CONSTANTS
    None = None
    Threads = {t1, t2}
    Segs = {cell0, cell1}
    First = cell0
    Capacity = 2
    CacheMax = 1
    MaxItems = 3
INVARIANT EmptyPageEmptySegment
CHECK_DEADLOCK FALSE
