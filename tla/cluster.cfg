SPECIFICATION Spec
CONSTANTS
    p1 = p1
    p2 = p2
    Peers = {p1, p2}
    Hosts <- MCHosts
    Items <- MCItems
    Scripts <- MCScripts
    IdRange = 256
    MaxCmds = 5
INVARIANTS TypeOK PlaceIsHome
PROPERTIES LoadEnds
CHECK_DEADLOCK FALSE
