SPECIFICATION FairSpec
CONSTANTS
    Pod = {p1, p2}
    IP = {ip1}
    Gone = Gone
    NoInstance = NoInstance
    NoCall = NoCall
    StaleAfter = 3
    Timeout = 2
    MaxMoves = 2
    MaxFaults = 3
    MaxLate = 1
INVARIANTS
    TypeOK
    NothingForgotten
PROPERTIES
    DiscoveryConverges
    ScaleDownReflected
