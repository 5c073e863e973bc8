SPECIFICATION FairSpec
CONSTANTS
    Stream = {s1, s2}
    Node = {n1}
    NoNode = NoNode
    NoEntry = NoEntry
    WordModulus <- SmallWord
    Second = 5
    maxBackoff = 30
    MaxFailures <- BeforeOverflow
INVARIANTS
    TypeOK
    GaugeFollowsTable
    BackoffAsDocumented
    NilMeansDrained
PROPERTIES
    NodeIDSticks
    DeadServerEndsRun
    DrainsOnceEnvoysLeave
CHECK_DEADLOCK FALSE
