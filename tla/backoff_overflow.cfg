SPECIFICATION FairSpec
CONSTANTS
    Stream = {s1}
    Node = {n1}
    NoNode = NoNode
    NoEntry = NoEntry
    WordModulus <- SmallWord
    Second = 5
    maxBackoff = 30
    MaxFailures <- AtOverflow
INVARIANT BackoffAsDocumented
CHECK_DEADLOCK FALSE
