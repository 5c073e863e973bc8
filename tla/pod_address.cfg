SPECIFICATION FairSpec
CONSTANTS
    Pod = {p1}
    IP = {ip1, ip2}
    Gone = Gone
    NoInstance = NoInstance
    NoCall = NoCall
    StaleAfter = 3
    Timeout = 2
    MaxMoves = 2
    MaxFaults = 0
    MaxLate = 1
PROPERTY AddressesConverge
