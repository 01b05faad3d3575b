SPECIFICATION FairSpec
CONSTANTS
    p1 = p1
    p2 = p2
    p3 = p3
    c1 = c1
    c2 = c2
    c3 = c3
    c4 = c4
    NoConn = NoConn
    Caller <- TwoCallers
    Conn <- ThreeConns
    Cap = 1
    Cancels = TRUE
INVARIANTS
    SlotsCovered
    OneOwner
    HandedOutReady
PROPERTIES
    SleeperWoken
