SPECIFICATION Spec
CONSTANTS
    p1 = p1
    p2 = p2
    p3 = p3
    c1 = c1
    c2 = c2
    c3 = c3
    c4 = c4
    NoConn = NoConn
    Caller <- ThreeCallers
    Conn <- FourConns
    Cap = 2
    Cancels = TRUE
SYMMETRY Sym
INVARIANTS
    SlotsGivenBack
