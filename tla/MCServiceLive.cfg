\* Liveness: two clients of inbound 1, whose limit is one.
CONSTANTS
    c1 = c1
    c2 = c2
    c3 = c3
    N = 2
    Conns = {c1, c2}
    MaxConnections <- MCMax
    InboundOf <- MCInboundOf
    HasKboard = TRUE
SPECIFICATION Spec
PROPERTIES
    RunReturns
    RelaysAreCutOff
    EveryClientIsAnswered
