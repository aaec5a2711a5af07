\* Safety: two clients compete for the one slot of inbound 1, a third one uses
\* inbound 2, every listener may fail, the caller may cancel at any time.
CONSTANTS
    c1 = c1
    c2 = c2
    c3 = c3
    N = 2
    Conns = {c1, c2, c3}
    MaxConnections <- MCMax
    InboundOf <- MCInboundOf
    HasKboard = TRUE
SPECIFICATION Spec
INVARIANTS
    TypeOK
    ConnectionLimit
    MetricsAccount
    WaitIsNeverStuck
    NothingRunsAfterReturn
    ResultNamesTheCause
PROPERTY
    NoAddDuringWait
