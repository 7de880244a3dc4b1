\* Three goroutines share at most two connections: a dial can fail while a
\* connection is established, while another dial is under way and while a third
\* goroutine sleeps.  No symmetry: the run checks liveness, too.
SPECIFICATION FairSpec
CONSTANTS
    Procs = {p1, p2, p3}
    Conns = {c1, c2, c3}
    NoConn = NoConn
    Limit = 2
    MaxCalls = 2
INVARIANTS
    SlotsAccounted
    Exclusive
    NoStrandedWaiter
    FailureWitnessed
PROPERTIES
    AcquireReturns
    ClosedPoolDrains
