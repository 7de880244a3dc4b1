\* Two callers share one client of each kind of protocol and two connections.
SPECIFICATION Spec
CONSTANTS
    Callers = {c1, c2}
    NoCaller = nobody
    Sessions = {s1, s2}
    NoSession = none
    Depth = 2
    MaxCalls = 3
    MaxFaults = 1
    MaxTries = 1
    MaxLarge = 2
    Short = 1
    Long = 2
INVARIANTS
    MadeOrExcused
    IdleIsClean
    OutOfStepOnlyWhenOverlooked
    DeadlineIsLatest
PROPERTY
    CallsReturn
CHECK_DEADLOCK FALSE
