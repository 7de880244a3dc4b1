\* An operation whose look-up times out, and what comes after it.
SPECIFICATION Spec
CONSTANTS
    Callers = {c1, c2}
    NoCaller = nobody
    Sessions = {s1, s2}
    NoSession = none
    Depth = 2
    MaxCalls = 3
    MaxFaults = 1
    MaxTries = 1
    MaxLarge = 2
    Short = 1
    Long = 2
INVARIANT IdleInStep
CHECK_DEADLOCK FALSE
