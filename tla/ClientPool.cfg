\* Two workers that race on one profile, a reload that changes it and one that
\* changes it back or removes it; two connections: the one in use and its replacement,
\* or the two of a race of which one is not needed.
SPECIFICATION FairSpec
CONSTANTS
    Procs = {p1, p2}
    Names = {n}
    Settings = {s1, s2}
    Clients = {c1, c2}
    NoClient = NoClient
    Absent = Absent
    MaxReloads = 2
INVARIANTS
    NeverClosedInUse
    NothingLeaks
PROPERTIES
    RetiredCloses
CHECK_DEADLOCK FALSE
