\* A reload of the configuration while a worker dials.
SPECIFICATION Spec
CONSTANTS
    Procs = {p1}
    Names = {n}
    Settings = {s1, s2}
    Clients = {c1, c2}
    NoClient = NoClient
    Absent = Absent
    MaxReloads = 1
INVARIANT OfferedIsCurrent
CHECK_DEADLOCK FALSE
