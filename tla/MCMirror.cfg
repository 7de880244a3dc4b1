\* The mirror ends, so deadlock is not checked.
SPECIFICATION SpecMirror
CONSTANTS
    a = a  ax = ax  ai = ai
    Paths = {a, ax, ai}
    Root = Root
    Above <- AboveA
    Files <- SmallFiles
    Ignored = {ai}
    Now = 20
    Slack = 2
    Precision = 4
    MaxFaults = 1
    MaxEdits = 1
INVARIANTS QuietMeansEqual OrderSuffices
PROPERTIES IgnoredUntouched OnlyAbsentAreDeleted
CHECK_DEADLOCK FALSE
