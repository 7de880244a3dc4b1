\* Two profiles, so that a new one takes over a part of the other's tree;
\* three changes: a directory is made, a file written in it while it is walked,
\* and written again or removed.  The user stops at the bounds.
SPECIFICATION SpecWatcher
CONSTANTS
    a = a  b = b  Root = Root  Inner = Inner  New = New  File = File
    Profiles = {a, b}
    Context <- TwoContexts
    Dirs = {Root, Inner, New}
    Files = {File}
    Above <- Nested
    Ignorable = {New}
    MaxChanges = 3
    MaxIgnores = 1
    MaxReloads = 3
INVARIANTS
    NothingMissed
CHECK_DEADLOCK FALSE
