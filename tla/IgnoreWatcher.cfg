\* One profile whose .syncignore may cover a directory and stop covering it.
SPECIFICATION SpecWatcher
CONSTANTS
    a = a  b = b  Root = Root  Inner = Inner  New = New  File = File
    Profiles = {a}
    Context <- OneContext
    Dirs = {Root, New}
    Files = {File}
    Above <- Flat
    Ignorable = {New}
    MaxChanges = 2
    MaxIgnores = 1
    MaxReloads = 1
INVARIANT LivePatterns
CHECK_DEADLOCK FALSE
