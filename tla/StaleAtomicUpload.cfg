\* Expected to be violated: an attempt fails half-way, the file is saved with a
\* time that is not after that of the partial file, and the next attempt
\* continues it.
SPECIFICATION Spec
CONSTANTS
    Uploaders = {u1}
    Blocks = 2
    Kinds = {"ftp"}
    MaxAttempts = 2
    MaxEdits = 1
    MaxFaults = 1
INVARIANT ContinuesCurrent
CHECK_DEADLOCK FALSE
