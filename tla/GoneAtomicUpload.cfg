\* Expected to be violated: a server that replaces files refuses the rename of
\* the second attempt for some other reason; the attempt removes the destination
\* and fails before or in the second rename.
SPECIFICATION Spec
CONSTANTS
    Uploaders = {u1}
    Blocks = 1
    Kinds = {"ftp"}
    MaxAttempts = 2
    MaxEdits = 0
    MaxFaults = 2
INVARIANT MissingBriefly
CHECK_DEADLOCK FALSE
