\* One uploader at a time, as the queue guarantees within the daemon; three
\* blocks, so that a partial file has a hole or stops early; four attempts of
\* which three may fail; two edits.  The attempts end at their bound.
SPECIFICATION Spec
CONSTANTS
    Uploaders = {u1}
    Blocks = 3
    Kinds = {"sftp", "ftp"}
    MaxAttempts = 4
    MaxEdits = 2
    MaxFaults = 3
INVARIANTS
    InstalledWhole
    NeverTruncated
    UndisturbedSucceeds
PROPERTIES
    ImplementsReplace
CHECK_DEADLOCK FALSE
