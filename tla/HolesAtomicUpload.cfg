\* A large file over SFTP: an attempt that fails half-way and the next one.
SPECIFICATION Spec
CONSTANTS
    Uploaders = {u1}
    Blocks = 2
    Kinds = {"sftp"}
    MaxAttempts = 2
    MaxEdits = 0
    MaxFaults = 1
INVARIANT InstalledComplete
CHECK_DEADLOCK FALSE
