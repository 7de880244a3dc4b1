\* Two profiles, one by rclone and one by sshfs, and two terminals.
SPECIFICATION Spec
CONSTANTS
    Names = {site, shop}
    Rclone = {site}
    Commands = {c1, c2}
    MaxCommands = 3
    MaxFaults = 1
    MaxEdits = 1
INVARIANTS
    RemoteKept
    NothingLeftBehind
PROPERTIES
    ToldTrue
CHECK_DEADLOCK FALSE
