\* Two workers, a file and its directory, so that a task is parked while its
\* file is in flight and a directory is removed under an upload.  Two edits: a
\* change during a sync, or a deletion and a new file.  Two attempts: one that
\* is retried and the last one.  The context directory goes and comes back.
SPECIFICATION Spec
CONSTANTS
    Root = Root
    Files = {f}
    Dirs = {Root}
    Parent <- AllInRoot
    Ignored = {}
    Workers = {w1, w2}
    NoKey = NoKey
    Capacity = 1
    MaxRetries = 2
    MaxEdits = 2
    MaxMoves = 2
    MaxReloads = 1
SYMMETRY Symmetry
INVARIANTS
    SettledIsSynced
    OnlyDeletedFilesAreRemoved
PROPERTIES
    ImplementsGate
