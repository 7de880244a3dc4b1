\* Expected to be violated: the context directory comes back between the two
\* looks of a worker at a file that changed before it went away.
SPECIFICATION Spec
CONSTANTS
    Root = Root
    Files = {f}
    Dirs = {Root}
    Parent <- AllInRoot
    Ignored = {}
    Workers = {w1, w2}
    NoKey = NoKey
    Capacity = 1
    MaxRetries = 2
    MaxEdits = 1
    MaxMoves = 2
    MaxReloads = 1
INVARIANT NeverMirrored
