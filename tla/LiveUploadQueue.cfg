\* No symmetry under liveness: one file, two workers that contend for it.
SPECIFICATION FairSpec
CONSTANTS
    Root = Root
    Files = {f}
    Dirs = {Root}
    Parent <- AllInRoot
    Ignored = {}
    Workers = {w1, w2}
    NoKey = NoKey
    Capacity = 1
    MaxRetries = 2
    MaxEdits = 2
    MaxMoves = 0
    MaxReloads = 0
PROPERTIES
    ChangesAnswered
    StopReturns
