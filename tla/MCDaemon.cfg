SPECIFICATION Spec
CONSTANTS
    Texts <- MCTexts
    MaxSaves = 2
    MaxFiles = 1
    MaxFaults = 1
    Attempts = 2
INVARIANTS
    OnlyCompleteInForce
    WatchedAsConfigured
    AppliedTogether
    NothingUnasked
    QuietMeansLoaded
CHECK_DEADLOCK FALSE
