SPECIFICATION Spec
CONSTANTS
    Cells <- MCCells
    Budgeted <- MCMixed
    Cost <- MCMixedCost
    Cap = 2
    OtherHolds = {0, 1}
    Sessions = {s1, s2, s3}
    MaxCrashes = 2
    MaxProbes = 3
    None = None
    Partial = Partial
SYMMETRY SessionSymmetry
INVARIANTS
    AbandonedNeverRuns
    CommittedBeforeCall
    CellStopsAtFailure
    ManifestIsSound
    ResumeReproduces
    ManifestStaysTrue
CHECK_DEADLOCK FALSE
