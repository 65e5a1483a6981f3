SPECIFICATION Spec
CONSTANTS
    Cells <- MCCells
    Budgeted <- MCPaid
    Cost <- MCPaidCost
    Cap = 3
    OtherHolds = {0}
    Sessions = {s1, s2, s3}
    MaxCrashes = 1
    MaxProbes = 3
    None = None
    Partial = Partial
SYMMETRY SessionSymmetry
INVARIANT InterruptedSegmentsResume
CHECK_DEADLOCK FALSE
