SPECIFICATION FairSpec
CONSTANTS
    Cells <- MCCells
    Budgeted <- MCPaid
    Cost <- MCPaidCost
    Cap = 2
    OtherHolds = {0, 1}
    Sessions = {s1, s2}
    MaxCrashes = 1
    MaxProbes = 3
    None = None
    Partial = Partial
PROPERTIES ImplementsTrialRegister EventuallyDecided
CHECK_DEADLOCK FALSE
