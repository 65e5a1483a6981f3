SPECIFICATION FairSpec
CONSTANTS
    Files = {script}
    Limit = 1
    Timeout = 1
    MaxChunks <- MCMaxChunks
    MaxTime = 3
    Descendants <- MCDescendants
    None = None
    PerUnit = 4
    Never = Never
    Deals <- MCDeals
    Distortions <- MCDistortions
INVARIANTS ReportIsExact NoSurvivors ApprovalIsEarned
PROPERTY Returns
CHECK_DEADLOCK FALSE
