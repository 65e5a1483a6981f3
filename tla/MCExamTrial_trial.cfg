SPECIFICATION FairTrialSpec
CONSTANTS
    Model = Model
    Fallback = Fallback
    MaxCalls = 2
    MaxMishaps = 1
    Trials <- MCTrials
INVARIANT AcceptedTrialsAreClean
PROPERTY TrialsEnd
CHECK_DEADLOCK FALSE
