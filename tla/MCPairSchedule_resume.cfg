SPECIFICATION FairSpec
CONSTANTS
    Repeats = 2
    MaxTroubles = 3
    None = None
    Started = Started
    Partial = Partial
INVARIANT SuccessIsWhole
PROPERTIES CallsAreFresh ImplementsTrialRegister EventuallySettled
