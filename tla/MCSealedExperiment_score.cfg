SPECIFICATION SealedSpec
CONSTANTS
    Experiments <- MCExperiments
    Primary = 2
    Foreign = 3
    MaxRows = 1
    MaxLies = 1
    PerUnit = 4
    None = None
    Never = Never
    o1 = o1
    o2 = o2
    o3 = o3
    r1 = r1
    r2 = r2
INVARIANTS ReadinessIsTruthful HonestProbesPass ScoresAreEarned
PROPERTY SealedIsScored
CHECK_DEADLOCK FALSE
