SPECIFICATION Spec
CONSTANTS
    Executors = {e1, e2}
    Inspectors = {}
    Temps = {t1, t2}
    Statuses = {completed, interrupted}
    MaxEvents = 3
    PowerLossPossible = FALSE
    None = None
SYMMETRY ProcSymmetry
INVARIANTS FinalSealsLog Recoverable
PROPERTY ImplementsAttemptLog
CHECK_DEADLOCK FALSE
