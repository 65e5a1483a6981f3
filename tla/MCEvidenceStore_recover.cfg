SPECIFICATION Spec
CONSTANTS
    Executors = {e1}
    Inspectors = {i1}
    Temps = {t1, t2}
    Statuses = {completed}
    MaxEvents = 3
    PowerLossPossible = TRUE
    None = None
SYMMETRY ProcSymmetry
INVARIANT AckedSurvives
CHECK_DEADLOCK FALSE
