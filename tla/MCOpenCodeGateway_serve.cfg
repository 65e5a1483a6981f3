SPECIFICATION FairSpec
CONSTANTS
    Handlers = {h1, h2}
    Bodies <- MCBodies
    Conforming <- MCConforming
    Names = {n1}
    Args = {x, y}
    MaxToolCalls = 2
    MaxParallel = 2
    None = None
INVARIANTS SuccessIsAccounted LookupsAsAsked
PROPERTIES ClosedIsQuiet Closes
CHECK_DEADLOCK FALSE
