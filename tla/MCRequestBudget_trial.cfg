SPECIFICATION Spec
CONSTANTS
    Mechanisms <- MCMechanisms
    Million = 4
    Excess = 1
    None = None
INVARIANTS
    BilledWithinMaximum
    RequestsAreCommitted
    SettlementCoversBill
    VerifierAccepts
CHECK_DEADLOCK FALSE
