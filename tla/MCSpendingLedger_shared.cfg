SPECIFICATION Spec
CONSTANTS
  e1 = e1
  e2 = e2
  r1 = r1
  r2 = r2
  a1 = a1
  b1 = b1
  v1 = v1
  L1 = L1
  None = None
  Executors <- MCExecutors
  ReservationIds <- MCReservations
  Accounts <- MCAccounts
  Bindings <- MCBindings
  Evidence <- MCEvidence
  LedgerIds <- MCLedgerIds
  Caps <- MCCaps
  Amounts <- MCAmounts
  FundingKinds <- MCBoth
  Balances <- MCBalances
  ReconcileEarly = FALSE
SYMMETRY MCSymmetry
INVARIANTS CapRespected FreshReceiptUnique CreditCovered InspectorAccepts
PROPERTIES CommitmentsKept ImplementsSharedCap
CHECK_DEADLOCK FALSE
