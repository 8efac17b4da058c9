\* The marker between whose reads and UPDATE the first PRD is stored.
SPECIFICATION FlowSpec
CONSTANTS
  alice = alice
  prd1 = prd1
  ac1 = ac1
  again = again
  g1 = g1
  g2 = g2
  a1 = a1
  NULL = NULL
  Accounts = {alice}
  Ops = {prd1, ac1, again}
  Sweepers = {}
  Owner <- MCOwner
  MaxCharge <- MCMaxCharge
  InitialCredits <- MCInitialCredits
  Expiries = {NULL}
  InitialPeriods = {0}
  MaxTime = 1
  Chats = {g1, g2}
  Modes <- MCModes
  ChatKey <- MCChatKey
  AcRequests = {a1}
  AcKey <- MCAcKey
  Fresh = {again}
  Faults = {}
  MaxErrors = 0
INVARIANT
  StepCoversPrd
CHECK_DEADLOCK FALSE
