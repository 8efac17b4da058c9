\* A PRD generated twice with one key, resumed or revised, and acceptance criteria,
\* beside the marker, the steps and a deletion, with errors of the database.
SPECIFICATION FlowSpec
CONSTANTS
  alice = alice
  prd1 = prd1
  ac1 = ac1
  again = again
  g1 = g1
  g2 = g2
  a1 = a1
  NULL = NULL
  Accounts = {alice}
  Ops = {prd1, ac1, again}
  Sweepers = {}
  Owner <- MCOwner
  MaxCharge <- MCMaxCharge
  InitialCredits <- MCInitialCredits
  Expiries = {NULL}
  InitialPeriods = {0}
  MaxTime = 1
  Chats = {g1, g2}
  Modes <- MCModes
  ChatKey <- MCChatKey
  AcRequests = {a1}
  AcKey <- MCAcKey
  Fresh = {again}
  Faults = {"crash", "error"}
  MaxErrors = 2
INVARIANTS
  PaidForDocument
  HoldHasRequest
  TombstoneHasNoDocument
PROPERTIES
  StepNeverRewinds
CHECK_DEADLOCK FALSE
