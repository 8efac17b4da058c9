\* A crash while an operation holds credit.
SPECIFICATION FairGenSpec
CONSTANTS
  alice = alice
  o1 = o1
  o2 = o2
  o3 = o3
  r1 = r1
  r2 = r2
  r3 = r3
  NULL = NULL
  Accounts = {alice}
  Ops = {o1}
  Sweepers = {}
  Owner <- MCOwner
  MaxCharge <- MCMaxCharge
  InitialCredits <- MCInitialCredits
  Expiries = {NULL}
  InitialPeriods = {NULL}
  MaxTime = 0
  Requests = {r1}
  CallerKey <- OwnKey
  Fresh = {}
  Faults = {"crash"}
  MaxErrors = 0
PROPERTIES
  HoldIsReturned
CHECK_DEADLOCK FALSE
