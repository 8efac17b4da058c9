\* A request sent twice: the second gives up the claim.
SPECIFICATION GenSpec
CONSTANTS
  alice = alice
  o1 = o1
  o2 = o2
  o3 = o3
  r1 = r1
  r2 = r2
  r3 = r3
  NULL = NULL
  Accounts = {alice}
  Ops = {o1, o3}
  Sweepers = {}
  Owner <- MCOwner
  MaxCharge <- MCMaxCharge
  InitialCredits <- MCInitialCredits
  Expiries = {NULL}
  InitialPeriods = {NULL}
  MaxTime = 0
  Requests = {r1, r2}
  CallerKey <- SharedKey
  Fresh = {o3}
  Faults = {}
  MaxErrors = 0
PROPERTIES
  RunningIsNotCancelled
CHECK_DEADLOCK FALSE
