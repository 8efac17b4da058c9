\* A request sent twice beside another one, without crashes.
SPECIFICATION FairGenSpec
CONSTANTS
  alice = alice
  o1 = o1
  o2 = o2
  o3 = o3
  r1 = r1
  r2 = r2
  r3 = r3
  NULL = NULL
  Accounts = {alice}
  Ops = {o1, o2, o3}
  Sweepers = {}
  Owner <- MCOwner
  MaxCharge <- MCMaxCharge
  InitialCredits <- MCInitialCredits
  Expiries = {NULL}
  InitialPeriods = {NULL}
  MaxTime = 0
  Requests = {r1, r2, r3}
  CallerKey <- SharedKey
  Fresh = {o3}
  Faults = {"abort"}
  MaxErrors = 0
INVARIANTS
  OneRunnerPerOperation
PROPERTIES
  HoldIsReturned
CHECK_DEADLOCK FALSE
