\* A request sent twice beside another, aborted and crashed at will, each
\* statement of which may meet an error, while the period runs out.
SPECIFICATION FairGenSpec
CONSTANTS
  alice = alice
  o1 = o1
  o2 = o2
  o3 = o3
  r1 = r1
  r2 = r2
  r3 = r3
  NULL = NULL
  Accounts = {alice}
  Ops = {o1, o2, o3}
  Sweepers = {}
  Owner <- MCOwner
  MaxCharge <- MCMaxCharge
  InitialCredits <- MCInitialCredits
  Expiries = {NULL}
  InitialPeriods = {0}
  MaxTime = 1
  Requests = {r1, r2, r3}
  CallerKey <- SharedKey
  Fresh = {o3}
  Faults = {"abort", "crash", "error"}
  MaxErrors = 1
INVARIANTS
  OneGenerator
  EndedIsSquare
PROPERTIES
  HoldEnds
CHECK_DEADLOCK FALSE
