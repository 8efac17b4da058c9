\* Three triggers of a project that shares its upload or of one that owns it,
\* with expiry, revocation, crashes, errors of the database and a period that
\* runs out.
SPECIFICATION FairAnaSpec
CONSTANTS
  alice = alice
  o1 = o1
  o2 = o2
  o3 = o3
  o4 = o4
  project = project
  upload = upload
  t1 = t1
  t2 = t2
  t3 = t3
  NULL = NULL
  Accounts = {alice}
  Ops = {o1, o2, o3, o4}
  Sweepers = {}
  Owner <- MCOwner
  MaxCharge <- MCMaxCharge
  InitialCredits <- MCInitialCredits
  Expiries = {NULL}
  InitialPeriods = {0}
  MaxTime = 1
  Projects = {project}
  Uploads = {upload}
  UploadOf <- MCUploadOf
  Triggers = {t1, t2, t3}
  KeyOf <- MCKeyOf
  Fresh = {o4}
  Faults = {"crash", "error"}
  MaxErrors = 1
INVARIANTS
  OnePending
  ChargeHasResult
  EndedHoldsNothing
  AnalyzingHasOwner
PROPERTIES
  ClaimEnds
CHECK_DEADLOCK FALSE
