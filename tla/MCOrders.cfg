\* Orders, notifications and rollovers of one account.
SPECIFICATION SubSpec
CONSTANTS
  alice = alice
  o1 = o1
  o2 = o2
  p1 = p1
  p2 = p2
  p3 = p3
  p4 = p4
  small = small
  NULL = NULL
  Accounts = {alice}
  Ops = {}
  Sweepers = {}
  Owner <- MCOwner
  MaxCharge <- MCMaxCharge
  InitialCredits <- MCInitialCredits
  Expiries = {NULL}
  InitialPeriods <- MCPeriods
  MaxTime = 2
  Orders = {p1, p2, p3}
  Buyer <- MCBuyer
  Sku <- MixedSku
  Packs = {small}
  PackCredits <- MCPackCredits
  PlanCredits <- MCPlanCredits
  InitialPlans = {"free", "pro"}
  Period = 1
  StaleAfter = 0
  Readers = {r1, r2}
INVARIANTS
  GrantedOnce
  PaidTimeAddsUp
  RolloversDoNotStack
PROPERTIES
  SuccessIsFinal
CHECK_DEADLOCK FALSE
