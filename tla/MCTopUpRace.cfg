\* A cancellation between a top-up's eligibility check and its grant.
SPECIFICATION SubSpec
CONSTANTS
  alice = alice
  o1 = o1
  o2 = o2
  p1 = p1
  p2 = p2
  p3 = p3
  p4 = p4
  small = small
  NULL = NULL
  Accounts = {alice}
  Ops = {}
  Sweepers = {}
  Owner <- MCOwner
  MaxCharge <- MCMaxCharge
  InitialCredits <- MCInitialCredits
  Expiries = {NULL}
  InitialPeriods <- MCPeriods
  MaxTime = 2
  Orders = {p3}
  Buyer <- MCBuyer
  Sku <- MixedSku
  Packs = {small}
  PackCredits <- MCPackCredits
  PlanCredits <- MCPlanCredits
  InitialPlans = {"free", "pro"}
  Period = 1
  StaleAfter = 0
  Readers = {}
INVARIANTS
  FreeAccountsHoldTheirAllowance

CHECK_DEADLOCK FALSE
