\* Cancelling a free account.
SPECIFICATION SubSpec
CONSTANTS
  alice = alice
  o1 = o1
  o2 = o2
  p1 = p1
  p2 = p2
  p3 = p3
  p4 = p4
  small = small
  NULL = NULL
  Accounts = {alice}
  Ops = {o1}
  Sweepers = {}
  Owner <- MCOwner
  MaxCharge <- MCMaxCharge
  InitialCredits <- MCInitialCredits
  Expiries = {NULL}
  InitialPeriods <- MCPeriods
  MaxTime = 2
  Orders = {}
  Buyer <- MCBuyer
  Sku <- MixedSku
  Packs = {small}
  PackCredits <- MCPackCredits
  PlanCredits <- MCPlanCredits
  InitialPlans = {"free"}
  Period = 1
  StaleAfter = 0
  Readers = {1}
PROPERTIES
  FreeBalanceIsMonthly

CHECK_DEADLOCK FALSE
