\* A paid plan order that a later checkout gave up.
SPECIFICATION FairSubSpec
CONSTANTS
  alice = alice
  o1 = o1
  o2 = o2
  p1 = p1
  p2 = p2
  p3 = p3
  p4 = p4
  small = small
  NULL = NULL
  Accounts = {alice}
  Ops = {}
  Sweepers = {}
  Owner <- MCOwner
  MaxCharge <- MCMaxCharge
  InitialCredits <- MCInitialCredits
  Expiries = {NULL}
  InitialPeriods <- MCPeriods
  MaxTime = 2
  Orders = {p1, p2}
  Buyer <- MCBuyer
  Sku <- MixedSku
  Packs = {small}
  PackCredits <- MCPackCredits
  PlanCredits <- MCPlanCredits
  InitialPlans = {"free"}
  Period = 1
  StaleAfter = 0
  Readers = {}
PROPERTIES
  PaidPlanOrderIsGranted

CHECK_DEADLOCK FALSE
