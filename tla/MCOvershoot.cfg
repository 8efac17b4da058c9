\* Top-ups that were given up and paid all the same.
SPECIFICATION SubSpec
CONSTANTS
  alice = alice
  o1 = o1
  o2 = o2
  p1 = p1
  p2 = p2
  p3 = p3
  p4 = p4
  small = small
  NULL = NULL
  Accounts = {alice}
  Ops = {}
  Sweepers = {}
  Owner <- MCOwner
  MaxCharge <- MCMaxCharge
  InitialCredits <- MCInitialCredits
  Expiries = {NULL}
  InitialPeriods <- TopUpPeriods
  MaxTime = 2
  Orders = {p1, p2, p3}
  Buyer <- MCBuyer
  Sku <- TopUpSku
  Packs = {small}
  PackCredits <- TopUpPackCredits
  PlanCredits <- MCPlanCredits
  InitialPlans = {"pro"}
  Period = 1
  StaleAfter = 0
  Readers = {}
INVARIANTS
  OvershootIsOnePackage

CHECK_DEADLOCK FALSE
