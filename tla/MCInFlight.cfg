\* Two operations in flight across purchases, top-ups, rollovers and
\* cancellations; every settled order is answered.
SPECIFICATION FairSubSpec
CONSTANTS
  alice = alice
  o1 = o1
  o2 = o2
  p1 = p1
  p2 = p2
  p3 = p3
  p4 = p4
  small = small
  NULL = NULL
  Accounts = {alice}
  Ops = {o1, o2}
  Sweepers = {}
  Owner <- MCOwner
  MaxCharge <- MixedCharge
  InitialCredits <- MCInitialCredits
  Expiries = {NULL}
  InitialPeriods <- MCPeriods
  MaxTime = 1
  Orders = {p1, p3}
  Buyer <- MCBuyer
  Sku <- MixedSku
  Packs = {small}
  PackCredits <- MCPackCredits
  PlanCredits <- MCPlanCredits
  InitialPlans = {"free", "pro"}
  Period = 1
  StaleAfter = 0
  Readers = {1}
PROPERTIES
  OverdrawnOnlyByCancel
  SettledOrderIsResolved
CHECK_DEADLOCK FALSE
