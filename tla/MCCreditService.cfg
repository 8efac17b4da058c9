\* Competing reservations of one account beside another account, with two
\* overlapping reconcilers that may stop between any two transactions.
SPECIFICATION Spec
CONSTANTS
  alice = alice
  bob = bob
  o1 = o1
  o2 = o2
  o3 = o3
  s1 = s1
  s2 = s2
  NULL = NULL
  Accounts = {alice, bob}
  Ops = {o1, o2, o3}
  Sweepers = {s1, s2}
  Owner <- MCOwner
  MaxCharge <- MCMaxCharge
  InitialCredits <- MCInitialCredits
  Expiries <- MCExpiries
  InitialPeriods <- MCPeriods
  MaxTime = 1
INVARIANTS
  ReservedIsHeld
  LedgerExplains
PROPERTIES
  ImplementsWallet
CHECK_DEADLOCK FALSE
