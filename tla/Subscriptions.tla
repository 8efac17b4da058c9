----------------------------- MODULE Subscriptions -----------------------------
(***************************************************************************)
(* Subscriptions and payments beside the credit service: checkout          *)
(* (routes/api/payments/create.ts), the Midtrans webhook and the status    *)
(* sync (webhook.ts, actions/payment.ts), the grants of payment-service.ts *)
(* the monthly refresh of free accounts (credits.ts), cancellation, and    *)
(* time.  They write the subscription row the credit transactions of       *)
(* CreditService read and write: plan and period here, counters there.     *)
(*                                                                         *)
(* Every account has its one row (the sign-up hook inserts it).  Its       *)
(* status column is always "active", and cancelled_at is set exactly when  *)
(* plan becomes "free" and cleared by a purchase, so neither is kept.      *)
(***************************************************************************)
EXTENDS CreditService

CONSTANTS
  Orders,       \* order ids, one per checkout request
  Buyer,        \* the account that checks the order out
  Sku,          \* what is bought: a paid plan or a top-up package
  Packs,        \* TOPUP_PACKAGES
  PackCredits,  \* credits of each package
  PlanCredits,  \* PLAN_CREDITS
  InitialPlans, \* plans the behaviour starts from
  Period,       \* BILLING_PERIOD_DAYS
  StaleAfter,   \* age at which checkout gives a pending order up (5 minutes)
  Readers       \* concurrent callers of getCreditBalance

PaidPlans == {"pro", "hengker"}
Plans == PaidPlans \cup {"free"}

ASSUME SubscriptionAssumption ==
  /\ Buyer \in [Orders -> Accounts]
  /\ Sku \in [Orders -> PaidPlans \cup Packs]
  /\ Packs \cap Plans = {}
  /\ PackCredits \in [Packs -> Nat \ {0}]
  /\ PlanCredits \in [Plans -> Nat \ {0}]
  /\ InitialPlans \subseteq Plans
  /\ Period \in Nat \ {0}
  /\ StaleAfter \in Nat

VARIABLES
  plan,         \* subscriptions.plan
  periodStart,  \* subscriptions.currentPeriodStart
  payment,      \* payments: status and createdAt of each order
  checkout,     \* where the request that creates the order is
  gateway,      \* the order at Midtrans
  granting,     \* top-up orders whose grant has read the subscription row
  reader,       \* the row a caller of rollOverFreeIfNeeded found due, and when
  grants,       \* grant entries the ledger has for each order
  term,         \* plan orders granted since the account last cancelled
  rollovers     \* free_rollover entries the ledger has for each account

subVars == <<plan, periodStart, payment, checkout, gateway, granting, reader,
             grants, term, rollovers>>
allVars == <<creditVars, subVars>>

Statuses == {"none", "pending", "failed", "success"}
Times == Nat \cup {NULL}

\* The columns of the subscription and of payments have their types, and so do the
\* order at Midtrans and the requests in progress.
SubTypeOK ==
  /\ TypeOK
  /\ plan \in [Accounts -> Plans]
  /\ periodStart \in [Accounts -> Times]
  /\ payment \in [Orders -> [status : Statuses, createdAt : Nat]]
  /\ checkout \in [Orders -> {"new", "checked", "created", "done", "refused"}]
  /\ gateway \in [Orders -> {"none", "open", "paid", "closed", "reversed"}]
  /\ granting \in SUBSET Orders
  /\ reader \in [Readers -> [account : Accounts, at : Nat] \cup {NULL}]
  /\ grants \in [Orders -> Nat]
  /\ term \in [Accounts -> SUBSET Orders]
  /\ rollovers \in [Accounts -> Nat]
  /\ \A p \in Orders :
       payment[p].status = "none" <=> checkout[p] \in {"new", "checked"}

SubInit ==
  /\ Init
  /\ plan \in [Accounts -> InitialPlans]
  /\ periodStart = [a \in Accounts |-> IF periodEnd[a] = NULL THEN NULL ELSE 0]
  /\ payment = [p \in Orders |-> [status |-> "none", createdAt |-> 0]]
  /\ checkout = [p \in Orders |-> "new"]
  /\ gateway = [p \in Orders |-> "none"]
  /\ granting = {}
  /\ reader = [r \in Readers |-> NULL]
  /\ grants = [p \in Orders |-> 0]
  /\ term = [a \in Accounts |-> {}]
  /\ rollovers = [a \in Accounts |-> 0]

-----------------------------------------------------------------------------
(* billing.ts: what a subscription row means at this moment.               *)

IsTopUp(p) == Sku[p] \in Packs

CanPurchaseTopUp(a) == plan[a] \in PaidPlans /\ ValidPeriod(a)

RolloverDue(a, at) == periodEnd[a] # NULL => periodEnd[a] < at

(* Faulty: what is left of a running period is lost.                       *)
RenewFromNow(a) == now + Period

(* Period end of a purchase: an early renewal extends a running period.    *)
PurchaseEnd(a) ==
  Period + IF periodEnd[a] # NULL /\ ValidPeriod(a) THEN periodEnd[a] ELSE now

(* Top-up credits of the orders of the running period in these statuses.   *)
InPeriod(p) ==
  LET a == Buyer[p] IN
  periodEnd[a] # NULL
    /\ payment[p].createdAt >= periodStart[a] /\ payment[p].createdAt <= periodEnd[a]

TopUpCredits(a, statuses) ==
  LET counted == {p \in Orders : /\ Buyer[p] = a /\ IsTopUp(p) /\ InPeriod(p)
                                 /\ payment[p].status \in statuses}
  IN Cardinality(UNION {{p} \X (1 .. PackCredits[Sku[p]]) : p \in counted})

WithinQuota(p, statuses) ==
  LET a == Buyer[p] IN
  periodEnd[a] # NULL =>
    PlanCredits[plan[a]] - TopUpCredits(a, statuses) >= PackCredits[Sku[p]]

-----------------------------------------------------------------------------
(* Checkout: the gates and the clean-up of stale pending orders; then the  *)
(* order row, for a top-up in a transaction that locks the subscription;   *)
(* then the call to Midtrans, which may fail.                              *)

StaleOrders(a) ==
  {p \in Orders : /\ Buyer[p] = a /\ payment[p].status = "pending"
                  /\ payment[p].createdAt + StaleAfter < now}

CheckoutStart(p) ==
  /\ checkout[p] = "new"
  /\ IsTopUp(p) => CanPurchaseTopUp(Buyer[p]) /\ WithinQuota(p, {"success"})
  /\ StaleOrders(Buyer[p]) \cap granting = {}  \* the UPDATE waits for their locks
  /\ payment' = [q \in Orders |-> IF q \in StaleOrders(Buyer[p])
                   THEN [payment[q] EXCEPT !.status = "failed"] ELSE payment[q]]
  /\ checkout' = [checkout EXCEPT ![p] = "checked"]
  /\ UNCHANGED <<creditVars, plan, periodStart, gateway, granting, reader,
                 grants, term, rollovers>>

CheckoutInsert(p) ==
  /\ checkout[p] = "checked"
  /\ IsTopUp(p) => /\ CanPurchaseTopUp(Buyer[p])
                   /\ WithinQuota(p, {"pending", "success"})
  /\ payment' = [payment EXCEPT ![p] = [status |-> "pending", createdAt |-> now]]
  /\ checkout' = [checkout EXCEPT ![p] = "created"]
  /\ UNCHANGED <<creditVars, plan, periodStart, gateway, granting, reader,
                 grants, term, rollovers>>

CheckoutDone(p) ==
  /\ checkout[p] = "created"
  /\ checkout' = [checkout EXCEPT ![p] = "done"]
  /\ gateway' = [gateway EXCEPT ![p] = "open"]
  /\ UNCHANGED <<creditVars, plan, periodStart, payment, granting, reader,
                 grants, term, rollovers>>

(* The call failed; Midtrans may have the order all the same.              *)
CheckoutRefused(p) ==
  /\ checkout[p] = "created"
  /\ checkout' = [checkout EXCEPT ![p] = "refused"]
  /\ payment' = [payment EXCEPT ![p].status = "failed"]
  /\ \E held \in {"none", "open"} : gateway' = [gateway EXCEPT ![p] = held]
  /\ UNCHANGED <<creditVars, plan, periodStart, granting, reader, grants, term,
                 rollovers>>

(* Midtrans: the customer, who has the payment page, pays; an order that   *)
(* is open, or captured and under fraud review, expires or is denied; a    *)
(* paid one is refunded or charged back.                                   *)
GatewayMoves(p) ==
  /\ \/ gateway[p] = "open" /\ checkout[p] = "done"
        /\ gateway' = [gateway EXCEPT ![p] = "paid"]
     \/ gateway[p] = "open" /\ gateway' = [gateway EXCEPT ![p] = "closed"]
     \/ gateway[p] = "paid" /\ gateway' = [gateway EXCEPT ![p] = "reversed"]
  /\ UNCHANGED <<creditVars, plan, periodStart, payment, checkout, granting,
                 reader, grants, term, rollovers>>

-----------------------------------------------------------------------------
(* The grants.  Notifications of a settlement arrive late, again and in    *)
(* any order, and the customer's status sync makes the same call.          *)

Settled(p) == gateway[p] \in {"paid", "reversed"}

Grant(p) ==
  /\ payment' = [payment EXCEPT ![p].status = "success"]
  /\ grants' = [grants EXCEPT ![p] = @ + 1]

(* Faulty: looks at nothing but the settlement.                            *)
ApplyPaymentAgain(p) ==
  LET a == Buyer[p] IN
  /\ Settled(p) /\ ~IsTopUp(p) /\ grants[p] < 2
  /\ wallet' = [wallet EXCEPT ![a] =
       [credits |-> PlanCredits[Sku[p]], used |-> 0, reserved |-> 0]]
  /\ plan' = [plan EXCEPT ![a] = Sku[p]]
  /\ periodStart' = [periodStart EXCEPT ![a] = now]
  /\ periodEnd' = [periodEnd EXCEPT ![a] = PurchaseEnd(a)]
  /\ term' = [term EXCEPT ![a] = @ \cup {p}]
  /\ Grant(p)
  /\ UNCHANGED <<now, op, ledger, sweep, checkout, gateway, granting, reader,
                 rollovers>>

(* applyPaymentSuccess: sets plan, period and credits, under both locks.   *)
ApplyPayment(p) ==
  LET a == Buyer[p] IN
  /\ Settled(p) /\ ~IsTopUp(p)
  /\ payment[p].status = "pending"
  /\ wallet' = [wallet EXCEPT ![a] =
       [credits |-> PlanCredits[Sku[p]], used |-> 0, reserved |-> 0]]
  /\ plan' = [plan EXCEPT ![a] = Sku[p]]
  /\ periodStart' = [periodStart EXCEPT ![a] = now]
  /\ periodEnd' = [periodEnd EXCEPT ![a] = PurchaseEnd(a)]
  /\ term' = [term EXCEPT ![a] = @ \cup {p}]
  /\ Grant(p)
  /\ UNCHANGED <<now, op, ledger, sweep, checkout, gateway, granting, reader,
                 rollovers>>

(* Faulty: leaves an order that is no longer eligible pending.             *)
TopUpReadKeeps(p) ==
  /\ Settled(p) /\ IsTopUp(p) /\ p \notin granting
  /\ payment[p].status \in {"pending", "failed"}
  /\ CanPurchaseTopUp(Buyer[p])
  /\ granting' = granting \cup {p}
  /\ UNCHANGED <<creditVars, plan, periodStart, payment, checkout, gateway, reader,
                 grants, term, rollovers>>

(* applyTopUpSuccess up to its read of the subscription row, which takes   *)
(* no lock: an order that is no longer eligible ends here.                 *)
TopUpRead(p) ==
  /\ Settled(p) /\ IsTopUp(p) /\ p \notin granting
  /\ payment[p].status \in {"pending", "failed"}
  /\ IF CanPurchaseTopUp(Buyer[p])
       THEN granting' = granting \cup {p} /\ UNCHANGED payment
       ELSE /\ payment' = [payment EXCEPT ![p].status = "failed"]
            /\ UNCHANGED granting
  /\ UNCHANGED <<creditVars, plan, periodStart, checkout, gateway, reader,
                 grants, term, rollovers>>

TopUpWrite(p) ==
  /\ p \in granting
  /\ wallet' = [wallet EXCEPT ![Buyer[p]].credits = @ + PackCredits[Sku[p]]]
  /\ Grant(p)
  /\ granting' = granting \ {p}
  /\ UNCHANGED <<now, periodEnd, op, ledger, sweep, plan, periodStart, checkout,
                 gateway, reader, term, rollovers>>

(* The server stops in the middle: the transaction is rolled back.         *)
TopUpLost(p) ==
  /\ p \in granting
  /\ granting' = granting \ {p}
  /\ UNCHANGED <<creditVars, plan, periodStart, payment, checkout, gateway,
                 reader, grants, term, rollovers>>

(* A notification that the order was closed or reversed.                   *)
CloseAny(p) ==
  /\ gateway[p] \in {"closed", "reversed"}
  /\ payment[p].status # "none" /\ p \notin granting
  /\ payment' = [payment EXCEPT ![p].status = "failed"]
  /\ UNCHANGED <<creditVars, plan, periodStart, checkout, gateway, granting,
                 reader, grants, term, rollovers>>

NotifyClosed(p) ==
  /\ gateway[p] \in {"closed", "reversed"}
  /\ payment[p].status \notin {"none", "success"} /\ p \notin granting
  /\ payment' = [payment EXCEPT ![p].status = "failed"]
  /\ UNCHANGED <<creditVars, plan, periodStart, checkout, gateway, granting,
                 reader, grants, term, rollovers>>

-----------------------------------------------------------------------------
(* The account.                                                            *)

Refreshed(a, at) ==
  /\ periodStart' = [periodStart EXCEPT ![a] = at]
  /\ periodEnd' = [periodEnd EXCEPT ![a] = at + Period]

(* cancelSubscription leaves creditsReserved as it is.                     *)
CancelSubscription(a) ==
  /\ plan' = [plan EXCEPT ![a] = "free"]
  /\ wallet' = [wallet EXCEPT ![a].credits = PlanCredits["free"], ![a].used = 0]
  /\ Refreshed(a, now)
  /\ term' = [term EXCEPT ![a] = {}]
  /\ UNCHANGED <<now, op, ledger, sweep, payment, checkout, gateway, granting,
                 reader, grants, rollovers>>

(* getCreditBalance finds a free row whose period is over ...              *)
RolloverRead(r, a) ==
  /\ reader[r] = NULL
  /\ plan[a] = "free" /\ RolloverDue(a, now)
  /\ reader' = [reader EXCEPT ![r] = [account |-> a, at |-> now]]
  /\ UNCHANGED <<creditVars, plan, periodStart, payment, checkout, gateway,
                 granting, grants, term, rollovers>>

(* Faulty: refreshes the row it read, whoever has refreshed it since.      *)
RolloverBlind(r) ==
  /\ reader[r] # NULL
  /\ LET a == reader[r].account IN
       /\ Refreshed(a, reader[r].at)
       /\ wallet' = [wallet EXCEPT ![a] =
            [credits |-> PlanCredits["free"], used |-> 0, reserved |-> 0]]
       /\ rollovers' = [rollovers EXCEPT ![a] = @ + 1]
  /\ reader' = [reader EXCEPT ![r] = NULL]
  /\ UNCHANGED <<now, op, ledger, sweep, plan, payment, checkout, gateway,
                 granting, grants, term>>

(* ... and refreshes it, unless another caller or a purchase was faster.   *)
RolloverWrite(r) ==
  /\ reader[r] # NULL
  /\ LET a == reader[r].account IN
     IF RolloverDue(a, reader[r].at)
       THEN /\ Refreshed(a, reader[r].at)
            /\ wallet' = [wallet EXCEPT ![a] =
                 [credits |-> PlanCredits["free"], used |-> 0, reserved |-> 0]]
            /\ rollovers' = [rollovers EXCEPT ![a] = @ + 1]
       ELSE UNCHANGED <<periodStart, periodEnd, wallet, rollovers>>
  /\ reader' = [reader EXCEPT ![r] = NULL]
  /\ UNCHANGED <<now, op, ledger, sweep, plan, payment, checkout, gateway,
                 granting, grants, term>>

-----------------------------------------------------------------------------
OrderNext(p) ==
  \/ CheckoutStart(p) \/ CheckoutInsert(p) \/ CheckoutDone(p)
  \/ CheckoutRefused(p) \/ GatewayMoves(p)
  \/ ApplyPayment(p) \/ TopUpRead(p) \/ TopUpWrite(p) \/ TopUpLost(p)
  \/ NotifyClosed(p)

AccountNext ==
  \/ \E a \in Accounts : CancelSubscription(a)
  \/ \E r \in Readers : RolloverWrite(r) \/ \E a \in Accounts : RolloverRead(r, a)

SubNext ==
  \/ CreditNext /\ UNCHANGED subVars
  \/ \E p \in Orders : OrderNext(p)
  \/ AccountNext

SubSpec == SubInit /\ [][SubNext]_allVars

(* Midtrans repeats a notification until it is answered, and the server    *)
(* does not stop in the middle of every grant.                             *)
SubFairness ==
  \A p \in Orders : /\ WF_allVars(ApplyPayment(p))
                    /\ WF_allVars(TopUpRead(p)) /\ SF_allVars(TopUpWrite(p))

FairSubSpec == SubSpec /\ SubFairness

-----------------------------------------------------------------------------
(* Properties.                                                             *)

(* An order is granted once, and marked success when it is, however many   *)
(* notifications and status syncs race, and whatever is rolled back.       *)
GrantedOnce ==
  \A p \in Orders : grants[p] = IF payment[p].status = "success" THEN 1 ELSE 0

(* Nothing is granted that the customer has not paid.                      *)
GrantedOnlyIfPaid ==
  \A p \in Orders : grants[p] > 0 => gateway[p] \in {"paid", "reversed"}

(* A delayed reversal, the clean-up of a later checkout or a late gateway  *)
(* error never takes a settled order's success mark.                       *)
SuccessIsFinal ==
  [][\A p \in Orders :
       payment[p].status = "success" => payment'[p] = payment[p]]_allVars

(* Plan orders granted one after another add up: none of the time paid for *)
(* is lost to a renewal while an earlier period runs.                      *)
PaidTimeAddsUp ==
  \A a \in Accounts :
    term[a] # {} => periodEnd[a] >= Period * Cardinality(term[a])

(* A free allowance is refreshed at most once per period: concurrent       *)
(* callers do not both refresh it, and missed months do not pile up.       *)
RolloversDoNotStack ==
  \A a \in Accounts : rollovers[a] * (Period + 1) <= now + Period + 1

(* A plan order that was given up, closed or reversed before it was        *)
(* granted is never granted.                                               *)
FailedPlanOrderStaysFailed ==
  [][\A p \in Orders : ~IsTopUp(p) /\ payment[p].status = "failed" =>
       payment'[p].status = "failed"]_allVars

(* Counters that are reset under operations in flight: the refilled wallet *)
(* is never charged for more than it has, whichever operation a late       *)
(* settlement, release or reservation belongs to.  Only a cancellation,    *)
(* which keeps the holds and cuts the allowance, takes the available       *)
(* credits below zero, and from there nothing but another one lowers them. *)
OverdrawnOnlyByCancel ==
  [][\A a \in Accounts : Available(a)' < 0 =>
       Available(a)' >= Available(a) \/ CancelSubscription(a)]_allVars

(* A settled order is eventually answered: granted, or marked failed for   *)
(* the manual refund.                                                      *)
SettledOrderIsResolved ==
  \A p \in Orders : Settled(p) ~> payment[p].status \in {"success", "failed"}

(* Statements of the documentation that the code does not keep.            *)

(* Whoever has paid a plan order gets the plan (or the money back).        *)
PaidPlanOrderIsGranted ==
  \A p \in Orders :
    (gateway[p] = "paid" /\ ~IsTopUp(p)) ~> (grants[p] = 1 \/ gateway[p] = "reversed")

(* Top-ups of a period exceed the plan's allocation by one package at most. *)
Granted(a) ==
  {p \in Orders : /\ Buyer[p] = a /\ IsTopUp(p) /\ InPeriod(p)
                  /\ payment[p].status = "success"}

OvershootIsOnePackage ==
  \A a \in Accounts : plan[a] \in PaidPlans /\ Granted(a) # {} =>
    \E p \in Granted(a) :
      TopUpCredits(a, {"success"}) <= PlanCredits[plan[a]] + PackCredits[Sku[p]]

(* A top-up is never granted into an account that is free by then.         *)
FreeAccountsHoldTheirAllowance ==
  \A a \in Accounts : plan[a] = "free" => wallet[a].credits <= PlanCredits["free"]

(* A free account's balance grows within a period only when an operation   *)
(* gives credit back.                                                      *)
FreeBalanceIsMonthly ==
  [][\A a \in Accounts :
       (/\ plan[a] = "free" /\ plan'[a] = "free"
        /\ ~RolloverDue(a, now) /\ op' = op) => Available(a)' <= Available(a)]_allVars
=============================================================================
