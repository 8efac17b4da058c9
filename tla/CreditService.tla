---------------------------- MODULE CreditService ----------------------------
(***************************************************************************)
(* The credit service (src/lib/services/credit-service.ts): the database   *)
(* transactions that move one billable operation through its life          *)
(*                                                                         *)
(*    (none) -> reserved -> running -> settled -> refunded                 *)
(*              reserved/running/settling -> released | quarantined        *)
(*                                                                         *)
(* and keep three records in step: the operation row, the aggregate        *)
(* counters of the account's subscription row, and the append-only ledger. *)
(* Every action is one committed transaction: the code takes the operation *)
(* row and then the subscription row FOR UPDATE (or updates it under a     *)
(* predicate), so a transaction is one step and one that throws rolls back *)
(* and changes nothing.  The one procedure of several transactions, the    *)
(* reconciler of expired operations, is a process of its own.              *)
(*                                                                         *)
(* An element of Ops stands for one idempotency key of one user, hence for *)
(* at most one row of credit_operations (unique on user and key): a call   *)
(* with a key that has a row returns that row and writes nothing.          *)
(***************************************************************************)
EXTENDS Integers, FiniteSets

CONSTANTS
  Accounts,        \* users; each has one subscription row
  Ops,             \* idempotency keys of billable operations
  Owner,           \* the account each key is scoped to
  MaxCharge,       \* the quote's maximumCredits of each operation
  InitialCredits,  \* subscription credits when the behaviour starts
  Sweepers,        \* concurrent calls of the reconciler
  Expiries,        \* the expiresAt values callers pass (NULL: none)
  InitialPeriods,  \* subscription period ends the behaviour starts from
  MaxTime,         \* bound on the clock
  NULL             \* SQL NULL

ASSUME CreditAssumption ==
  /\ IsFiniteSet(Ops)
  /\ Owner \in [Ops -> Accounts]
  /\ MaxCharge \in [Ops -> Nat \ {0}]
  /\ InitialCredits \in [Accounts -> Nat]
  /\ MaxTime \in Nat
  /\ Expiries \subseteq Nat \cup {NULL}
  /\ InitialPeriods \subseteq Nat \cup {NULL}
  /\ NULL \notin Int

VARIABLES
  now,        \* the clock read by now() and new Date()
  periodEnd,  \* subscriptions.currentPeriodEnd
  wallet,     \* subscriptions.credits, creditsUsed, creditsReserved
  op,         \* credit_operations
  ledger,     \* credit_ledger_entries: per operation, the sum of each type
  sweep       \* local state of each reconciler call

creditVars == <<now, periodEnd, wallet, op, ledger, sweep>>

Active == {"reserved", "running", "settling"}
States == {"none", "settled", "released", "quarantined", "refunded"} \cup Active
EntryTypes == {"reservation", "release", "debit", "refund", "correction"}

\* The counters of the subscription, the rows of credit_operations and the sums of
\* the ledger have the types of their columns.
TypeOK ==
  /\ now \in 0 .. MaxTime
  /\ periodEnd \in [Accounts -> Nat \cup {NULL}]
  /\ wallet \in [Accounts -> [credits : Nat, used : Int, reserved : Nat]]
  /\ op \in [Ops -> [state : States, reserved : Nat, charge : Nat,
                     expiresAt : Nat \cup {NULL}]]
  /\ ledger \in [Ops -> [EntryTypes -> Int]]
  /\ sweep \in [Sweepers -> [todo : SUBSET Ops, doomed : SUBSET Ops]]

NoRow == [state |-> "none", reserved |-> 0, charge |-> 0, expiresAt |-> NULL]
Idle == [todo |-> {}, doomed |-> {}]

Init ==
  /\ now = 0
  /\ periodEnd \in [Accounts -> InitialPeriods]
  /\ wallet = [a \in Accounts |->
                 [credits |-> InitialCredits[a], used |-> 0, reserved |-> 0]]
  /\ op = [o \in Ops |-> NoRow]
  /\ ledger = [o \in Ops |-> [t \in EntryTypes |-> 0]]
  /\ sweep = [s \in Sweepers |-> Idle]

-----------------------------------------------------------------------------
(* Helpers.                                                                *)

ValidPeriod(a) == periodEnd[a] # NULL => periodEnd[a] >= now

Available(a) == wallet[a].credits - wallet[a].used - wallet[a].reserved

IsActive(o) == op[o].state \in Active

IsExpired(o) == op[o].expiresAt # NULL /\ op[o].expiresAt <= now

(* CHECK (credits_reserved >= 0) on subscriptions: the UPDATE that would   *)
(* take more out of the aggregate than it holds aborts its transaction.    *)
CanUnreserve(o) == wallet[Owner[o]].reserved >= op[o].reserved

-----------------------------------------------------------------------------
(* The transactions.                                                       *)

(* Faulty variants of the transactions below stand before them: each is a  *)
(* bug the properties must tell from the code.                             *)

(* Looks up the key of a finished operation only: a repeated call holds    *)
(* the maximum a second time.                                              *)
ReserveTwice(o, expiry) ==
  LET a == Owner[o] IN
  /\ op[o].state \in {"none", "reserved"}
  /\ ValidPeriod(a)
  /\ Available(a) >= MaxCharge[o]
  /\ wallet' = [wallet EXCEPT ![a].reserved = @ + MaxCharge[o]]
  /\ op' = [op EXCEPT ![o] = [state |-> "reserved", reserved |-> MaxCharge[o],
                              charge |-> 0, expiresAt |-> expiry]]
  /\ ledger' = [ledger EXCEPT ![o]["reservation"] = -MaxCharge[o]]
  /\ UNCHANGED <<now, periodEnd, sweep>>

(* reserveCreditOperation with a key that has no row.                      *)
Reserve(o, expiry) ==
  LET a == Owner[o] IN
  /\ op[o].state = "none"
  /\ wallet[a].credits > wallet[a].used
  /\ ValidPeriod(a)
  /\ Available(a) >= MaxCharge[o]
  /\ wallet' = [wallet EXCEPT ![a].reserved = @ + MaxCharge[o]]
  /\ op' = [op EXCEPT ![o] = [state |-> "reserved", reserved |-> MaxCharge[o],
                              charge |-> 0, expiresAt |-> expiry]]
  /\ ledger' = [ledger EXCEPT ![o]["reservation"] = @ - MaxCharge[o]]
  /\ UNCHANGED <<now, periodEnd, sweep>>

MarkRunning(o) ==
  /\ op[o].state = "reserved"
  /\ op' = [op EXCEPT ![o].state = "running"]
  /\ UNCHANGED <<now, periodEnd, wallet, ledger, sweep>>

(* Faulty: settles whatever the state.                                     *)
CanSettleAny(o, charge) ==
  /\ charge <= MaxCharge[o]
  /\ charge <= op[o].reserved
  /\ ValidPeriod(Owner[o])
  /\ CanUnreserve(o)

CanSettle(o, charge) ==
  /\ IsActive(o)
  /\ charge <= MaxCharge[o]
  /\ charge <= op[o].reserved
  /\ ValidPeriod(Owner[o])
  /\ CanUnreserve(o)

(* Faulty: records the whole hold as released, and the charge as well.     *)
SettleReleasesAll(o, charge) ==
  /\ CanSettle(o, charge)
  /\ wallet' = [wallet EXCEPT ![Owner[o]].reserved = @ - op[o].reserved,
                              ![Owner[o]].used = @ + charge]
  /\ ledger' = [ledger EXCEPT ![o]["release"] = @ + op[o].reserved,
                              ![o]["debit"] = @ - charge]
  /\ op' = [op EXCEPT ![o].state = "settled", ![o].reserved = 0,
                      ![o].charge = charge]
  /\ UNCHANGED <<now, periodEnd, sweep>>

(* Faulty: clamps the aggregate at zero where the CHECK would abort, as a  *)
(* repair of holds lost by a reset might.                                  *)
SettleClamped(o, charge) ==
  LET a == Owner[o]
      left == wallet[a].reserved - op[o].reserved
  IN
  /\ IsActive(o) /\ charge <= op[o].reserved /\ ValidPeriod(a)
  /\ wallet' = [wallet EXCEPT ![a].reserved = IF left < 0 THEN 0 ELSE left,
                              ![a].used = @ + charge]
  /\ ledger' = [ledger EXCEPT
                  ![o]["release"] = @ + (op[o].reserved - charge),
                  ![o]["debit"] = @ - charge]
  /\ op' = [op EXCEPT ![o].state = "settled", ![o].reserved = 0,
                      ![o].charge = charge]
  /\ UNCHANGED <<now, periodEnd, sweep>>

Settle(o, charge) ==
  /\ CanSettle(o, charge)
  /\ wallet' = [wallet EXCEPT ![Owner[o]].reserved = @ - op[o].reserved,
                              ![Owner[o]].used = @ + charge]
  /\ ledger' = [ledger EXCEPT
                  ![o]["release"] = @ + (op[o].reserved - charge),
                  ![o]["debit"] = @ - charge]
  /\ op' = [op EXCEPT ![o].state = "settled", ![o].reserved = 0,
                      ![o].charge = charge]
  /\ UNCHANGED <<now, periodEnd, sweep>>

CanRelease(o) == IsActive(o) /\ ValidPeriod(Owner[o]) /\ CanUnreserve(o)

Returned(o, state, entry) ==
  /\ wallet' = [wallet EXCEPT ![Owner[o]].reserved = @ - op[o].reserved]
  /\ ledger' = [ledger EXCEPT ![o][entry] = @ + op[o].reserved]
  /\ op' = [op EXCEPT ![o].state = state, ![o].reserved = 0]

Release(o) ==
  /\ CanRelease(o)
  /\ Returned(o, "released", "release")
  /\ UNCHANGED <<now, periodEnd, sweep>>

(* quarantineCreditOperation gives the hold back whatever the period.      *)
CanQuarantine(o) == IsActive(o) /\ CanUnreserve(o)

Quarantine(o) ==
  /\ CanQuarantine(o)
  /\ Returned(o, "quarantined", "correction")
  /\ UNCHANGED <<now, periodEnd, sweep>>

Refund(o) ==
  /\ op[o].state = "settled"
  /\ ValidPeriod(Owner[o])
  /\ wallet' = [wallet EXCEPT ![Owner[o]].used = @ - op[o].charge]
  /\ ledger' = [ledger EXCEPT ![o]["refund"] = @ + op[o].charge]
  /\ op' = [op EXCEPT ![o].state = "refunded"]
  /\ UNCHANGED <<now, periodEnd, sweep>>

-----------------------------------------------------------------------------
(* reconcileExpiredCreditOperations: one transaction claims every expired  *)
(* operation of a user, then each is released in a transaction of its own. *)

Expired(a) == {o \in Ops : Owner[o] = a /\ IsActive(o) /\ IsExpired(o)}

SweepClaim(s, a) ==
  /\ sweep[s] = Idle
  /\ Expired(a) # {}
  /\ op' = [o \in Ops |-> IF o \in Expired(a)
                            THEN [op[o] EXCEPT !.state = "settling"] ELSE op[o]]
  /\ sweep' = [sweep EXCEPT ![s].todo = Expired(a)]
  /\ UNCHANGED <<now, periodEnd, wallet, ledger>>

SweepRelease(s, o) ==
  /\ o \in sweep[s].todo /\ sweep[s].doomed = {}
  /\ CanRelease(o)
  /\ Returned(o, "released", "release")
  /\ sweep' = [sweep EXCEPT ![s].todo = @ \ {o}]
  /\ UNCHANGED <<now, periodEnd>>

(* The release threw: CreditSubscriptionOriginError goes on to quarantine, *)
(* any other error is swallowed and the operation stays in settling.       *)
SweepReleaseFails(s, o) ==
  /\ o \in sweep[s].todo /\ sweep[s].doomed = {}
  /\ \/ sweep' = [sweep EXCEPT ![s].todo = @ \ {o}]
     \/ /\ IsActive(o) /\ ~ValidPeriod(Owner[o])
        /\ sweep' = [sweep EXCEPT ![s].todo = @ \ {o}, ![s].doomed = {o}]
  /\ UNCHANGED <<now, periodEnd, wallet, op, ledger>>

SweepQuarantine(s, o) ==
  /\ o \in sweep[s].doomed
  /\ CanQuarantine(o)
  /\ Returned(o, "quarantined", "correction")
  /\ sweep' = [sweep EXCEPT ![s].doomed = {}]
  /\ UNCHANGED <<now, periodEnd>>

(* A quarantine that throws is caught by nobody: the call ends, and the    *)
(* operations it had not come to stay in settling.                         *)
SweepThrows(s, o) ==
  /\ o \in sweep[s].doomed
  /\ sweep' = [sweep EXCEPT ![s] = Idle]
  /\ UNCHANGED <<now, periodEnd, wallet, op, ledger>>

(* The server stops between two transactions of a call.                    *)
SweepCrash(s) ==
  /\ sweep[s] # Idle
  /\ sweep' = [sweep EXCEPT ![s] = Idle]
  /\ UNCHANGED <<now, periodEnd, wallet, op, ledger>>

Tick ==
  /\ now < MaxTime
  /\ now' = now + 1
  /\ UNCHANGED <<periodEnd, wallet, op, ledger, sweep>>

-----------------------------------------------------------------------------
SweepTryRelease(s) == \E o \in Ops : SweepRelease(s, o) \/ SweepReleaseFails(s, o)

SweepTryQuarantine(s) == \E o \in Ops : SweepQuarantine(s, o) \/ SweepThrows(s, o)

SweepNext(s) ==
  \/ \E a \in Accounts : SweepClaim(s, a)
  \/ SweepTryRelease(s)
  \/ SweepTryQuarantine(s)
  \/ SweepCrash(s)

OpNext(o) ==
  \/ \E expiry \in Expiries : Reserve(o, expiry)
  \/ MarkRunning(o)
  \/ \E charge \in 0 .. MaxCharge[o] : Settle(o, charge)
  \/ Release(o)
  \/ Quarantine(o)
  \/ Refund(o)

CreditNext ==
  \/ \E o \in Ops : OpNext(o)
  \/ \E s \in Sweepers : SweepNext(s)
  \/ Tick

Spec == Init /\ [][CreditNext]_creditVars

-----------------------------------------------------------------------------
(* Properties.                                                             *)

(* A sum over the operations of an account is the number of its units:     *)
(* unit i of operation o is the pair <<o, i>>, with i in 1 .. amount[o].   *)
Units(amount, a) ==
  UNION {{o} \X (1 .. amount[o]) : o \in {p \in Ops : Owner[p] = a}}

Held == [o \in Ops |-> op[o].reserved]

Charged == [o \in Ops |-> IF op[o].state = "settled" THEN op[o].charge ELSE 0]

(* The aggregate creditsReserved of an account is exactly what its live    *)
(* operations hold, whatever order their transactions commit in.           *)
ReservedIsHeld ==
  \A a \in Accounts : wallet[a].reserved = Cardinality(Units(Held, a))

(* The aggregate creditsUsed of an account is exactly what its settled and *)
(* not refunded operations were charged: no charge twice, none lost.       *)
UsedIsCharged ==
  \A a \in Accounts : wallet[a].used = Cardinality(Units(Charged, a))

(* Concurrent operations together never promise more than the account has. *)
NoOverdraft == \A a \in Accounts : Available(a) >= 0

(* The CHECK on credits_reserved never blocks a live operation: its hold   *)
(* can always be given back.                                               *)
HoldsCanReturn == \A o \in Ops : IsActive(o) => CanUnreserve(o)

(* The ledger explains every operation: one reservation of the quoted      *)
(* maximum, nothing more while it is live, and when it ends entries that   *)
(* account for each reserved unit exactly once, whoever ended it.          *)
LedgerExplains ==
  \A o \in Ops :
    LET state == op[o].state  max == MaxCharge[o]  charge == op[o].charge
    IN /\ ledger[o]["reservation"] = IF state = "none" THEN 0 ELSE -max
       /\ ledger[o]["release"] =
            IF state \in {"settled", "refunded"} THEN max - charge
            ELSE IF state = "released" THEN max ELSE 0
       /\ ledger[o]["debit"] =
            IF state \in {"settled", "refunded"} THEN -charge ELSE 0
       /\ ledger[o]["refund"] = IF state = "refunded" THEN charge ELSE 0
       /\ ledger[o]["correction"] = IF state = "quarantined" THEN max ELSE 0

(* What a live operation holds is the whole quoted maximum, what any other *)
(* holds is nothing.                                                       *)
HoldIsMaximum ==
  \A o \in Ops : op[o].reserved = IF IsActive(o) THEN MaxCharge[o] ELSE 0

(* A finished operation is never revived by a late or repeated call: only  *)
(* a settled one moves again, and only to refunded.                        *)
Finished == {"settled", "released", "quarantined", "refunded"}

FinishedStaysFinished ==
  [][\A o \in Ops : op[o].state \in Finished /\ op'[o] # op[o] =>
        op[o].state = "settled" /\ op'[o].state = "refunded"]_creditVars

-----------------------------------------------------------------------------
(* Every step of the service is a step of the wallet it promises, or is    *)
(* invisible to it: the balance is what Available reports, and the phase   *)
(* forgets which kind of live or returned an operation is.                 *)
PhaseOf(state) ==
  IF state = "none" THEN "new"
  ELSE IF state \in Active THEN "held"
  ELSE IF state = "settled" THEN "captured"
  ELSE "returned"

Wallet == INSTANCE CreditWallet WITH
  balance <- [a \in Accounts |-> Available(a)],
  phase <- [o \in Ops |-> PhaseOf(op[o].state)],
  amount <- [o \in Ops |-> Held[o] + Charged[o]]

ImplementsWallet == Wallet!Spec
=============================================================================
