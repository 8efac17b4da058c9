----------------------------- MODULE CreditWallet -----------------------------
(***************************************************************************)
(* What the credit service promises its callers, without periods, ledger,  *)
(* aggregate counters or reconcilers: an account has a balance; an         *)
(* operation holds its maximum charge out of the balance, at most once;    *)
(* what is held is captured, at most once, for a charge within the hold,   *)
(* or returned whole; a captured charge can be given back, once.           *)
(***************************************************************************)
EXTENDS Integers

CONSTANTS Accounts, Ops, Owner, MaxCharge, InitialCredits

VARIABLES
  balance,  \* what each account may still promise
  phase,    \* where each operation is
  amount    \* what the operation holds, or has been charged

vars == <<balance, phase, amount>>

Init ==
  /\ balance = InitialCredits
  /\ phase = [o \in Ops |-> "new"]
  /\ amount = [o \in Ops |-> 0]

Hold(o) ==
  /\ phase[o] = "new"
  /\ balance[Owner[o]] >= MaxCharge[o]
  /\ balance' = [balance EXCEPT ![Owner[o]] = @ - MaxCharge[o]]
  /\ phase' = [phase EXCEPT ![o] = "held"]
  /\ amount' = [amount EXCEPT ![o] = MaxCharge[o]]

Capture(o) ==
  \E charge \in 0 .. MaxCharge[o] :
    /\ phase[o] = "held"
    /\ charge <= amount[o]
    /\ balance' = [balance EXCEPT ![Owner[o]] = @ + (amount[o] - charge)]
    /\ phase' = [phase EXCEPT ![o] = "captured"]
    /\ amount' = [amount EXCEPT ![o] = charge]

GiveBack(o) ==
  /\ phase[o] \in {"held", "captured"}
  /\ balance' = [balance EXCEPT ![Owner[o]] = @ + amount[o]]
  /\ phase' = [phase EXCEPT ![o] = "returned"]
  /\ amount' = [amount EXCEPT ![o] = 0]

Next == \E o \in Ops : Hold(o) \/ Capture(o) \/ GiveBack(o)

Spec == Init /\ [][Next]_vars
=============================================================================
