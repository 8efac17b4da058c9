---------------------------- MODULE MCSubscriptions ----------------------------
(* Instances of Subscriptions small enough for TLC: one account, so that   *)
(* every order, rollover and operation is about the same row.              *)
EXTENDS Subscriptions, TLC

CONSTANTS alice, o1, o2, p1, p2, p3, p4, small

MCOwner == [o \in Ops |-> alice]
MCMaxCharge == [o \in Ops |-> 1]
(* A hold larger than the free allowance beside a small one.               *)
MixedCharge == [o \in Ops |-> IF o = o1 THEN 2 ELSE 1]
MCInitialCredits == alice :> 1
MCBuyer == [p \in Orders |-> alice]
MCPlanCredits == "free" :> 1 @@ "pro" :> 2 @@ "hengker" :> 3
MCPackCredits == small :> 1
MCPeriods == {0, NULL}

(* Two purchases of different plans and a top-up.                          *)
MixedSku == [p \in Orders |-> IF p = p1 THEN "pro" ELSE IF p = p2 THEN "hengker" ELSE small]

(* Top-ups only; the package is as large as the allocation of pro.         *)
TopUpSku == [p \in Orders |-> small]
TopUpPackCredits == small :> 2
TopUpPeriods == {2}
=============================================================================
