--------------------------- MODULE MCCreditService ---------------------------
(* An instance of CreditService small enough for TLC.                      *)
EXTENDS CreditService, TLC

CONSTANTS alice, bob, o1, o2, o3, s1, s2

(* Two operations of one account, which can afford either but not both,    *)
(* and one of another account.                                             *)
MCOwner == o1 :> alice @@ o2 :> alice @@ o3 :> bob
MCMaxCharge == o1 :> 1 @@ o2 :> 2 @@ o3 :> 1
MCInitialCredits == alice :> 2 @@ bob :> 1
MCExpiries == {1, NULL}
MCPeriods == {0, NULL}
=============================================================================
