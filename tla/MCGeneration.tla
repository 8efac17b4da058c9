----------------------------- MODULE MCGeneration -----------------------------
(* Instances of Generation small enough for TLC: one user, whose credit    *)
(* covers all operations but one.                                          *)
EXTENDS Generation, TLC

CONSTANTS alice, o1, o2, o3, r1, r2, r3

MCOwner == [o \in Ops |-> alice]
MCMaxCharge == [o \in Ops |-> 1]
MCInitialCredits == alice :> 2

(* Every request with a key of its own.                                    *)
OwnKey == [r \in Requests |-> IF r = r1 THEN o1 ELSE IF r = r2 THEN o2 ELSE o3]

(* The first two requests are one request sent twice.                      *)
SharedKey == [r \in Requests |-> IF r = r3 THEN o2 ELSE o1]
=============================================================================
