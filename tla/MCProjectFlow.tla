---------------------------- MODULE MCProjectFlow ----------------------------
(* Instances of ProjectFlow: one user whose credit covers two operations   *)
(* of three.                                                               *)
EXTENDS ProjectFlow, TLC

CONSTANTS alice, prd1, ac1, again, g1, g2, a1

MCOwner == [o \in Ops |-> alice]
MCMaxCharge == [o \in Ops |-> 1]
MCInitialCredits == alice :> 2

MCModes == [c \in Chats |-> IF c = g1 THEN {"generate", "revise"}
                           ELSE {"generate", "revise", "resume"}]

(* One generation sent twice.                                              *)
MCChatKey == [c \in Chats |-> prd1]
MCAcKey == [r \in AcRequests |-> ac1]
=============================================================================
