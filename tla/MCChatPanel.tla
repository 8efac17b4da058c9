------------------------------ MODULE MCChatPanel ------------------------------
(* Instances of ChatPanel small enough for TLC.                            *)
EXTENDS ChatPanel

CONSTANTS d1, w1, c1, c2, p1, p2
=============================================================================
