---------------------------- MODULE MCKanbanLive ----------------------------
(* An instance of KanbanLive for TLC.                                      *)
EXTENDS KanbanLive

CONSTANTS p1, p2, k1, k2
=============================================================================
