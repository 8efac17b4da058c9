------------------------------ MODULE MCTaskBoard ------------------------------
(* Instances of TaskBoard small enough for TLC: a tree of two tasks, and   *)
(* the one that a generation saves.                                        *)
EXTENDS TaskBoard, TLC

CONSTANTS a1, a2, b1, board, cli, sub1, sub2, reset, save, delete

MCTrees == {{a1, a2}, {b1}}
MCNewTree == {b1}
MCKind == [r \in Requests |->
            IF r = board THEN "board" ELSE IF r = cli THEN "cli"
            ELSE IF r \in {sub1, sub2} THEN "subtask" ELSE IF r = reset THEN "reset"
            ELSE IF r = save THEN "save" ELSE "delete"]

(* All on one task, all on the new tree, and the client on a task of its   *)
(* own beside the others.                                                  *)
MCTargets == {[r \in Requests |-> a1], [r \in Requests |-> b1],
              [r \in Requests |-> IF r = cli THEN a2 ELSE a1]}
=============================================================================
