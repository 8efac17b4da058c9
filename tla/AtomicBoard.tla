----------------------------- MODULE AtomicBoard -----------------------------
(***************************************************************************)
(* What the transactions on the tasks of one project promise: each takes   *)
(* effect at once, on the board as it is then.  The writers are the board  *)
(* of the web page, the command-line client, the reset of the progress,    *)
(* the generation of a new tree and the deletion of the project.           *)
(***************************************************************************)
EXTENDS Integers

CONSTANTS
  Tasks,     \* ids of tasks
  Trees,     \* disjoint sets of them, each the tasks of a generated tree
  Subtasks,  \* positions in the subtasks array of a task
  Statuses,  \* VALID_STATUSES, or some of them
  NULL       \* no row

VARIABLES
  project,  \* the row of the project: deletedAt, step and taskStatus
  rows      \* the tasks

boardVars == <<project, rows>>

Row == [status : Statuses, started : BOOLEAN, completed : BOOLEAN,
        subs : [Subtasks -> Statuses]]
Steps == {"ac", "task"}

BoardInit ==
  /\ project \in [deleted : {FALSE}, step : Steps, taskStatus : {"generating"}]
  /\ \E tree \in Trees \cup {{}} :
       rows = [t \in Tasks |->
                IF t \in tree
                THEN [status |-> "pending", started |-> FALSE, completed |-> FALSE,
                      subs |-> [i \in Subtasks |-> "pending"]]
                ELSE NULL]

-----------------------------------------------------------------------------
(* What the handlers write into a row.                                     *)

Terminal(status) == status \in {"completed", "failed"}

(* The board rebuilds both timestamps for the new status.                  *)
Moved(row, status) ==
  [row EXCEPT !.status = status,
              !.started = (status = "in_progress") \/ (@ /\ status # "pending"),
              !.completed = Terminal(status)]

(* The client only ever sets them.                                         *)
Reported(row, status) ==
  [row EXCEPT !.status = status,
              !.started = @ \/ status = "in_progress",
              !.completed = @ \/ Terminal(status)]

(* needsProgressReset of one task, and what the reset makes of it.         *)
HasProgress(row) == row.status # "pending" \/ \E i \in Subtasks : row.subs[i] # "pending"
Cleared == [status |-> "pending", started |-> FALSE, completed |-> FALSE,
            subs |-> [i \in Subtasks |-> "pending"]]
Reset(row) == IF HasProgress(row) THEN Cleared ELSE row

Live == {t \in Tasks : rows[t] # NULL}
OnlyRow(t, row) == rows' = [rows EXCEPT ![t] = row] /\ UNCHANGED project

-----------------------------------------------------------------------------
Move(t, status) ==
  ~project.deleted /\ t \in Live /\ OnlyRow(t, Moved(rows[t], status))

Report(t, status) ==
  /\ ~project.deleted /\ t \in Live
  /\ ~(status = "completed" /\ rows[t].status = "pending")
  /\ OnlyRow(t, Reported(rows[t], status))

ReportSubtask(t, i, status) ==
  /\ ~project.deleted /\ t \in Live
  /\ OnlyRow(t, [rows[t] EXCEPT !.subs[i] = status])

ResetAll ==
  /\ ~project.deleted
  /\ rows' = [t \in Tasks |-> IF t \in Live THEN Reset(rows[t]) ELSE NULL]
  /\ UNCHANGED project

(* saveTaskTree does not ask whether the project is still there, and       *)
(* advanceStep has nowhere further to go than "task".                      *)
Replace(tree) ==
  /\ rows' = [t \in Tasks |-> IF t \in tree THEN Cleared ELSE NULL]
  /\ project' = [project EXCEPT !.step = "task", !.taskStatus = "completed"]

Purge ==
  /\ ~project.deleted
  /\ rows' = [t \in Tasks |-> NULL]
  /\ project' = [project EXCEPT !.deleted = TRUE]

BoardNext ==
  \/ \E t \in Tasks, status \in Statuses :
       \/ Move(t, status)
       \/ Report(t, status)
       \/ \E i \in Subtasks : ReportSubtask(t, i, status)
  \/ ResetAll
  \/ \E tree \in Trees : Replace(tree)
  \/ Purge

BoardSpec == BoardInit /\ [][BoardNext]_boardVars
=============================================================================
