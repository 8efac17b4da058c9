------------------------------ MODULE TaskBoard ------------------------------
(***************************************************************************)
(* The transactions on the tasks of a project, statement by statement:     *)
(* routes/api/kanban/update-status.ts (the board), routes/api/v1/tasks and *)
(* subtasks (the command-line client), routes/api/projects/$id/reset-      *)
(* progress.ts, saveTaskTree of lib/services/task-service.ts, and DELETE   *)
(* of routes/api/projects/$id.ts.  PostgreSQL runs them READ COMMITTED: a  *)
(* row lock waits for its holder, a row deleted meanwhile is skipped, and  *)
(* one transaction of a cycle of waits is aborted.  What a transaction     *)
(* writes is seen when it commits.  A transaction keeps a connection of    *)
(* the pool (src/db/index.ts) from its begin to its end; the reports of    *)
(* the command-line client need a second one while they have the first.    *)
(***************************************************************************)
EXTENDS FiniteSets, Integers

CONSTANTS
  Tasks, Trees, Subtasks, Statuses, NULL,  \* see AtomicBoard
  Requests,  \* HTTP requests, one transaction each
  Kind,      \* what each is for
  Targets,   \* the tasks that requests of one task may name
  NewTree,   \* the tasks a generation saves
  Pool       \* connections of the pool, which waits for one without end

Kinds == {"board", "cli", "subtask", "reset", "save", "delete"}

ASSUME TreeAssumption ==
  /\ Trees \subseteq SUBSET Tasks
  /\ {"pending", "in_progress", "completed"} \subseteq Statuses
  /\ NULL \notin Tasks

(* The claim of Generation admits one generation at a time.                *)
ASSUME TaskBoardAssumption ==
  /\ Kind \in [Requests -> Kinds]
  /\ NewTree \in Trees
  /\ Targets \subseteq [Requests -> Tasks]
  /\ Cardinality({r \in Requests : Kind[r] = "save"}) <= 1
  /\ Pool \in Nat \ {0}

VARIABLES
  project, rows,  \* see AtomicBoard
  req             \* the transaction of each request

vars == <<project, rows, req>>

Atomic == INSTANCE AtomicBoard

(* A request holds the project row if "project", and the rows it has read  *)
(* for update; "task" is the id a request of one task names; "checked" is  *)
(* a report that has seen that its user owns the project.                  *)
Nothing == [t \in {} |-> NULL]
TypeOK ==
  /\ project \in [deleted : BOOLEAN, step : Atomic!Steps, taskStatus : {"generating", "completed"}]
  /\ rows \in [Tasks -> Atomic!Row \cup {NULL}]
  /\ \A r \in Requests :
       /\ req[r].state \in {"queued", "running", "committed", "refused", "aborted"}
       /\ req[r].task \in Tasks
       /\ req[r].project \in BOOLEAN /\ req[r].checked \in BOOLEAN
       /\ DOMAIN req[r].read \subseteq Tasks
       /\ \A t \in DOMAIN req[r].read : req[r].read[t] \in Atomic!Row

OneTask == {"board", "cli", "subtask"}
Reports == {"cli", "subtask"}
ProjectFirst == {"board", "reset", "delete"}

Init ==
  /\ Atomic!BoardInit
  /\ \A t \in NewTree : rows[t] = NULL
  /\ \E target \in Targets :
       req = [r \in Requests |-> [state |-> "queued", task |-> target[r],
                                  project |-> FALSE, read |-> Nothing,
                                  checked |-> FALSE]]

Running(r) == req[r].state = "running"

-----------------------------------------------------------------------------
(* Connections.                                                            *)

HasFree == Cardinality({r \in Requests : Running(r)}) < Pool

Begin(r) ==
  /\ req[r].state = "queued" /\ HasFree
  /\ req' = [req EXCEPT ![r].state = "running"]
  /\ UNCHANGED <<project, rows>>

-----------------------------------------------------------------------------
(* Locks.                                                                  *)

Locked(r) == DOMAIN req[r].read
Live == {t \in Tasks : rows[t] # NULL}

(* The rows the transaction has still to lock.                             *)
Wanted(r) == (IF Kind[r] \in OneTask THEN {req[r].task} \cap Live ELSE Live) \ Locked(r)

(* Faulty: the reset, too, locks its tasks before the project.             *)
WantsProjectLate(r) ==
  /\ Running(r) /\ ~req[r].project
  /\ Kind[r] \in {"board", "delete"} \/ (Kind[r] \in {"reset", "save"} /\ Wanted(r) = {})

(* What it waits for next: the project, or a row.                          *)
WantsProject(r) ==
  /\ Running(r) /\ ~req[r].project
  /\ Kind[r] \in ProjectFirst \/ (Kind[r] = "save" /\ Wanted(r) = {})
WantsRow(r) == Running(r) /\ ~WantsProject(r) /\ Wanted(r) # {}

Holders(r) ==
  IF WantsProject(r) THEN {s \in Requests : req[s].project}
  ELSE IF WantsRow(r) /\ \A t \in Wanted(r) : \E s \in Requests : t \in Locked(s)
  THEN {s \in Requests : Wanted(r) \cap Locked(s) # {}}
  ELSE {}

(* Simple cycles of waits.                                                 *)
Waiting == {r \in Requests : Holders(r) # {}}
Stuck(S) == S # {} /\ \A r \in S : Holders(r) \cap S # {}
Cycles == {S \in SUBSET Waiting : Stuck(S) /\ \A T \in SUBSET S : Stuck(T) => T = S}

(* Faulty: the answer leaves the transaction open.                         *)
EndOpen(r, state) == req' = [req EXCEPT ![r].state = state]

End(r, state) ==
  req' = [req EXCEPT ![r] = [@ EXCEPT !.state = state, !.project = FALSE,
                                      !.read = Nothing, !.checked = FALSE]]

(* The project row, FOR UPDATE; or, for a save, the foreign key of the     *)
(* rows it inserts and then the row.  A save goes on without the row.      *)
LockProject(r) ==
  /\ WantsProject(r) /\ Holders(r) = {}
  /\ IF project.deleted /\ Kind[r] # "save"
     THEN End(r, "refused")
     ELSE req' = [req EXCEPT ![r].project = TRUE]
  /\ UNCHANGED <<project, rows>>

(* The transaction as it goes on with a row in hand.                       *)
WithRow(r, t) ==
  [req[r] EXCEPT !.read = [u \in DOMAIN @ \cup {t} |-> IF u = t THEN rows[t] ELSE @[u]]]

(* Faulty: the row is read without FOR UPDATE.                             *)
ReadRow(r) ==
  /\ WantsRow(r)
  /\ \E t \in Wanted(r) : req' = [req EXCEPT ![r] = WithRow(r, t)]
  /\ UNCHANGED <<project, rows>>

(* A row of the tasks, FOR UPDATE, read as it is once the lock is there.   *)
LockRow(r) ==
  /\ WantsRow(r)
  /\ \E t \in Wanted(r) :
       /\ \A s \in Requests : t \notin Locked(s)
       /\ req' = [req EXCEPT ![r] = WithRow(r, t)]
  /\ UNCHANGED <<project, rows>>

(* The named task is not, or no longer, there: 404.                        *)
TaskGone(r) ==
  /\ Running(r) /\ Kind[r] \in OneTask /\ ~WantsProject(r)
  /\ req[r].task \notin Live
  /\ End(r, "refused")
  /\ UNCHANGED <<project, rows>>

-----------------------------------------------------------------------------
(* The last statements and the commit, once nothing is left to lock.       *)

Ready(r, kind) == Running(r) /\ Kind[r] = kind /\ ~WantsProject(r) /\ Wanted(r) = {}
HasTask(r) == req[r].task \in Locked(r) \cap Live

CommitRow(r, row) ==
  /\ rows' = [rows EXCEPT ![req[r].task] = row]
  /\ End(r, "committed")
  /\ UNCHANGED project

Refuse(r) == End(r, "refused") /\ UNCHANGED <<project, rows>>

WriteBoard(r) ==
  /\ Ready(r, "board") /\ HasTask(r)
  /\ \E status \in Statuses : CommitRow(r, Atomic!Moved(rows[req[r].task], status))

(* A report asks on a connection of its own whether the project is there   *)
(* and its user's, with the row of the task locked.                        *)
Unchecked(r) ==
  /\ \E kind \in Reports : Ready(r, kind)
  /\ HasTask(r) /\ ~req[r].checked

(* Faulty: asks only whether the task is there.                            *)
CheckNothing(r) ==
  /\ Unchecked(r) /\ HasFree
  /\ req' = [req EXCEPT ![r].checked = TRUE]
  /\ UNCHANGED <<project, rows>>

VerifyOwnership(r) ==
  /\ Unchecked(r) /\ HasFree
  /\ IF project.deleted THEN Refuse(r)
     ELSE req' = [req EXCEPT ![r].checked = TRUE] /\ UNCHANGED <<project, rows>>

(* A task is not completed before it is in progress.                       *)
WriteStatus(r) ==
  /\ Ready(r, "cli") /\ HasTask(r) /\ req[r].checked
  /\ \E status \in Statuses :
       IF status = "completed" /\ req[r].read[req[r].task].status = "pending"
       THEN Refuse(r)
       ELSE CommitRow(r, Atomic!Reported(rows[req[r].task], status))

(* The whole array is written back with one entry changed.                 *)
WriteSubtask(r) ==
  /\ Ready(r, "subtask") /\ HasTask(r) /\ req[r].checked
  /\ \E i \in Subtasks, status \in Statuses :
       CommitRow(r, [rows[req[r].task] EXCEPT
                      !.subs = [req[r].read[req[r].task].subs EXCEPT ![i] = status]])

WriteReset(r) ==
  /\ Ready(r, "reset")
  /\ rows' = [t \in Tasks |->
               IF t \in Live /\ t \in Locked(r) /\ Atomic!HasProgress(req[r].read[t])
               THEN Atomic!Cleared ELSE rows[t]]
  /\ End(r, "committed")
  /\ UNCHANGED project

WriteTree(r) ==
  /\ Ready(r, "save")
  /\ rows' = [t \in Tasks |-> IF t \in NewTree THEN Atomic!Cleared ELSE NULL]
  /\ project' = [project EXCEPT !.step = "task", !.taskStatus = "completed"]
  /\ End(r, "committed")

WriteDelete(r) ==
  /\ Ready(r, "delete")
  /\ rows' = [t \in Tasks |-> NULL]
  /\ project' = [project EXCEPT !.deleted = TRUE]
  /\ End(r, "committed")

(* The deadlock detector picks a victim; a lost connection rolls back.     *)
Abort(r) ==
  /\ r \in UNION Cycles
  /\ End(r, "aborted")
  /\ UNCHANGED <<project, rows>>

Crash(r) ==
  /\ Running(r)
  /\ End(r, "aborted")
  /\ UNCHANGED <<project, rows>>

-----------------------------------------------------------------------------
Step(r) ==
  \/ Begin(r) \/ LockProject(r) \/ LockRow(r) \/ TaskGone(r)
  \/ VerifyOwnership(r) \/ WriteBoard(r) \/ WriteStatus(r) \/ WriteSubtask(r)
  \/ WriteReset(r) \/ WriteTree(r) \/ WriteDelete(r)
  \/ Abort(r)

Next == \E r \in Requests : Step(r) \/ Crash(r)

(* Some transaction goes on whenever one can: locks are granted when they  *)
(* are free, and the detector runs.  A transaction has a bounded number of *)
(* steps, so that fairness for each of them would say no more.             *)
Spec == Init /\ [][Next]_vars
FairSpec == Spec /\ WF_vars(\E r \in Requests : Step(r))

-----------------------------------------------------------------------------
(* Properties.                                                             *)

(* Every transaction takes effect at once on the board as it is when it    *)
(* commits: no subtask written back from an old array, no task completed   *)
(* that has become pending, no task left out of a reset.                   *)
ImplementsBoard == Atomic!BoardSpec

(* The handlers that lock the project lock it first, and the client locks  *)
(* one row only: no cycle of waits without the save of a new tree, which   *)
(* takes them the other way round.                                         *)
DeadlockNeedsSave ==
  \A S \in Cycles : \E r \in S : Kind[r] = "save"

(* Nobody works on the board of a deleted project: its tasks, were there   *)
(* any, change no more, but for a tree that was being generated.           *)
TombstoneUntouched ==
  [][project.deleted => \/ UNCHANGED rows
                        \/ \E r \in Requests : Kind[r] = "save" /\ req'[r] # req[r]]_vars

(* Every request is answered, but for one way to wait for good: no         *)
(* connection is free, a report holds a task and waits for its second one, *)
(* and whoever has the others waits for a lock or does as it does.         *)
Answered == \A r \in Requests : ~Running(r) /\ req[r].state # "queued"

PoolExhausted ==
  /\ ~HasFree
  /\ \E r \in Requests : Unchecked(r)
  /\ \A r \in Requests : Running(r) => Unchecked(r) \/ Holders(r) # {}

RequestsEnd == <>Answered \/ <>[]PoolExhausted

(* The same without the exception.                                         *)
EveryRequestEnds == <>Answered

(* Statements of the comments that the code does not keep in every case.   *)

(* project-deletion.ts: "Every product artifact (PRD, AC, tasks, ...) is   *)
(* destroyed".                                                             *)
TombstoneOwnsNothing == project.deleted => Live = {}

(* update-status.ts: "a backwards transition never leaves contradictory    *)
(* values (e.g. completedAt set while status is in_progress)".             *)
TimestampsAgree ==
  \A t \in Live : rows[t].completed => Atomic!Terminal(rows[t].status)
=============================================================================
