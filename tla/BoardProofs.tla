------------------------------ MODULE BoardProofs ------------------------------
(***************************************************************************)
(* Theorems about the boards, for every number of tasks, requests, streams *)
(* and projects.                                                           *)
(***************************************************************************)
EXTENDS TaskBoard, KanbanLive, TLAPS

(***************************************************************************)
(* TaskBoard.  The transactions implement AtomicBoard, a deleted project's *)
(* board is left alone, and no cycle of waits arises without the save of a *)
(* new tree.                                                               *)
(***************************************************************************)

ProjectRow == [deleted : BOOLEAN, step : Atomic!Steps, taskStatus : {"generating", "completed"}]
States == {"queued", "running", "committed", "refused", "aborted"}

(* The rows a transaction has read: a function on some of the tasks.       *)
Reads == UNION {[D -> Atomic!Row] : D \in SUBSET Tasks}
RequestRow == [state : States, task : Tasks, project : BOOLEAN, read : Reads,
               checked : BOOLEAN]

Types ==
  /\ rows \in [Tasks -> Atomic!Row \cup {NULL}]
  /\ project \in ProjectRow
  /\ req \in [Requests -> RequestRow]

(* What the locks guarantee a transaction: the rows are there and as it    *)
(* read them, nobody else has them, and the project is not deleted under   *)
(* it: neither while it has the project's row, nor while it has the row of *)
(* a task whose owner it has checked.                                      *)
Holds(r) ==
  /\ \A t \in Locked(r) : t \in Live /\ req[r].read[t] = rows[t]
  /\ req[r].project /\ Kind[r] # "save" => ~project.deleted
  /\ Locked(r) # {} /\ Kind[r] \in ProjectFirst => req[r].project
  /\ Kind[r] \in OneTask => Locked(r) \subseteq {req[r].task}
  /\ req[r].checked => HasTask(r) /\ ~project.deleted

Exclusive ==
  \A r, s \in Requests : r # s =>
    /\ \A t \in Locked(r) : t \notin Locked(s)
    /\ ~(req[r].project /\ req[s].project)

LockInv == Types /\ (\A r \in Requests : Holds(r)) /\ Exclusive

LEMMA ReadsHave ==
  ASSUME NEW f \in Reads
  PROVE  DOMAIN f \subseteq Tasks /\ \A t \in DOMAIN f : f[t] \in Atomic!Row
BY DEF Reads

LEMMA ReadsAre ==
  ASSUME NEW D \in SUBSET Tasks, NEW f \in [D -> Atomic!Row]
  PROVE  f \in Reads
BY DEF Reads

LEMMA NothingRead == Nothing \in Reads /\ DOMAIN Nothing = {}
<1>1. Nothing \in [{} -> Atomic!Row]
  BY DEF Nothing
<1>2. QED
  BY <1>1, ReadsAre DEF Nothing

(* What the handlers write is a row.                                       *)
LEMMA RowsWritten ==
  /\ Atomic!Cleared \in Atomic!Row
  /\ \A row \in Atomic!Row, status \in Statuses :
       /\ Atomic!Moved(row, status) \in Atomic!Row
       /\ Atomic!Reported(row, status) \in Atomic!Row
<1>1. [i \in Subtasks |-> "pending"] \in [Subtasks -> Statuses]
  BY TreeAssumption
<1>2. Atomic!Cleared \in Atomic!Row
  BY <1>1, TreeAssumption DEF Atomic!Cleared, Atomic!Row
<1>3. ASSUME NEW row \in Atomic!Row, NEW status \in Statuses
      PROVE  /\ Atomic!Moved(row, status) \in Atomic!Row
             /\ Atomic!Reported(row, status) \in Atomic!Row
  <2> DEFINE begun == (status = "in_progress") \/ (row.started /\ status # "pending")
             ended == Atomic!Terminal(status)
             started == row.started \/ status = "in_progress"
             completed == row.completed \/ Atomic!Terminal(status)
  <2>1. begun \in BOOLEAN /\ ended \in BOOLEAN /\ started \in BOOLEAN /\ completed \in BOOLEAN
    BY DEF Atomic!Terminal
  <2>2. /\ Atomic!Moved(row, status) =
             [row EXCEPT !.status = status, !.started = begun, !.completed = ended]
        /\ Atomic!Reported(row, status) =
             [row EXCEPT !.status = status, !.started = started, !.completed = completed]
    BY DEF Atomic!Moved, Atomic!Reported
  <2> HIDE DEF begun, ended, started, completed
  <2>3. \A b, c \in BOOLEAN :
          [row EXCEPT !.status = status, !.started = b, !.completed = c] \in Atomic!Row
    BY DEF Atomic!Row
  <2>4. QED
    BY <2>1, <2>2, <2>3
<1>4. QED
  BY <1>2, <1>3

LEMMA InitHolds == Init => LockInv
<1> SUFFICES ASSUME Init PROVE LockInv
  OBVIOUS
<1>1. rows \in [Tasks -> Atomic!Row \cup {NULL}] /\ project \in ProjectRow
  <2>1. PICK tree \in Trees \cup {{}} :
          rows = [t \in Tasks |-> IF t \in tree THEN Atomic!Cleared ELSE NULL]
    BY DEF Init, Atomic!BoardInit, Atomic!Cleared
  <2>2. rows \in [Tasks -> Atomic!Row \cup {NULL}]
    BY <2>1, RowsWritten
  <2>3. project \in ProjectRow
    BY DEF Init, Atomic!BoardInit, ProjectRow
  <2>4. QED
    BY <2>2, <2>3
<1>2. PICK target \in [Requests -> Tasks] :
        req = [r \in Requests |-> [state |-> "queued", task |-> target[r],
                                   project |-> FALSE, read |-> Nothing,
                                   checked |-> FALSE]]
  BY TaskBoardAssumption DEF Init
<1>3. req \in [Requests -> RequestRow]
  BY <1>2, NothingRead DEF RequestRow, States
<1>4. \A r \in Requests : Locked(r) = {} /\ ~req[r].project /\ ~req[r].checked
  BY <1>2, NothingRead DEF Locked
<1>5. QED
  BY <1>1, <1>3, <1>4 DEF LockInv, Types, Holds, Exclusive

-----------------------------------------------------------------------------
(* Locks.                                                                  *)

(* A transaction ends, and what it wrote nobody else has locked.           *)
LEMMA EndStep ==
  ASSUME LockInv, NEW r \in Requests, NEW state \in States, End(r, state),
         rows' \in [Tasks -> Atomic!Row \cup {NULL}], project' \in ProjectRow,
         \A s \in Requests \ {r} : \A t \in Locked(s) : rows'[t] = rows[t],
         \A s \in Requests \ {r} :
           /\ req[s].project /\ Kind[s] # "save" => ~project'.deleted
           /\ req[s].checked => ~project'.deleted
  PROVE  LockInv'
<1>1. req \in [Requests -> RequestRow]
  BY DEF LockInv, Types
<1>2. req' \in [Requests -> RequestRow]
  BY <1>1, NothingRead DEF End, RequestRow
<1>3. /\ Locked(r)' = {} /\ ~req'[r].project /\ ~req'[r].checked
      /\ \A s \in Requests \ {r} : req'[s] = req[s]
  BY <1>1, NothingRead DEF End, Locked, RequestRow
<1>4. Types'
  BY <1>2 DEF Types
<1>5. Holds(r)'
  BY <1>3 DEF Holds
<1>6. ASSUME NEW s \in Requests \ {r} PROVE Holds(s)'
  <2>1. Holds(s) /\ Locked(s)' = Locked(s) /\ req'[s] = req[s]
    BY <1>3 DEF LockInv, Locked
  <2>2. \A t \in Locked(s) : t \in Live' /\ rows'[t] = rows[t]
    BY <2>1 DEF Holds, Live
  <2>3. QED
    BY <2>1, <2>2 DEF Holds, HasTask
<1>7. Exclusive'
  <2>1. \A s \in Requests \ {r} : Locked(s)' = Locked(s) /\ req'[s] = req[s]
    BY <1>3 DEF Locked
  <2>2. QED
    BY <1>3, <2>1 DEF LockInv, Exclusive
<1>8. QED
  BY <1>4, <1>5, <1>6, <1>7 DEF LockInv

LEMMA ProjectLock ==
  ASSUME LockInv, NEW r \in Requests, LockProject(r)
  PROVE  LockInv'
<1>1. Types /\ req \in [Requests -> RequestRow]
  BY DEF LockInv, Types
<1>2. UNCHANGED <<project, rows>> /\ \A s \in Requests : ~req[s].project
  BY <1>1 DEF LockProject, Holders, RequestRow
<1>3. CASE project.deleted /\ Kind[r] # "save"
  BY <1>1, <1>2, <1>3, EndStep DEF LockProject, Types, LockInv, Holds, States
<1>4. CASE ~(project.deleted /\ Kind[r] # "save")
  <2>1. req' = [req EXCEPT ![r].project = TRUE]
    BY <1>4 DEF LockProject
  <2>2. /\ req' \in [Requests -> RequestRow]
        /\ req'[r].project /\ req'[r].task = req[r].task /\ req'[r].read = req[r].read
        /\ req'[r].checked = req[r].checked
        /\ \A s \in Requests \ {r} : req'[s] = req[s]
    BY <1>1, <2>1 DEF RequestRow
  <2>3. \A s \in Requests : Locked(s)' = Locked(s) /\ req'[s].read = req[s].read
                            /\ req'[s].task = req[s].task
    BY <2>2 DEF Locked
  <2>4. Types'
    BY <1>1, <1>2, <2>2 DEF Types
  <2>5. ASSUME NEW s \in Requests PROVE Holds(s)'
    BY <1>2, <1>4, <2>2, <2>3 DEF LockInv, Holds, Live, HasTask
  <2>6. Exclusive'
    BY <1>2, <2>2, <2>3 DEF LockInv, Exclusive
  <2>7. QED
    BY <2>4, <2>5, <2>6 DEF LockInv
<1>5. QED
  BY <1>3, <1>4

LEMMA RowLock ==
  ASSUME LockInv, NEW r \in Requests, LockRow(r)
  PROVE  LockInv'
<1>1. Types /\ req \in [Requests -> RequestRow]
  BY DEF LockInv, Types
<1>2. PICK t \in Wanted(r) :
        /\ \A s \in Requests : t \notin Locked(s)
        /\ req' = [req EXCEPT ![r] = WithRow(r, t)]
  BY DEF LockRow
<1>3. t \in Live /\ t \in Tasks /\ rows[t] \in Atomic!Row
  BY <1>1, <1>2 DEF Wanted, Live, Types
<1> DEFINE old == req[r].read
           new == [u \in DOMAIN old \cup {t} |-> IF u = t THEN rows[t] ELSE old[u]]
<1>4. old \in Reads
  BY <1>1 DEF RequestRow
<1>5. new \in Reads
  <2>1. DOMAIN old \cup {t} \in SUBSET Tasks /\ \A u \in DOMAIN old : old[u] \in Atomic!Row
    BY <1>3, <1>4, ReadsHave
  <2>2. new \in [DOMAIN old \cup {t} -> Atomic!Row]
    BY <1>3, <2>1
  <2>3. QED
    BY <2>1, <2>2, ReadsAre
<1>6. WithRow(r, t) = [req[r] EXCEPT !.read = new]
  BY DEF WithRow
<1>7. /\ DOMAIN new = DOMAIN old \cup {t} /\ new[t] = rows[t]
      /\ \A u \in DOMAIN old : u # t => new[u] = old[u]
  OBVIOUS
<1> HIDE DEF old, new
<1>8. /\ req' \in [Requests -> RequestRow]
      /\ req'[r].read = new /\ req'[r].project = req[r].project
      /\ req'[r].task = req[r].task /\ req'[r].checked = req[r].checked
      /\ \A s \in Requests \ {r} : req'[s] = req[s]
  BY <1>1, <1>2, <1>5, <1>6 DEF RequestRow
<1>9. /\ Locked(r)' = Locked(r) \cup {t}
      /\ \A s \in Requests \ {r} : Locked(s)' = Locked(s)
  BY <1>7, <1>8 DEF Locked, old
<1>10. UNCHANGED <<project, rows>>
  BY DEF LockRow
<1>11. Types'
  BY <1>1, <1>8, <1>10 DEF Types
<1>12. ASSUME NEW s \in Requests \ {r} PROVE Holds(s)'
  BY <1>8, <1>9, <1>10 DEF LockInv, Holds, Live, HasTask
<1>13. Holds(r)'
  <2>1. \A u \in Locked(r)' : u \in Live' /\ req'[r].read[u] = rows'[u]
    BY <1>3, <1>7, <1>8, <1>9, <1>10 DEF LockInv, Holds, Live, Locked, old
  <2>2. Kind[r] \in ProjectFirst => req[r].project
    BY <1>1 DEF LockRow, WantsRow, WantsProject, RequestRow
  <2>3. Kind[r] \in OneTask => t = req[r].task
    BY <1>2 DEF Wanted
  <2>4. req[r].checked => HasTask(r)' /\ ~project'.deleted
    BY <1>8, <1>9, <1>10 DEF LockInv, Holds, Live, HasTask
  <2>5. QED
    BY <1>8, <1>9, <1>10, <2>1, <2>2, <2>3, <2>4 DEF LockInv, Holds
<1>14. Exclusive'
  BY <1>2, <1>8, <1>9 DEF LockInv, Exclusive
<1>15. QED
  BY <1>11, <1>12, <1>13, <1>14 DEF LockInv

(* A transaction on one task ends, having written at most its own row.     *)
LEMMA RowStep ==
  ASSUME LockInv, NEW r \in Requests, HasTask(r), NEW row \in Atomic!Row,
         CommitRow(r, row)
  PROVE  LockInv'
<1>1. Types /\ UNCHANGED project /\ End(r, "committed")
  BY DEF LockInv, CommitRow
<1>2. rows' \in [Tasks -> Atomic!Row \cup {NULL}]
  BY <1>1 DEF CommitRow, Types
<1>3. ASSUME NEW s \in Requests \ {r}, NEW t \in Locked(s) PROVE rows'[t] = rows[t]
  <2>1. t # req[r].task /\ t \in Tasks
    BY DEF LockInv, Exclusive, HasTask, Holds, Live
  <2>2. QED
    BY <1>1, <2>1 DEF CommitRow, Types
<1>4. \A s \in Requests \ {r} :
        /\ req[s].project /\ Kind[s] # "save" => ~project'.deleted
        /\ req[s].checked => ~project'.deleted
  BY <1>1 DEF LockInv, Holds
<1>5. project' \in ProjectRow
  BY <1>1 DEF Types
<1>6. QED
  BY <1>1, <1>2, <1>3, <1>4, <1>5, EndStep DEF States

(* A transaction ends and has written nothing.                             *)
LEMMA SilentEnd ==
  ASSUME LockInv, NEW r \in Requests, NEW state \in States, End(r, state),
         UNCHANGED <<project, rows>>
  PROVE  LockInv'
<1>1. /\ rows' \in [Tasks -> Atomic!Row \cup {NULL}] /\ project' \in ProjectRow
      /\ \A s \in Requests \ {r} : \A t \in Locked(s) : rows'[t] = rows[t]
      /\ \A s \in Requests \ {r} :
           /\ req[s].project /\ Kind[s] # "save" => ~project'.deleted
           /\ req[s].checked => ~project'.deleted
  BY DEF LockInv, Types, Holds
<1>2. QED
  BY <1>1, EndStep

(* A transaction that locked every row ends, whatever it has written.      *)
LEMMA WholeStep ==
  ASSUME LockInv, NEW r \in Requests, Kind[r] \notin OneTask, Wanted(r) = {},
         End(r, "committed"),
         rows' \in [Tasks -> Atomic!Row \cup {NULL}], project' \in ProjectRow,
         project'.deleted # project.deleted => req[r].project
  PROVE  LockInv'
<1>1. \A s \in Requests \ {r} : Locked(s) = {}
  <2>1. Live \subseteq Locked(r)
    BY DEF Wanted
  <2>2. QED
    BY <2>1 DEF LockInv, Exclusive, Holds
<1>2. ASSUME NEW s \in Requests \ {r}, req[s].project, Kind[s] # "save"
      PROVE  ~project'.deleted
  <2>1. ~project.deleted /\ ~req[r].project
    BY <1>2 DEF LockInv, Holds, Exclusive
  <2>2. QED
    BY <2>1
<1>3. ASSUME NEW s \in Requests \ {r} PROVE ~req[s].checked
  BY <1>1, <1>3 DEF LockInv, Holds, HasTask
<1>4. QED
  BY <1>1, <1>2, <1>3, EndStep DEF States

(* A transaction gets its connection, or the answer that it may go on.     *)
LEMMA BeginStep ==
  ASSUME LockInv, NEW r \in Requests, NEW state \in States,
         req' = [req EXCEPT ![r].state = state], UNCHANGED <<project, rows>>
  PROVE  LockInv'
<1>1. req \in [Requests -> RequestRow]
  BY DEF LockInv, Types
<1>2. /\ req' \in [Requests -> RequestRow]
      /\ \A s \in Requests :
           /\ req'[s].task = req[s].task /\ req'[s].project = req[s].project
           /\ req'[s].read = req[s].read /\ req'[s].checked = req[s].checked
  BY <1>1 DEF RequestRow
<1>3. QED
  BY <1>2 DEF LockInv, Types, Holds, Exclusive, Locked, Live, HasTask

LEMMA VerifyStep ==
  ASSUME LockInv, NEW r \in Requests, VerifyOwnership(r)
  PROVE  LockInv'
<1>1. CASE project.deleted
  BY <1>1, SilentEnd DEF VerifyOwnership, Refuse, States
<1>2. CASE ~project.deleted
  <2>1. /\ req' = [req EXCEPT ![r].checked = TRUE] /\ UNCHANGED <<project, rows>>
        /\ HasTask(r)
    BY <1>2 DEF VerifyOwnership, Unchecked
  <2>2. req \in [Requests -> RequestRow]
    BY DEF LockInv, Types
  <2>3. /\ req' \in [Requests -> RequestRow]
        /\ \A s \in Requests :
             /\ req'[s].task = req[s].task /\ req'[s].project = req[s].project
             /\ req'[s].read = req[s].read /\ (s # r => req'[s].checked = req[s].checked)
    BY <2>1, <2>2 DEF RequestRow
  <2>4. QED
    BY <1>2, <2>1, <2>3 DEF LockInv, Types, Holds, Exclusive, Locked, Live, HasTask
<1>3. QED
  BY <1>1, <1>2

LEMMA ReadyFacts ==
  ASSUME NEW r \in Requests, NEW kind, Ready(r, kind)
  PROVE  /\ Running(r) /\ Kind[r] = kind /\ Wanted(r) = {}
         /\ kind \in ProjectFirst \cup {"save"} => req[r].project
  BY DEF Ready, WantsProject, ProjectFirst

LEMMA BoardRow ==
  ASSUME LockInv, NEW r \in Requests, HasTask(r)
  PROVE  /\ req[r].task \in Live /\ req[r].task \in Tasks
         /\ rows[req[r].task] \in Atomic!Row
         /\ req[r].read[req[r].task] = rows[req[r].task]
  BY DEF LockInv, Types, Holds, HasTask, Live

LEMMA SubtaskRow ==
  ASSUME NEW row \in Atomic!Row, NEW i \in Subtasks, NEW status \in Statuses
  PROVE  [row EXCEPT !.subs = [row.subs EXCEPT ![i] = status]] \in Atomic!Row
<1>1. [row.subs EXCEPT ![i] = status] \in [Subtasks -> Statuses]
  BY DEF Atomic!Row
<1>2. QED
  BY <1>1 DEF Atomic!Row

(* Every row after a reset, a new tree or a deletion.                      *)
LEMMA AllRows ==
  ASSUME NEW r \in Requests, LockInv,
         WriteReset(r) \/ WriteTree(r) \/ WriteDelete(r)
  PROVE  rows' \in [Tasks -> Atomic!Row \cup {NULL}]
  BY RowsWritten DEF WriteReset, WriteTree, WriteDelete, LockInv, Types

LEMMA StepLockInv ==
  ASSUME LockInv, NEW r \in Requests, Step(r) \/ Crash(r)
  PROVE  LockInv'
<1>1. CASE LockProject(r) BY <1>1, ProjectLock
<1>2. CASE LockRow(r) BY <1>2, RowLock
<1>3. CASE TaskGone(r) BY <1>3, SilentEnd DEF TaskGone, States
<1>b. CASE Begin(r) BY <1>b, BeginStep DEF Begin, States
<1>v. CASE VerifyOwnership(r) BY <1>v, VerifyStep
<1>4. CASE WriteBoard(r)
  BY <1>4, BoardRow, RowsWritten, RowStep DEF WriteBoard
<1>5. CASE WriteStatus(r)
  <2>1. PICK status \in Statuses :
          \/ Refuse(r)
          \/ CommitRow(r, Atomic!Reported(rows[req[r].task], status))
    BY <1>5 DEF WriteStatus
  <2>2. CASE Refuse(r) BY <2>2, SilentEnd DEF Refuse, States
  <2>3. CASE CommitRow(r, Atomic!Reported(rows[req[r].task], status))
    BY <1>5, <2>3, BoardRow, RowsWritten, RowStep DEF WriteStatus
  <2>4. QED BY <2>1, <2>2, <2>3
<1>6. CASE WriteSubtask(r)
  <2>1. PICK i \in Subtasks, status \in Statuses :
          CommitRow(r, [rows[req[r].task] EXCEPT
                         !.subs = [req[r].read[req[r].task].subs EXCEPT ![i] = status]])
    BY <1>6 DEF WriteSubtask
  <2>2. HasTask(r) BY <1>6 DEF WriteSubtask
  <2>3. QED BY <2>1, <2>2, BoardRow, SubtaskRow, RowStep
<1>7. CASE WriteReset(r)
  <2>1. Wanted(r) = {} /\ Kind[r] \notin OneTask /\ UNCHANGED project /\ End(r, "committed")
    BY <1>7 DEF WriteReset, Ready, OneTask
  <2>2. project' \in ProjectRow BY <2>1 DEF LockInv, Types
  <2>3. QED BY <1>7, <2>1, <2>2, AllRows, WholeStep
<1>8. CASE WriteTree(r)
  <2>1. Wanted(r) = {} /\ Kind[r] \notin OneTask /\ End(r, "committed")
    BY <1>8 DEF WriteTree, Ready, OneTask
  <2>2. project' \in ProjectRow /\ project'.deleted = project.deleted
    BY <1>8 DEF WriteTree, LockInv, Types, ProjectRow, Atomic!Steps
  <2>3. QED BY <1>8, <2>1, <2>2, AllRows, WholeStep
<1>9. CASE WriteDelete(r)
  <2>1. Wanted(r) = {} /\ Kind[r] \notin OneTask /\ End(r, "committed") /\ req[r].project
    BY <1>9 DEF WriteDelete, Ready, OneTask, WantsProject, ProjectFirst
  <2>2. project' \in ProjectRow
    BY <1>9 DEF WriteDelete, LockInv, Types, ProjectRow
  <2>3. QED BY <1>9, <2>1, <2>2, AllRows, WholeStep
<1>10. CASE Abort(r) \/ Crash(r) BY <1>10, SilentEnd DEF Abort, Crash, States
<1>11. QED
  BY <1>1, <1>2, <1>3, <1>b, <1>v, <1>4, <1>5, <1>6, <1>7, <1>8, <1>9, <1>10 DEF Step

THEOREM LockTheorem == Spec => []LockInv
<1>1. LockInv /\ [Next]_vars => LockInv'
  <2> SUFFICES ASSUME LockInv, [Next]_vars PROVE LockInv' OBVIOUS
  <2>1. CASE Next BY <2>1, StepLockInv DEF Next
  <2>2. CASE UNCHANGED vars
    BY <2>2 DEF vars, LockInv, Types, Holds, Exclusive, Locked, Live, HasTask
  <2>3. QED BY <2>1, <2>2
<1>2. QED BY <1>1, InitHolds, PTL DEF Spec

-----------------------------------------------------------------------------
(* Refinement.                                                             *)

LEMMA InitBoard == Init => Atomic!BoardInit
BY DEF Init

(* Each step is one operation of the abstract board, or leaves it alone.   *)
LEMMA StepIsAtomic ==
  ASSUME LockInv, NEW r \in Requests, Step(r) \/ Crash(r)
  PROVE  Atomic!BoardNext \/ UNCHANGED <<project, rows>>
<1>1. CASE \/ Begin(r) \/ LockProject(r) \/ LockRow(r) \/ TaskGone(r) \/ VerifyOwnership(r)
            \/ Abort(r) \/ Crash(r)
  BY <1>1 DEF Begin, LockProject, LockRow, TaskGone, VerifyOwnership, Refuse, Abort, Crash
<1>2. CASE WriteBoard(r)
  <2>1. HasTask(r) /\ Ready(r, "board") BY <1>2 DEF WriteBoard
  <2>2. ~project.deleted
    BY <2>1, ReadyFacts DEF LockInv, Holds, ProjectFirst
  <2>3. PICK status \in Statuses : CommitRow(r, Atomic!Moved(rows[req[r].task], status))
    BY <1>2 DEF WriteBoard
  <2>4. req[r].task \in Tasks /\ req[r].task \in Atomic!Live
    BY <2>1, BoardRow DEF Live, Atomic!Live
  <2>5. Atomic!Move(req[r].task, status)
    BY <2>2, <2>3, <2>4 DEF CommitRow, Atomic!Move, Atomic!OnlyRow
  <2>6. QED BY <2>4, <2>5 DEF Atomic!BoardNext
<1>3. CASE WriteStatus(r)
  <2>1. HasTask(r) /\ ~project.deleted BY <1>3 DEF WriteStatus, LockInv, Holds
  <2>2. PICK status \in Statuses :
          IF status = "completed" /\ req[r].read[req[r].task].status = "pending"
          THEN Refuse(r)
          ELSE CommitRow(r, Atomic!Reported(rows[req[r].task], status))
    BY <1>3 DEF WriteStatus
  <2>3. /\ req[r].task \in Tasks /\ req[r].task \in Atomic!Live
        /\ req[r].read[req[r].task] = rows[req[r].task]
    BY <2>1, BoardRow DEF Live, Atomic!Live
  <2>4. CASE status = "completed" /\ rows[req[r].task].status = "pending"
    BY <2>2, <2>3, <2>4 DEF Refuse
  <2>5. CASE ~(status = "completed" /\ rows[req[r].task].status = "pending")
    <3>1. Atomic!Report(req[r].task, status)
      BY <2>1, <2>2, <2>3, <2>5 DEF CommitRow, Atomic!Report, Atomic!OnlyRow
    <3>2. QED BY <2>3, <3>1 DEF Atomic!BoardNext
  <2>6. QED BY <2>4, <2>5
<1>4. CASE WriteSubtask(r)
  <2>1. HasTask(r) /\ ~project.deleted BY <1>4 DEF WriteSubtask, LockInv, Holds
  <2>2. PICK i \in Subtasks, status \in Statuses :
          CommitRow(r, [rows[req[r].task] EXCEPT
                         !.subs = [req[r].read[req[r].task].subs EXCEPT ![i] = status]])
    BY <1>4 DEF WriteSubtask
  <2>3. /\ req[r].task \in Tasks /\ req[r].task \in Atomic!Live
        /\ req[r].read[req[r].task] = rows[req[r].task]
    BY <2>1, BoardRow DEF Live, Atomic!Live
  <2>4. Atomic!ReportSubtask(req[r].task, i, status)
    BY <2>1, <2>2, <2>3 DEF CommitRow, Atomic!ReportSubtask, Atomic!OnlyRow
  <2>5. QED BY <2>3, <2>4 DEF Atomic!BoardNext
<1>5. CASE WriteReset(r)
  <2>1. Ready(r, "reset") /\ Live \subseteq Locked(r)
    BY <1>5 DEF WriteReset, Ready, Wanted, OneTask
  <2>2. ~project.deleted
    BY <2>1, ReadyFacts DEF LockInv, Holds, ProjectFirst
  <2>3. \A t \in Live : req[r].read[t] = rows[t]
    BY <2>1 DEF LockInv, Holds
  <2>4. rows' = [t \in Tasks |-> IF t \in Atomic!Live THEN Atomic!Reset(rows[t]) ELSE NULL]
    BY <1>5, <2>1, <2>3 DEF WriteReset, Live, Atomic!Live, Atomic!Reset
  <2>5. QED BY <1>5, <2>2, <2>4 DEF WriteReset, Atomic!ResetAll, Atomic!BoardNext
<1>6. CASE WriteTree(r)
  BY <1>6, TaskBoardAssumption DEF WriteTree, Atomic!Replace, Atomic!BoardNext
<1>7. CASE WriteDelete(r)
  <2>1. Ready(r, "delete") BY <1>7 DEF WriteDelete
  <2>2. ~project.deleted
    BY <2>1, ReadyFacts DEF LockInv, Holds, ProjectFirst
  <2>3. QED BY <1>7, <2>2 DEF WriteDelete, Atomic!Purge, Atomic!BoardNext
<1>8. QED
  BY <1>1, <1>2, <1>3, <1>4, <1>5, <1>6, <1>7 DEF Step

(* Every transaction takes effect at once: the locked rows are still what  *)
(* the transaction read when it writes them.                               *)
THEOREM ImplementsTheorem == Spec => ImplementsBoard
<1>1. LockInv /\ [Next]_vars => [Atomic!BoardNext]_(Atomic!boardVars)
  <2> SUFFICES ASSUME LockInv, [Next]_vars
               PROVE  Atomic!BoardNext \/ UNCHANGED <<project, rows>>
    BY DEF Atomic!boardVars
  <2>1. CASE Next BY <2>1, StepIsAtomic DEF Next
  <2>2. CASE UNCHANGED vars BY <2>2 DEF vars
  <2>3. QED BY <2>1, <2>2
<1>2. QED
  BY <1>1, InitBoard, LockTheorem, PTL DEF Spec, ImplementsBoard, Atomic!BoardSpec

-----------------------------------------------------------------------------
(* The tasks of a deleted project are written by nobody but a generation.  *)
THEOREM TombstoneTheorem == Spec => TombstoneUntouched
<1> DEFINE Kept == project.deleted => \/ UNCHANGED rows
                                      \/ \E r \in Requests : Kind[r] = "save" /\ req'[r] # req[r]
<1>1. LockInv /\ [Next]_vars => [Kept]_vars
  <2> SUFFICES ASSUME LockInv, Next, project.deleted PROVE Kept
    OBVIOUS
  <2>1. PICK r \in Requests : Step(r) \/ Crash(r) BY DEF Next
  <2>2. CASE \/ Begin(r) \/ LockProject(r) \/ LockRow(r) \/ TaskGone(r) \/ VerifyOwnership(r)
              \/ Abort(r) \/ Crash(r)
    BY <2>2 DEF Begin, LockProject, LockRow, TaskGone, VerifyOwnership, Refuse, Abort, Crash
  <2>3. CASE WriteStatus(r) \/ WriteSubtask(r)
    BY <2>3 DEF WriteStatus, WriteSubtask, LockInv, Holds
  <2>4. CASE WriteBoard(r) \/ WriteReset(r) \/ WriteDelete(r)
    <3>1. Kind[r] \in ProjectFirst /\ req[r].project
      BY <2>4, ReadyFacts DEF WriteBoard, WriteReset, WriteDelete, ProjectFirst
    <3>2. QED
      BY <3>1 DEF LockInv, Holds, ProjectFirst
  <2>5. CASE WriteTree(r)
    <3>1. Running(r) /\ Kind[r] = "save" /\ End(r, "committed")
      BY <2>5 DEF WriteTree, Ready
    <3>2. req'[r].state = "committed"
      BY <3>1 DEF End, LockInv, Types, RequestRow
    <3>3. QED
      BY <3>1, <3>2 DEF Running
  <2>6. QED
    BY <2>1, <2>2, <2>3, <2>4, <2>5 DEF Step
<1>2. QED
  BY <1>1, LockTheorem, PTL DEF Spec, TombstoneUntouched

-----------------------------------------------------------------------------
(* Deadlock.                                                               *)

(* Whoever holds a row and is of a kind that waits at all, but for a save, *)
(* holds the project.                                                      *)
LEMMA WaitersHoldProject ==
  ASSUME LockInv, NEW r \in Requests, Holders(r) # {}, Kind[r] # "save",
         Locked(r) # {}
  PROVE  req[r].project
<1>1. Kind[r] \in Kinds BY TaskBoardAssumption
<1>2. CASE Kind[r] \in ProjectFirst
  BY <1>2 DEF LockInv, Holds
<1>3. CASE Kind[r] \notin ProjectFirst
  <2>1. Kind[r] \in OneTask BY <1>1, <1>3 DEF Kinds, ProjectFirst, OneTask
  <2>2. Wanted(r) = {}
    BY <2>1 DEF LockInv, Holds, Wanted
  <2>3. ~WantsProject(r) /\ ~WantsRow(r)
    BY <1>3, <2>2 DEF WantsProject, WantsRow
  <2>4. QED BY <2>3 DEF Holders
<1>4. QED BY <1>2, <1>3

(* In a cycle of waits without a save, everybody waits for one that holds  *)
(* the project; there is one such at most, and it waits for itself.        *)
LEMMA HolderHasProject ==
  ASSUME LockInv, NEW r \in Requests, NEW s \in Holders(r),
         Holders(s) # {}, Kind[s] # "save"
  PROVE  s \in Requests /\ req[s].project
<1>1. s \in Requests BY DEF Holders
<1>2. CASE WantsProject(r) BY <1>2 DEF Holders
<1>3. CASE ~WantsProject(r)
  <2>1. Wanted(r) \cap Locked(s) # {} BY <1>3 DEF Holders
  <2>2. QED BY <1>1, <2>1, WaitersHoldProject
<1>4. QED BY <1>1, <1>2, <1>3

LEMMA NotItself ==
  ASSUME NEW r \in Requests
  PROVE  r \notin Holders(r)
BY DEF Holders, WantsProject, WantsRow, Wanted

LEMMA CycleHasSave == LockInv => DeadlockNeedsSave
<1> SUFFICES ASSUME LockInv, NEW S \in Cycles, \A r \in S : Kind[r] # "save"
             PROVE  FALSE
  BY DEF DeadlockNeedsSave
<1>1. S \subseteq Requests /\ S # {} /\ \A r \in S : Holders(r) \cap S # {}
  BY DEF Cycles, Waiting, Stuck
<1>2. PICK r \in S, s \in S : s \in Holders(r)
  BY <1>1
<1>3. PICK u \in S : u \in Holders(s)
  BY <1>1
<1>4. req[s].project /\ req[u].project
  BY <1>1, <1>2, <1>3, HolderHasProject
<1>5. s # u
  BY <1>1, <1>3, NotItself
<1>6. QED
  BY <1>1, <1>4, <1>5 DEF LockInv, Exclusive

(* No cycle of waits arises without the save of a new tree.                *)
THEOREM DeadlockTheorem == Spec => []DeadlockNeedsSave
BY LockTheorem, CycleHasSave, PTL

-----------------------------------------------------------------------------
(***************************************************************************)
(* KanbanLive.  Streams alone never bring a page another project's board,  *)
(* nor an older one.                                                       *)
(***************************************************************************)

PageRec == [proj : Project \cup {NONE}, sse : Board \cup {NONE, Junk}, failed : BOOLEAN,
            loading : BOOLEAN, attempts : 0..MaxAttempts, timer : BOOLEAN]
ConnRec == [proj : Project \cup {NONE}, at : {"none", "connecting", "open", "over"},
            errors : 0..MaxErrors, queue : Seq(Board \cup {Junk})]
PollRec == [at : {"idle", "sent", "read"}, data : Board \cup {NONE}, failures : 0..MaxRetries]
FetchRec == [proj : Project, data : Board \cup {NONE}, mine : BOOLEAN]
ResetRec == [proj : Project, failed : BOOLEAN, done : BOOLEAN, left : Project \cup {NONE}]

LiveTypes ==
  /\ board \in [Project -> 0..MaxVersion] /\ alive \subseteq Project
  /\ page \in PageRec /\ conn \in [Conn -> ConnRec]
  /\ cache \in [Project -> Board \cup {NONE, Junk}] /\ poll \in [Project -> PollRec]
  /\ refresh \subseteq FetchRec /\ reset \in ResetRec \cup {NONE}
  /\ faults \in 0..MaxFaults /\ asked \in 0..MaxRefreshes /\ visits \in 0..MaxVisits

(* One stream at most is attached, and it is of the project shown.         *)
OneAttached ==
  /\ \A k \in Conn : Attached(k) => conn[k].proj = page.proj /\ page.proj # NONE
  /\ \A k, l \in Conn : Attached(k) /\ Attached(l) => k = l
  /\ page.timer => page.proj # NONE

(* What is on its way is of the project shown, and no older than what is   *)
(* shown.                                                                  *)
Fits(x) ==
  x # Junk => /\ x \in Board /\ x.proj = page.proj /\ x.ver <= board[page.proj]
              /\ IsBoard(page.sse) => page.sse.ver <= x.ver

Queued(k) ==
  conn[k].queue # << >> => Fits(Head(conn[k].queue)) /\ Tail(conn[k].queue) = << >>

(* So it is until something is refreshed by hand.                          *)
StreamAlone ==
  asked = 0 =>
    /\ refresh = {} /\ reset = NONE
    /\ \A k \in Conn : Attached(k) => Queued(k)
    /\ IsBoard(page.sse) => page.sse.proj = page.proj /\ page.sse.ver <= board[page.proj]

LiveInv == LiveTypes /\ OneAttached /\ StreamAlone

-----------------------------------------------------------------------------
LEMMA Constants ==
  /\ MaxAttempts \in Nat /\ MaxErrors \in Nat /\ MaxRetries \in Nat /\ MaxVersion \in Nat
  /\ MaxFaults \in Nat /\ MaxRefreshes \in Nat /\ MaxVisits \in Nat
  /\ MaxErrors > 0 /\ NONE \notin Project
BY LiveAssumption

LEMMA Blanks ==
  /\ NoConn \in ConnRec /\ NoConn.at = "none" /\ NoConn.queue = << >>
  /\ Closed \in PageRec /\ Closed.sse = NONE /\ ~Closed.timer /\ Idle \in PollRec /\ Junk \notin Board
  /\ \A x \in Board : x # Junk
<1>1. NoConn \in ConnRec /\ NoConn.at = "none" /\ NoConn.queue = << >>
  BY Constants DEF NoConn, ConnRec
<1>2. Closed \in PageRec /\ Closed.sse = NONE /\ ~Closed.timer /\ Idle \in PollRec
  BY Constants DEF Closed, PageRec, Idle, PollRec
<1>3. Junk \notin Board
  BY Constants DEF Junk, Board
<1>4. QED
  BY <1>1, <1>2, <1>3

LEMMA NowOK ==
  ASSUME LiveTypes, NEW p \in Project
  PROVE  Now(p) \in Board /\ Now(p).proj = p /\ Now(p).ver = board[p] /\ Now(p) # Junk
BY Blanks DEF Now, Board, LiveTypes

(* The streams before the effect of the hook, and after it.                *)
LEMMA DetachedOK ==
  Detached \in [Conn -> ConnRec] /\ \A k \in Conn : Detached[k].at = "none"
BY Blanks DEF Detached

LEMMA ConnectedOK ==
  ASSUME NEW p \in Project, CanConnect
  PROVE  LET C == Connected(p, Detached) IN
         /\ C \in [Conn -> ConnRec]
         /\ \E k \in Conn : /\ C[k].proj = p /\ C[k].queue = << >>
                            /\ \A l \in Conn : l # k => C[l].at = "none"
<1> DEFINE k == CHOOSE k \in Conn : Detached[k].at = "none"
           r == [NoConn EXCEPT !.proj = p, !.at = "connecting"]
<1>1. k \in Conn
  BY DEF CanConnect
<1>2. r \in ConnRec /\ r.proj = p /\ r.queue = << >>
  BY Blanks DEF ConnRec
<1>3. Connected(p, Detached) = [Detached EXCEPT ![k] = r]
  BY DEF Connected
<1> HIDE DEF k, r
<1>4. QED
  BY <1>1, <1>2, <1>3, DetachedOK

(* What a new page or a new connection leaves.                             *)
LEMMA Fresh ==
  ASSUME LiveInv, NEW p \in Project, CanConnect, conn' = Connected(p, Detached),
         page' \in PageRec, page'.proj = p, board' = board,
         UNCHANGED <<refresh, reset, asked>>,
         page'.sse = NONE \/ (page'.sse = page.sse /\ page.proj = p)
  PROVE  conn' \in [Conn -> ConnRec] /\ OneAttached' /\ StreamAlone'
<1>1. conn' \in [Conn -> ConnRec]
  BY ConnectedOK
<1>2. PICK k \in Conn : /\ conn'[k].proj = p /\ conn'[k].queue = << >>
                        /\ \A l \in Conn : l # k => conn'[l].at = "none"
  BY ConnectedOK
<1>3. p # NONE
  BY Constants
<1>4. OneAttached'
  BY <1>2, <1>3 DEF OneAttached, Attached
<1>5. StreamAlone'
  <2> SUFFICES ASSUME asked' = 0
               PROVE  /\ refresh' = {} /\ reset' = NONE
                      /\ \A l \in Conn : Attached(l)' => Queued(l)'
                      /\ IsBoard(page'.sse) =>
                           page'.sse.proj = page'.proj /\ page'.sse.ver <= board'[page'.proj]
    BY DEF StreamAlone, IsBoard
  <2>1. \A l \in Conn : Attached(l)' => Queued(l)'
    BY <1>2 DEF Attached, Queued
  <2>2. QED
    BY <2>1 DEF LiveInv, StreamAlone, IsBoard
<1>6. QED
  BY <1>1, <1>4, <1>5

LEMMA ShowStep == ASSUME LiveInv, NEW p \in Project, Show(p) PROVE LiveInv'
<1> DEFINE P == [Closed EXCEPT !.proj = p, !.loading = TRUE]
<1>1. P \in PageRec /\ P.proj = p /\ P.sse = NONE
  BY Blanks DEF PageRec
<1>2. page' = P
  BY DEF Show
<1> HIDE DEF P
<1>3. conn' \in [Conn -> ConnRec] /\ OneAttached' /\ StreamAlone'
  BY <1>1, <1>2, Fresh DEF Show, byHand
<1>4. LiveTypes'
  BY <1>1, <1>2, <1>3, Constants DEF Show, LiveInv, LiveTypes, query, byHand
<1>5. QED
  BY <1>3, <1>4 DEF LiveInv

LEMMA ReconnectStep == ASSUME LiveInv, Reconnect PROVE LiveInv'
<1> DEFINE P == [page EXCEPT !.timer = FALSE]
<1>1. page \in PageRec /\ page.proj \in Project
  BY DEF LiveInv, LiveTypes, PageRec, OneAttached, Reconnect
<1>2. P \in PageRec /\ P.proj = page.proj /\ P.sse = page.sse
  BY <1>1 DEF PageRec
<1>3. page' = P
  BY DEF Reconnect
<1> HIDE DEF P
<1>4. conn' \in [Conn -> ConnRec] /\ OneAttached' /\ StreamAlone'
  BY <1>1, <1>2, <1>3, Fresh DEF Reconnect, byHand, bounds
<1>5. LiveTypes'
  BY <1>2, <1>3, <1>4 DEF Reconnect, LiveInv, LiveTypes, query, byHand, bounds
<1>6. QED
  BY <1>4, <1>5 DEF LiveInv

LEMMA LeaveStep == ASSUME LiveInv, Leave PROVE LiveInv'
<1>1. conn' \in [Conn -> ConnRec] /\ \A k \in Conn : conn'[k].at = "none"
  BY DetachedOK DEF Leave
<1>2. page' = Closed /\ page' \in PageRec /\ page'.sse = NONE /\ ~page'.timer
  BY Blanks DEF Leave, Closed
<1>3. refresh' \subseteq FetchRec
  <2>1. \A f \in FetchRec : [f EXCEPT !.mine = FALSE] \in FetchRec
    BY DEF FetchRec
  <2>2. QED
    BY <2>1 DEF Leave, LiveInv, LiveTypes
<1>4. reset' \in ResetRec \cup {NONE} /\ (reset = NONE => reset' = NONE)
  <2>1. page.proj \in Project /\ reset \in ResetRec \cup {NONE}
    BY DEF Leave, LiveInv, LiveTypes, PageRec
  <2>2. reset' \in {reset, [reset EXCEPT !.left = page.proj]} /\ (reset = NONE => reset' = NONE)
    BY DEF Leave
  <2>3. QED
    BY <2>1, <2>2 DEF ResetRec
<1>5. LiveTypes'
  BY <1>1, <1>2, <1>3, <1>4 DEF Leave, LiveInv, LiveTypes, query, bounds
<1>6. OneAttached'
  BY <1>1, <1>2 DEF OneAttached, Attached
<1>7. StreamAlone'
  <2>1. asked' = asked /\ (refresh = {} => refresh' = {})
    BY DEF Leave, bounds
  <2>2. ~IsBoard(page'.sse)
    BY <1>2 DEF IsBoard
  <2>3. QED
    BY <1>1, <1>4, <2>1, <2>2 DEF LiveInv, StreamAlone, Attached, IsBoard
<1>8. QED
  BY <1>5, <1>6, <1>7 DEF LiveInv

-----------------------------------------------------------------------------
(* The streams.                                                            *)

LEMMA ConnPut ==
  ASSUME LiveTypes, NEW k \in Conn, NEW r \in ConnRec, conn' = [conn EXCEPT ![k] = r]
  PROVE  /\ conn' \in [Conn -> ConnRec] /\ conn'[k] = r
         /\ \A l \in Conn : l # k => conn'[l] = conn[l]
BY DEF LiveTypes

LEMMA ConnRecs == LiveTypes => page \in PageRec /\ \A k \in Conn : conn[k] \in ConnRec
BY DEF LiveTypes

(* A stream is gone; the page stays what it was, but for its timer and the *)
(* way it is kept up to date.                                              *)
LEMMA CutOK ==
  ASSUME LiveInv, NEW k \in Conn, Attached(k), Cut(k), page' \in PageRec,
         page'.proj = page.proj, page'.sse = page.sse,
         UNCHANGED <<board, refresh, reset, asked>>
  PROVE  conn' \in [Conn -> ConnRec] /\ OneAttached' /\ StreamAlone'
<1>1. /\ conn' \in [Conn -> ConnRec] /\ conn'[k].at = "none"
      /\ \A l \in Conn : l # k => conn'[l] = conn[l]
  BY Blanks, ConnPut DEF Cut, LiveInv
<1>2. page.proj # NONE
  BY DEF LiveInv, OneAttached
<1>3. \A l \in Conn : Attached(l)' => Attached(l) /\ conn'[l] = conn[l]
  BY <1>1 DEF Attached
<1>4. OneAttached'
  BY <1>2, <1>3 DEF LiveInv, OneAttached
<1>5. StreamAlone'
  <2>1. \A l \in Conn : Attached(l)' /\ Queued(l) => Queued(l)'
    BY <1>3 DEF Queued, Fits, IsBoard
  <2>2. QED
    BY <1>3, <2>1 DEF LiveInv, StreamAlone, IsBoard
<1>6. QED
  BY <1>1, <1>4, <1>5

LEMMA OnErrorOK ==
  ASSUME LiveTypes, NEW k \in Conn, OnError(k)
  PROVE  page' \in PageRec /\ page'.proj = page.proj /\ page'.sse = page.sse
<1>1. page \in PageRec
  BY DEF LiveTypes
<1>2. CASE page.attempts < MaxAttempts
  <2> DEFINE n == page.attempts + 1
  <2>1. n \in 0..MaxAttempts
    BY <1>1, <1>2, Constants DEF PageRec
  <2>2. page' = [page EXCEPT !.attempts = n, !.timer = TRUE]
    BY <1>2 DEF OnError
  <2> HIDE DEF n
  <2>3. QED
    BY <1>1, <2>1, <2>2 DEF PageRec
<1>3. CASE ~(page.attempts < MaxAttempts)
  BY <1>1, <1>3 DEF OnError, PageRec
<1>4. QED
  BY <1>2, <1>3

LEMMA FaultOK == LiveTypes /\ Fault => /\ faults' \in 0..MaxFaults /\ asked' = asked
                                      /\ visits' = visits
BY Constants DEF LiveTypes, Fault

LEMMA EndedStep == ASSUME LiveInv, NEW k \in Conn, Ended(k) PROVE LiveInv'
<1>1. page' \in PageRec /\ page'.proj = page.proj /\ page'.sse = page.sse /\ Cut(k) /\ Attached(k)
  BY OnErrorOK DEF LiveInv, Ended, OnError, Attached
<1>2. conn' \in [Conn -> ConnRec] /\ OneAttached' /\ StreamAlone'
  BY <1>1, CutOK DEF Ended, byHand, bounds
<1>3. LiveTypes'
  BY <1>1, <1>2 DEF Ended, LiveInv, LiveTypes, query, byHand, bounds
<1>4. QED
  BY <1>2, <1>3 DEF LiveInv

LEMMA BrokeStep == ASSUME LiveInv, NEW k \in Conn, Broke(k) PROVE LiveInv'
<1>1. page' \in PageRec /\ page'.proj = page.proj /\ page'.sse = page.sse /\ Cut(k) /\ Attached(k)
  BY OnErrorOK DEF LiveInv, Broke, OnError
<1>2. faults' \in 0..MaxFaults /\ asked' = asked /\ visits' = visits
  BY FaultOK DEF Broke, LiveInv
<1>3. conn' \in [Conn -> ConnRec] /\ OneAttached' /\ StreamAlone'
  BY <1>1, <1>2, CutOK DEF Broke, byHand
<1>4. LiveTypes'
  BY <1>1, <1>2, <1>3 DEF Broke, LiveInv, LiveTypes, query, byHand
<1>5. QED
  BY <1>3, <1>4 DEF LiveInv

LEMMA OnMalformedStep == ASSUME LiveInv, NEW k \in Conn, OnMalformed(k) PROVE LiveInv'
<1>1. /\ page' \in PageRec /\ page'.proj = page.proj /\ page'.sse = page.sse
      /\ Cut(k) /\ Attached(k)
  BY DEF LiveInv, LiveTypes, OnMalformed, Arrives, PageRec
<1>2. faults' \in 0..MaxFaults /\ asked' = asked /\ visits' = visits
  BY FaultOK DEF OnMalformed, LiveInv
<1>3. conn' \in [Conn -> ConnRec] /\ OneAttached' /\ StreamAlone'
  BY <1>1, <1>2, CutOK DEF OnMalformed, byHand
<1>4. LiveTypes'
  BY <1>1, <1>2, <1>3 DEF OnMalformed, LiveInv, LiveTypes, query, byHand
<1>5. QED
  BY <1>3, <1>4 DEF LiveInv

LEMMA OnMessageStep == ASSUME LiveInv, NEW k \in Conn, OnMessage(k) PROVE LiveInv'
<1> DEFINE parsed == Head(conn[k].queue)
           P == [page EXCEPT !.sse = parsed, !.failed = FALSE, !.loading = FALSE, !.attempts = 0]
           r == [conn[k] EXCEPT !.queue = Tail(@)]
<1>1. page \in PageRec /\ conn[k] \in ConnRec /\ Attached(k) /\ conn[k].queue # << >>
  BY ConnRecs DEF LiveInv, OnMessage, Arrives
<1>2. parsed \in Board \cup {Junk} /\ Tail(conn[k].queue) \in Seq(Board \cup {Junk})
  <2>1. conn[k].queue \in Seq(Board \cup {Junk})
    BY <1>1 DEF ConnRec
  <2>2. QED
    BY <1>1, <2>1
<1>3. /\ page' = P /\ conn' = [conn EXCEPT ![k] = r]
      /\ cache' = [cache EXCEPT ![conn[k].proj] = parsed]
      /\ UNCHANGED <<board, alive, poll, refresh, reset, faults, asked, visits>>
  BY DEF OnMessage, byHand, bounds, LiveInv, LiveTypes
<1>4. r \in ConnRec /\ r.proj = conn[k].proj /\ r.at = conn[k].at /\ r.queue = Tail(conn[k].queue)
  BY <1>1, <1>2 DEF ConnRec
<1> HIDE DEF r
<1>5. Queued(k) => (parsed = Junk \/ (parsed.proj = page.proj /\ parsed.ver <= board[page.proj]))
                   /\ r.queue = << >>
  BY <1>1, <1>4 DEF Queued, Fits
<1> HIDE DEF parsed
<1>6. /\ P \in PageRec /\ P.proj = page.proj /\ P.sse = parsed /\ P.timer = page.timer
  <2>1. 0 \in 0..MaxAttempts /\ parsed \in Board \cup {NONE, Junk}
    BY <1>2, Constants
  <2>2. QED
    BY <1>1, <2>1 DEF PageRec
<1> HIDE DEF P
<1>7. /\ conn' \in [Conn -> ConnRec] /\ conn'[k] = r
      /\ \A l \in Conn : l # k => conn'[l] = conn[l]
  BY <1>3, <1>4, ConnPut DEF LiveInv
<1>8. \A l \in Conn : /\ Attached(l)' => Attached(l)
                      /\ conn'[l].proj = conn[l].proj
  BY <1>4, <1>7 DEF Attached
<1>9. OneAttached'
  BY <1>3, <1>6, <1>8 DEF LiveInv, OneAttached
<1>10. LiveTypes'
  BY <1>2, <1>3, <1>6, <1>7 DEF LiveInv, LiveTypes
<1>11. StreamAlone'
  <2> SUFFICES ASSUME asked = 0
               PROVE  /\ refresh = {} /\ reset = NONE
                      /\ \A l \in Conn : Attached(l)' => Queued(l)'
                      /\ IsBoard(page'.sse) =>
                           page'.sse.proj = page'.proj /\ page'.sse.ver <= board'[page'.proj]
    BY <1>3 DEF StreamAlone, IsBoard
  <2>1. Queued(k) /\ refresh = {} /\ reset = NONE
    BY <1>1 DEF LiveInv, StreamAlone
  <2>2. ASSUME NEW l \in Conn, Attached(l)' PROVE Queued(l)'
    <3>1. l = k
      BY <1>1, <1>8, <2>2 DEF LiveInv, OneAttached
    <3>2. conn'[l].queue = << >>
      BY <1>5, <1>7, <2>1, <3>1
    <3>3. QED
      BY <3>2 DEF Queued
  <2>3. IsBoard(page'.sse) =>
          page'.sse.proj = page'.proj /\ page'.sse.ver <= board'[page'.proj]
    BY <1>3, <1>5, <1>6, <2>1 DEF IsBoard
  <2>4. QED
    BY <2>1, <2>2, <2>3
<1>12. QED
  BY <1>9, <1>10, <1>11 DEF LiveInv

LEMMA SingleOK == ASSUME NEW x PROVE Head(<< x >>) = x /\ Tail(<< x >>) = << >>
<1>1. << x >> \in Seq({x}) /\ Len(<< x >>) = 1
  OBVIOUS
<1>2. Head(<< x >>) = x
  BY <1>1
<1>3. Tail(<< x >>) \in Seq({x}) /\ Len(Tail(<< x >>)) = 0
  BY <1>1
<1>4. QED
  BY <1>2, <1>3

(* What the server does to a stream that is attached.                      *)
LEMMA ServerOK ==
  ASSUME LiveInv, NEW k \in Conn, Attached(k), NEW r \in ConnRec, r.proj = conn[k].proj,
         r.at # "none", conn' = [conn EXCEPT ![k] = r],
         \/ r.queue = conn[k].queue
         \/ \E x : r.queue = << x >> /\ (asked = 0 => Fits(x)),
         UNCHANGED <<board, page, refresh, reset, asked>>
  PROVE  conn' \in [Conn -> ConnRec] /\ OneAttached' /\ StreamAlone'
<1>1. /\ conn' \in [Conn -> ConnRec] /\ conn'[k] = r
      /\ \A l \in Conn : l # k => conn'[l] = conn[l]
  BY ConnPut DEF LiveInv
<1>2. \A l \in Conn : (Attached(l)' => Attached(l)) /\ conn'[l].proj = conn[l].proj
  BY <1>1 DEF Attached
<1>3. OneAttached'
  BY <1>2 DEF LiveInv, OneAttached
<1>4. ASSUME asked = 0, NEW l \in Conn, Attached(l)' PROVE Queued(l)'
  <2>1. l = k /\ Queued(k)
    BY <1>2, <1>4 DEF LiveInv, OneAttached, StreamAlone
  <2>2. CASE r.queue = conn[k].queue
    BY <1>1, <2>1, <2>2 DEF Queued, Fits, IsBoard
  <2>3. CASE \E x : r.queue = << x >> /\ Fits(x)
    <3>1. PICK x : r.queue = << x >> /\ Fits(x)
      BY <2>3
    <3>2. Head(conn'[l].queue) = x /\ Tail(conn'[l].queue) = << >>
      BY <1>1, <2>1, <3>1, SingleOK
    <3>3. QED
      BY <3>1, <3>2 DEF Queued, Fits, IsBoard
  <2>4. QED
    BY <1>4, <2>2, <2>3
<1>5. StreamAlone'
  BY <1>4 DEF LiveInv, StreamAlone, IsBoard
<1>6. QED
  BY <1>1, <1>3, <1>5

LEMMA AcceptStep == ASSUME LiveInv, NEW k \in Conn, Accept(k) PROVE LiveInv'
<1> DEFINE a == IF conn[k].proj \in alive THEN "open" ELSE "over"
           r == [conn[k] EXCEPT !.at = a]
<1>1. conn[k] \in ConnRec /\ Attached(k)
  BY ConnRecs DEF LiveInv, Accept, Attached
<1>2. a \in {"open", "over"}
  OBVIOUS
<1>3. conn' = [conn EXCEPT ![k] = r]
  BY DEF Accept, LiveInv, LiveTypes
<1> HIDE DEF a
<1>4. r \in ConnRec /\ r.proj = conn[k].proj /\ r.at # "none" /\ r.queue = conn[k].queue
  BY <1>1, <1>2 DEF ConnRec
<1> HIDE DEF r
<1>5. conn' \in [Conn -> ConnRec] /\ OneAttached' /\ StreamAlone'
  BY <1>1, <1>3, <1>4, ServerOK DEF Accept, byHand, bounds
<1>6. LiveTypes'
  BY <1>5 DEF Accept, LiveInv, LiveTypes, query, byHand, bounds
<1>7. QED
  BY <1>5, <1>6 DEF LiveInv

LEMMA TickStep == ASSUME LiveInv, NEW k \in Conn, Tick(k) PROVE LiveInv'
<1>1. conn[k] \in ConnRec /\ Attached(k) /\ page \in PageRec /\ conn[k].queue = << >>
  BY ConnRecs DEF LiveInv, Tick, Attached
<1>2. conn[k].proj \in Project /\ conn[k].proj = page.proj
  BY <1>1 DEF LiveInv, OneAttached, PageRec
<1> DEFINE x == Now(conn[k].proj)
           r == IF conn[k].proj \in alive
                THEN [conn[k] EXCEPT !.errors = 0, !.queue = << x >>]
                ELSE [conn[k] EXCEPT !.at = "over"]
<1>3. x \in Board /\ x.proj = page.proj /\ x.ver = board[page.proj]
  BY <1>2, NowOK DEF LiveInv
<1>4. asked = 0 => Fits(x)
  BY <1>1, <1>3, Constants DEF LiveInv, LiveTypes, StreamAlone, Fits, Board, IsBoard, PageRec
<1>5. conn' = [conn EXCEPT ![k] = r]
  BY DEF Tick, LiveInv, LiveTypes
<1> HIDE DEF x
<1>6. << x >> \in Seq(Board \cup {Junk})
  BY <1>3
<1>7. /\ r \in ConnRec /\ r.proj = conn[k].proj /\ r.at # "none"
      /\ r.queue = conn[k].queue \/ r.queue = << x >>
  <2>1. conn[k].at = "open" /\ 0 \in 0..MaxErrors
    BY Constants DEF Tick
  <2>2. CASE conn[k].proj \in alive
    BY <1>1, <1>6, <2>1, <2>2 DEF ConnRec
  <2>3. CASE conn[k].proj \notin alive
    BY <1>1, <2>1, <2>3 DEF ConnRec
  <2>4. QED
    BY <2>2, <2>3
<1> HIDE DEF r
<1>8. \/ r.queue = conn[k].queue
      \/ \E y : r.queue = << y >> /\ (asked = 0 => Fits(y))
  BY <1>4, <1>7
<1>9. conn' \in [Conn -> ConnRec] /\ OneAttached' /\ StreamAlone'
  BY <1>1, <1>5, <1>7, <1>8, ServerOK DEF Tick, byHand, bounds
<1>10. LiveTypes'
  BY <1>9 DEF Tick, LiveInv, LiveTypes, query, byHand, bounds
<1>11. QED
  BY <1>9, <1>10 DEF LiveInv

LEMMA TickFailsStep == ASSUME LiveInv, NEW k \in Conn, TickFails(k) PROVE LiveInv'
<1>1. conn[k] \in ConnRec /\ Attached(k)
  BY ConnRecs DEF LiveInv, TickFails, Attached
<1> DEFINE n == conn[k].errors + 1
           r == IF n < MaxErrors THEN [conn[k] EXCEPT !.errors = n]
                ELSE [conn[k] EXCEPT !.at = "over", !.queue = << Junk >>]
<1>2. n < MaxErrors => n \in 0..MaxErrors
  BY <1>1, Constants DEF ConnRec
<1>3. conn' = [conn EXCEPT ![k] = r]
  BY DEF TickFails, LiveInv, LiveTypes
<1> HIDE DEF n
<1>4. << Junk >> \in Seq(Board \cup {Junk}) /\ Fits(Junk)
  BY DEF Fits
<1>5. /\ r \in ConnRec /\ r.proj = conn[k].proj /\ r.at # "none"
      /\ r.queue = conn[k].queue \/ r.queue = << Junk >>
  BY <1>1, <1>2, <1>4 DEF ConnRec, TickFails
<1> HIDE DEF r
<1>6. \/ r.queue = conn[k].queue
      \/ \E y : r.queue = << y >> /\ (asked = 0 => Fits(y))
  BY <1>4, <1>5
<1>7. faults' \in 0..MaxFaults /\ asked' = asked /\ visits' = visits
  BY FaultOK DEF TickFails, LiveInv
<1>8. conn' \in [Conn -> ConnRec] /\ OneAttached' /\ StreamAlone'
  BY <1>1, <1>3, <1>5, <1>6, <1>7, ServerOK DEF TickFails, byHand
<1>9. LiveTypes'
  BY <1>7, <1>8 DEF TickFails, LiveInv, LiveTypes, query, byHand
<1>10. QED
  BY <1>8, <1>9 DEF LiveInv

-----------------------------------------------------------------------------
(* The rest of the world, polling and refreshes by hand.                   *)

LEMMA Grows ==
  ASSUME LiveInv, NEW p \in Project, board[p] < MaxVersion,
         board' = [board EXCEPT ![p] = @ + 1]
  PROVE  board' \in [Project -> 0..MaxVersion] /\ \A q \in Project : board[q] <= board'[q]
<1> DEFINE n == board[p] + 1
<1>1. board \in [Project -> 0..MaxVersion] /\ n \in 0..MaxVersion /\ board[p] <= n
  BY Constants DEF LiveInv, LiveTypes
<1>2. board' = [board EXCEPT ![p] = n]
  OBVIOUS
<1> HIDE DEF n
<1>3. QED
  BY <1>1, <1>2, Constants

LEMMA ChangeStep == ASSUME LiveInv, NEW p \in Project, Change(p) PROVE LiveInv'
<1>1. board' \in [Project -> 0..MaxVersion] /\ \A q \in Project : board[q] <= board'[q]
  BY Grows DEF Change
<1>2. LiveTypes'
  BY <1>1 DEF Change, LiveInv, LiveTypes, query, byHand, bounds
<1>3. OneAttached'
  BY DEF Change, LiveInv, OneAttached, Attached
<1>4. StreamAlone'
  <2>1. /\ UNCHANGED <<page, conn, refresh, reset, asked>> /\ page \in PageRec
        /\ board \in [Project -> 0..MaxVersion]
    BY DEF Change, byHand, bounds, LiveInv, LiveTypes
  <2>2. \A x \in Board : page.proj = x.proj /\ x.ver <= board[page.proj]
                           => x.ver <= board'[page.proj]
    BY <1>1, <2>1, Constants DEF Board
  <2>3. \A x : Fits(x) => Fits(x)'
    BY <2>1, <2>2 DEF Fits, IsBoard
  <2>4. \A k \in Conn : Queued(k) => Queued(k)'
    BY <2>1, <2>3 DEF Queued
  <2>5. IsBoard(page.sse) => page.sse \in Board
    BY <2>1 DEF PageRec, IsBoard
  <2>6. QED
    BY <2>1, <2>2, <2>4, <2>5 DEF LiveInv, StreamAlone, Attached, IsBoard
<1>5. QED
  BY <1>2, <1>3, <1>4 DEF LiveInv

(* Steps that leave the page and the streams alone.                        *)
LEMMA Kept ==
  ASSUME LiveInv, UNCHANGED <<board, page, conn, refresh, reset, asked>>
  PROVE  OneAttached' /\ StreamAlone'
BY DEF LiveInv, OneAttached, StreamAlone, Attached, Queued, Fits, IsBoard

LEMMA DeleteStep == ASSUME LiveInv, NEW p \in Project, Delete(p) PROVE LiveInv'
<1>1. OneAttached' /\ StreamAlone'
  BY Kept DEF Delete, byHand, bounds
<1>2. LiveTypes'
  BY DEF Delete, LiveInv, LiveTypes, query, byHand, bounds
<1>3. QED
  BY <1>1, <1>2 DEF LiveInv

LEMMA PollPut ==
  ASSUME LiveTypes, NEW p, NEW r \in PollRec
  PROVE  [poll EXCEPT ![p] = r] \in [Project -> PollRec]
BY DEF LiveTypes

LEMMA PollStartStep == ASSUME LiveInv, PollStart PROVE LiveInv'
<1> DEFINE r == [Idle EXCEPT !.at = "sent"]
<1>1. r \in PollRec
  BY Blanks DEF PollRec
<1>2. poll' = [poll EXCEPT ![page.proj] = r]
  BY DEF PollStart
<1> HIDE DEF r
<1>3. poll' \in [Project -> PollRec]
  BY <1>1, <1>2, PollPut DEF LiveInv
<1>4. OneAttached' /\ StreamAlone'
  BY Kept DEF PollStart, byHand, bounds
<1>5. LiveTypes'
  BY <1>3 DEF PollStart, LiveInv, LiveTypes, byHand, bounds
<1>6. QED
  BY <1>4, <1>5 DEF LiveInv

LEMMA PollReadStep == ASSUME LiveInv, NEW p \in Project, PollRead(p) PROVE LiveInv'
<1> DEFINE d == Now(p)
           r == [poll[p] EXCEPT !.at = "read", !.data = d]
<1>1. d \in Board /\ poll[p] \in PollRec
  BY NowOK DEF LiveInv, LiveTypes
<1>2. poll' = [poll EXCEPT ![p] = r]
  BY DEF PollRead, LiveInv, LiveTypes
<1> HIDE DEF d
<1>3. r \in PollRec
  BY <1>1 DEF PollRec
<1> HIDE DEF r
<1>4. poll' \in [Project -> PollRec]
  BY <1>2, <1>3, PollPut DEF LiveInv
<1>5. OneAttached' /\ StreamAlone'
  BY Kept DEF PollRead, byHand, bounds
<1>6. LiveTypes'
  BY <1>4 DEF PollRead, LiveInv, LiveTypes, byHand, bounds
<1>7. QED
  BY <1>5, <1>6 DEF LiveInv

LEMMA PollDoneStep == ASSUME LiveInv, NEW p \in Project, PollDone(p) PROVE LiveInv'
<1>1. poll' \in [Project -> PollRec]
  BY Blanks, PollPut DEF PollDone, LiveInv
<1>2. poll[p].data \in Board \cup {NONE}
  BY DEF LiveInv, LiveTypes, PollRec
<1>3. cache' \in [Project -> Board \cup {NONE, Junk}]
  BY <1>2 DEF PollDone, LiveInv, LiveTypes
<1>4. OneAttached' /\ StreamAlone'
  BY Kept DEF PollDone, byHand, bounds
<1>5. LiveTypes'
  BY <1>1, <1>3 DEF PollDone, LiveInv, LiveTypes, byHand, bounds
<1>6. QED
  BY <1>4, <1>5 DEF LiveInv

LEMMA MissedOK ==
  ASSUME LiveTypes, NEW p \in Project, Missed(p)
  PROVE  poll' \in [Project -> PollRec]
<1> DEFINE n == poll[p].failures + 1
           r == IF poll[p].failures < MaxRetries /\ page.proj = p
                THEN [Idle EXCEPT !.at = "sent", !.failures = n] ELSE Idle
<1>1. poll[p] \in PollRec /\ poll' = [poll EXCEPT ![p] = r]
  BY DEF LiveTypes, Missed
<1>2. poll[p].failures < MaxRetries => n \in 0..MaxRetries
  BY <1>1, Constants DEF PollRec
<1> HIDE DEF n
<1>3. r \in PollRec
  BY <1>2, Blanks DEF PollRec
<1> HIDE DEF r
<1>4. QED
  BY <1>1, <1>3, PollPut

LEMMA PollRefusedStep == ASSUME LiveInv, NEW p \in Project, PollRefused(p) PROVE LiveInv'
<1>1. poll' \in [Project -> PollRec]
  BY MissedOK DEF LiveInv, PollRefused
<1>2. OneAttached' /\ StreamAlone'
  BY Kept DEF PollRefused, byHand, bounds
<1>3. LiveTypes'
  BY <1>1 DEF PollRefused, LiveInv, LiveTypes, byHand, bounds
<1>4. QED
  BY <1>2, <1>3 DEF LiveInv

LEMMA PollBreaksStep == ASSUME LiveInv, NEW p \in Project, PollBreaks(p) PROVE LiveInv'
<1>1. poll' \in [Project -> PollRec]
  BY MissedOK DEF LiveInv, PollBreaks
<1>2. faults' \in 0..MaxFaults /\ asked' = asked /\ visits' = visits
  BY FaultOK DEF PollBreaks, LiveInv
<1>3. OneAttached' /\ StreamAlone'
  BY <1>2, Kept DEF PollBreaks, byHand
<1>4. LiveTypes'
  BY <1>1, <1>2 DEF PollBreaks, LiveInv, LiveTypes, byHand
<1>5. QED
  BY <1>3, <1>4 DEF LiveInv

(* Once something has been refreshed by hand, it is types that matter.     *)
LEMMA NotAlone ==
  ASSUME LiveInv, LiveTypes', UNCHANGED conn, page'.proj = page.proj, page'.timer = page.timer,
         asked' # 0
  PROVE  LiveInv'
BY DEF LiveInv, OneAttached, StreamAlone, Attached

LEMMA RefetchOK ==
  ASSUME LiveTypes, NEW p \in Project, NEW failed \in BOOLEAN, NEW left,
         Refetch(p, failed, left)
  PROVE  poll' \in [Project -> PollRec] /\ refresh' \subseteq FetchRec
<1> DEFINE observed == IF left = NONE THEN page.proj ELSE left
           mine == left = NONE
           r == [Idle EXCEPT !.at = "sent"]
           f == [proj |-> p, data |-> NONE, mine |-> mine]
<1>1. r \in PollRec /\ f \in FetchRec
  BY Blanks DEF PollRec, FetchRec
<1>2. /\ poll' \in {poll, [poll EXCEPT ![observed] = r]}
      /\ refresh' \in {refresh, refresh \cup {f}}
  BY DEF Refetch
<1> HIDE DEF observed, r, f
<1>3. [poll EXCEPT ![observed] = r] \in [Project -> PollRec]
  BY <1>1, PollPut
<1>4. QED
  BY <1>1, <1>2, <1>3 DEF LiveTypes

LEMMA HandOK == LiveTypes /\ Hand => /\ asked' \in 0..MaxRefreshes /\ asked' # 0
                                    /\ faults' = faults /\ visits' = visits
BY Constants DEF LiveTypes, Hand

LEMMA RefreshStep == ASSUME LiveInv, Refresh PROVE LiveInv'
<1>1. page.proj \in Project /\ page.failed \in BOOLEAN
  BY DEF LiveInv, LiveTypes, PageRec, Refresh
<1>2. poll' \in [Project -> PollRec] /\ refresh' \subseteq FetchRec
  BY <1>1, RefetchOK DEF Refresh, LiveInv
<1>3. asked' \in 0..MaxRefreshes /\ asked' # 0 /\ faults' = faults /\ visits' = visits
  BY HandOK DEF Refresh, LiveInv
<1>4. LiveTypes'
  BY <1>2, <1>3 DEF Refresh, LiveInv, LiveTypes
<1>5. QED
  BY <1>3, <1>4, NotAlone DEF Refresh

LEMMA ClickResetStep == ASSUME LiveInv, ClickReset PROVE LiveInv'
<1>1. reset' \in ResetRec
  BY DEF LiveInv, LiveTypes, PageRec, ClickReset, ResetRec
<1>2. asked' \in 0..MaxRefreshes /\ asked' # 0 /\ faults' = faults /\ visits' = visits
  BY HandOK DEF ClickReset, LiveInv
<1>3. LiveTypes'
  BY <1>1, <1>2 DEF ClickReset, LiveInv, LiveTypes, query
<1>4. QED
  BY <1>2, <1>3, NotAlone DEF ClickReset

LEMMA ResetServedStep == ASSUME LiveInv, ResetServed PROVE LiveInv'
<1>1. reset \in ResetRec
  BY DEF LiveInv, LiveTypes, ResetServed
<1>2. reset' \in ResetRec /\ reset.proj \in Project
  BY <1>1 DEF ResetServed, ResetRec
<1>3. board' \in [Project -> 0..MaxVersion]
  BY <1>2, Grows DEF ResetServed
<1>4. asked' # 0
  BY DEF ResetServed, LiveInv, StreamAlone, bounds
<1>5. LiveTypes'
  BY <1>2, <1>3 DEF ResetServed, LiveInv, LiveTypes, query, bounds
<1>6. QED
  BY <1>4, <1>5, NotAlone DEF ResetServed

LEMMA ResetOverStep == ASSUME LiveInv, ResetOver PROVE LiveInv'
<1>1. reset \in ResetRec
  BY DEF LiveInv, LiveTypes, ResetOver
<1>2. poll' \in [Project -> PollRec] /\ refresh' \subseteq FetchRec
  <2>1. CASE Refetch(reset.proj, reset.failed, reset.left)
    BY <1>1, <2>1, RefetchOK DEF LiveInv, ResetRec
  <2>2. CASE UNCHANGED <<poll, refresh>>
    BY <2>2 DEF LiveInv, LiveTypes
  <2>3. QED
    BY <2>1, <2>2 DEF ResetOver
<1>3. asked' # 0
  BY DEF ResetOver, LiveInv, StreamAlone, bounds
<1>4. LiveTypes'
  BY <1>2 DEF ResetOver, LiveInv, LiveTypes, bounds
<1>5. QED
  BY <1>3, <1>4, NotAlone DEF ResetOver

LEMMA RefreshReadStep == ASSUME LiveInv, NEW f \in refresh, RefreshRead(f) PROVE LiveInv'
<1> DEFINE d == Now(f.proj)
           g == [f EXCEPT !.data = d]
<1>1. f \in FetchRec
  BY DEF LiveInv, LiveTypes
<1>2. d \in Board
  BY <1>1, NowOK DEF LiveInv, FetchRec
<1>3. refresh' = (refresh \ {f}) \cup {g}
  BY DEF RefreshRead
<1> HIDE DEF d
<1>4. g \in FetchRec
  BY <1>1, <1>2 DEF FetchRec
<1> HIDE DEF g
<1>5. asked' # 0
  BY DEF RefreshRead, LiveInv, StreamAlone, bounds
<1>6. LiveTypes'
  BY <1>3, <1>4 DEF RefreshRead, LiveInv, LiveTypes, query, bounds
<1>7. QED
  BY <1>5, <1>6, NotAlone DEF RefreshRead

LEMMA RefreshDoneStep == ASSUME LiveInv, NEW f \in refresh, RefreshDone(f) PROVE LiveInv'
<1>1. f \in FetchRec /\ f.data \in Board /\ page \in PageRec
  BY DEF LiveInv, LiveTypes, FetchRec, RefreshDone
<1>2. page' \in PageRec /\ page'.proj = page.proj /\ page'.timer = page.timer
  BY <1>1 DEF RefreshDone, PageRec
<1>3. cache' \in [Project -> Board \cup {NONE, Junk}]
  BY <1>1 DEF RefreshDone, LiveInv, LiveTypes
<1>4. asked' # 0
  BY DEF RefreshDone, LiveInv, StreamAlone, bounds
<1>5. LiveTypes'
  BY <1>2, <1>3 DEF RefreshDone, LiveInv, LiveTypes, bounds
<1>6. QED
  BY <1>2, <1>4, <1>5, NotAlone DEF RefreshDone

LEMMA RefreshFailsStep == ASSUME LiveInv, NEW f \in refresh, RefreshFails(f) PROVE LiveInv'
<1>1. asked' # 0
  BY DEF RefreshFails, LiveInv, StreamAlone, bounds
<1>2. LiveTypes'
  BY DEF RefreshFails, LiveInv, LiveTypes, query, bounds
<1>3. QED
  BY <1>1, <1>2, NotAlone DEF RefreshFails

-----------------------------------------------------------------------------
LEMMA LiveInitHolds == LiveInit => LiveInv
<1> SUFFICES ASSUME LiveInit PROVE LiveInv
  OBVIOUS
<1>1. /\ board \in [Project -> 0..MaxVersion] /\ cache \in [Project -> Board \cup {NONE, Junk}]
      /\ conn \in [Conn -> ConnRec] /\ poll \in [Project -> PollRec]
      /\ page \in PageRec /\ \A k \in Conn : ~Attached(k)
  BY Constants, Blanks DEF LiveInit, Attached
<1>2. /\ page.sse = NONE /\ ~page.timer
  BY Blanks DEF LiveInit
<1>3. LiveTypes
  BY <1>1, Constants DEF LiveInit, LiveTypes
<1>4. QED
  BY <1>1, <1>2, <1>3 DEF LiveInit, LiveInv, OneAttached, StreamAlone, IsBoard

LEMMA LiveStep == LiveInv /\ [LiveNext]_liveVars => LiveInv'
<1> SUFFICES ASSUME LiveInv, [LiveNext]_liveVars PROVE LiveInv'
  OBVIOUS
<1>1. CASE UNCHANGED liveVars
  <2>1. OneAttached' /\ StreamAlone'
    BY <1>1, Kept DEF liveVars, byHand, bounds
  <2>2. LiveTypes'
    BY <1>1 DEF liveVars, query, byHand, bounds, LiveInv, LiveTypes
  <2>3. QED
    BY <2>1, <2>2 DEF LiveInv
<1>2. CASE \E p \in Project : Change(p) \/ Delete(p) \/ Show(p)
  BY <1>2, ChangeStep, DeleteStep, ShowStep
<1>3. CASE Leave \/ Reconnect
  BY <1>3, LeaveStep, ReconnectStep
<1>4. CASE \E k \in Conn : OnMessage(k) \/ OnMalformed(k) \/ Ended(k) \/ Broke(k)
  BY <1>4, OnMessageStep, OnMalformedStep, EndedStep, BrokeStep
<1>5. CASE \E k \in Conn : ServerStep(k) \/ TickFails(k)
  BY <1>5, AcceptStep, TickStep, TickFailsStep DEF ServerStep
<1>6. CASE PollStart \/ \E p \in Project : PollStep(p) \/ PollBreaks(p)
  BY <1>6, PollStartStep, PollReadStep, PollDoneStep, PollRefusedStep, PollBreaksStep
     DEF PollStep
<1>7. CASE Refresh \/ ClickReset \/ ResetServed \/ ResetOver
  BY <1>7, RefreshStep, ClickResetStep, ResetServedStep, ResetOverStep
<1>8. CASE \E f \in refresh : RefreshRead(f) \/ RefreshDone(f) \/ RefreshFails(f)
  BY <1>8, RefreshReadStep, RefreshDoneStep, RefreshFailsStep
<1>9. QED
  BY <1>1, <1>2, <1>3, <1>4, <1>5, <1>6, <1>7, <1>8 DEF LiveNext

LEMMA LiveInvariance == LiveSpec => []LiveInv
BY LiveInitHolds, LiveStep, PTL DEF LiveSpec

LEMMA InOrderStep ==
  ASSUME LiveInv, LiveNext, asked' = 0, ~page'.failed, IsBoard(page'.sse)
  PROVE  /\ page'.sse.proj = page'.proj
         /\ page.proj = page'.proj /\ IsBoard(page.sse) => page'.sse.ver >= page.sse.ver
<1>1. LiveInv'
  BY LiveStep
<1>2. page'.sse.proj = page'.proj
  BY <1>1 DEF LiveInv, StreamAlone, IsBoard
<1>3. asked = 0
  <2>1. \A p \in Project : Change(p) \/ Delete(p) \/ Show(p) => asked' = asked
    BY DEF Change, Delete, Show, bounds
  <2>2. Leave \/ Reconnect \/ PollStart \/ ResetServed \/ ResetOver => asked' = asked
    BY DEF Leave, Reconnect, PollStart, ResetServed, ResetOver, bounds
  <2>3. \A k \in Conn : OnMessage(k) \/ OnMalformed(k) \/ Ended(k) \/ Broke(k) => asked' = asked
    BY DEF OnMessage, OnMalformed, Ended, Broke, Fault, bounds
  <2>4. \A k \in Conn : ServerStep(k) \/ TickFails(k) => asked' = asked
    BY DEF ServerStep, Accept, Tick, TickFails, Fault, bounds
  <2>5. \A p \in Project : PollStep(p) \/ PollBreaks(p) => asked' = asked
    BY DEF PollStep, PollRead, PollDone, PollRefused, PollBreaks, Fault, bounds
  <2>6. ~Refresh /\ ~ClickReset
    BY HandOK DEF Refresh, ClickReset, LiveInv
  <2>7. \A f \in refresh : RefreshRead(f) \/ RefreshDone(f) \/ RefreshFails(f) => asked' = asked
    BY DEF RefreshRead, RefreshDone, RefreshFails, bounds
  <2>8. QED
    BY <2>1, <2>2, <2>3, <2>4, <2>5, <2>6, <2>7 DEF LiveNext
<1>4. ASSUME IsBoard(page.sse) PROVE page'.sse.ver >= page.sse.ver
  <2>1. page.sse \in Board
    BY <1>4 DEF LiveInv, LiveTypes, PageRec, IsBoard
  <2>2. page.sse.ver \in Nat
    BY <2>1, Constants DEF Board
  <2>3. CASE page'.sse = page.sse
    BY <2>2, <2>3
  <2>4. CASE \E k \in Conn : OnMessage(k)
    <3>1. PICK k \in Conn : OnMessage(k)
      BY <2>4
    <3>2. Attached(k) /\ conn[k].queue # << >> /\ page'.sse = Head(conn[k].queue)
      BY <3>1 DEF OnMessage, Arrives, LiveInv, LiveTypes, PageRec
    <3>3. Fits(page'.sse)
      BY <1>3, <3>2 DEF LiveInv, StreamAlone, Queued
    <3>4. page'.sse \in Board /\ page.sse.ver <= page'.sse.ver
      BY <1>4, <3>3 DEF Fits, IsBoard
    <3>5. page'.sse.ver \in Nat
      BY <3>4, Constants DEF Board
    <3>6. QED
      BY <2>2, <3>4, <3>5
  <2>5. page'.sse # NONE
    BY DEF IsBoard
  <2>6. CASE \A k \in Conn : ~OnMessage(k)
    <3>1. \A k \in Conn : OnMalformed(k) => page'.sse = page.sse
      BY DEF OnMalformed, LiveInv, LiveTypes, PageRec
    <3>2. \A k \in Conn : Ended(k) \/ Broke(k) => page'.sse = page.sse
      BY OnErrorOK DEF Ended, Broke, LiveInv
    <3>3. \A k \in Conn : ServerStep(k) \/ TickFails(k) => page' = page
      BY DEF ServerStep, Accept, Tick, TickFails
    <3>4. \A p \in Project : ~Show(p)
      BY <2>5, Blanks DEF Show, Closed
    <3>5. ~Leave /\ (Reconnect => page'.sse = page.sse)
      BY <2>5, Blanks DEF Leave, Reconnect, LiveInv, LiveTypes, PageRec
    <3>6. \A p \in Project : Change(p) \/ Delete(p) \/ PollStep(p) \/ PollBreaks(p) => page' = page
      BY DEF Change, Delete, PollStep, PollRead, PollDone, PollRefused, PollBreaks
    <3>7. PollStart \/ Refresh \/ ClickReset \/ ResetServed \/ ResetOver => page' = page
      BY DEF PollStart, Refresh, ClickReset, ResetServed, ResetOver
    <3>8. refresh = {}
      BY <1>3 DEF LiveInv, StreamAlone
    <3>9. QED
      BY <2>3, <2>6, <3>1, <3>2, <3>3, <3>4, <3>5, <3>6, <3>7, <3>8 DEF LiveNext
  <2>7. QED
    BY <2>4, <2>6
<1>5. QED
  BY <1>2, <1>4

(* The state of the hook, the streams, queries and refreshes is of its     *)
(* type: no attempt, error or retry is counted past its limit.             *)
THEOREM LiveTypeTheorem == LiveSpec => []LiveTypeOK
<1>1. LiveInv => LiveTypeOK
  BY DEF LiveInv, LiveTypes, LiveTypeOK, PageRec, ConnRec, PollRec, FetchRec, ResetRec
<1>2. QED
  BY <1>1, LiveInvariance, PTL

(* However the streams of the pages of a tab are refused, break, are       *)
(* opened anew or are left for another project's, what they put on the     *)
(* page is the board of the project shown, and never an older one than     *)
(* before: at most one is attached, with at most one board on its way.     *)
THEOREM StreamTheorem == LiveSpec => StreamInOrder
<1> DEFINE A == asked' = 0 /\ ~page'.failed /\ IsBoard(page'.sse) =>
                  /\ page'.sse.proj = page'.proj
                  /\ page.proj = page'.proj /\ IsBoard(page.sse) => page'.sse.ver >= page.sse.ver
<1>1. LiveInv /\ [LiveNext]_liveVars => [A]_liveVars
  BY InOrderStep
<1>2. QED
  BY <1>1, LiveInvariance, PTL DEF LiveSpec, StreamInOrder
=============================================================================
