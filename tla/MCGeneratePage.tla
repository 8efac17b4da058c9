---------------------------- MODULE MCGeneratePage ----------------------------
(* Instances of GeneratePage for TLC: what a tab is used for.              *)
EXTENDS GeneratePage

CONSTANTS m1, m2, c1, c2, p1, p2

\* The criteria page of one project is left, opened again and paid for.
CriteriaAgain == [stage |-> "ac", pages |-> {m1, m2}, calls |-> {c1, c2},
                  projects |-> {p1}, halted |-> {}, payable |-> {p1}]

\* It is opened from the history.
CriteriaHalted == [CriteriaAgain EXCEPT !.pages = {m1}, !.halted = {p1}]

\* A criteria page is given another project in the middle of a call.
CriteriaSwitch == [stage |-> "ac", pages |-> {m1}, calls |-> {c1, c2},
                   projects |-> {p1, p2}, halted |-> {}, payable |-> {}]

\* It is given one that was chosen in the history.
CriteriaChosen == [CriteriaSwitch EXCEPT !.calls = {c1}, !.halted = {p2}]

\* Two task pages over two projects, one of which is paid for.
TaskAgain == [stage |-> "task", pages |-> {m1, m2}, calls |-> {c1, c2},
              projects |-> {p1, p2}, halted |-> {}, payable |-> {p1}]

\* A task page that is opened from the history and given another project.
TaskHalted == [TaskAgain EXCEPT !.pages = {m1}, !.halted = {p2}]

MCScene == {CriteriaAgain, CriteriaHalted, CriteriaSwitch, CriteriaChosen,
            TaskAgain, TaskHalted}
=============================================================================
