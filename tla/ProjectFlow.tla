----------------------------- MODULE ProjectFlow -----------------------------
(***************************************************************************)
(* One project on its way from an idea to its documents: the PRD chat      *)
(* (src/routes/api/chat.ts) that writes and revises the PRD, the           *)
(* generation of acceptance criteria (src/routes/api/ac/generate.ts), the  *)
(* question marker (src/routes/api/ask/options.ts), the step endpoint and  *)
(* the deletion, all of which run concurrently and meet in the project's   *)
(* row.  The first PRD and the acceptance criteria are paid for through    *)
(* CreditService; acceptance criteria are generated by the same protocol   *)
(* as tasks, so their requests are an instance of Generation over          *)
(* projects.ac_status.                                                     *)
(***************************************************************************)
EXTENDS CreditService, Sequences, SequencesExt

CONSTANTS
  Chats,      \* requests to /api/chat
  Modes,      \* what each may ask for: generate, revise or resume
  ChatKey,    \* the idempotency key a generate sends
  AcRequests, \* requests to /api/ac/generate
  AcKey,      \* the idempotency key each of them sends
  Fresh,      \* the keys freshRetryKey makes up
  Faults,     \* what may go wrong besides a failed generation
  MaxErrors   \* bound on the errors of the database that are recorded

(* The keys name the project, the kind of document and the attempt.        *)
ASSUME FlowAssumption ==
  /\ Modes \in [Chats -> SUBSET {"generate", "revise", "resume"}]
  /\ ChatKey \in [Chats -> Ops \ Fresh]
  /\ AcKey \in [AcRequests -> Ops \ Fresh]
  /\ \A c \in Chats, r \in AcRequests : ChatKey[c] # AcKey[r]
  /\ Fresh \subseteq Ops
  /\ NULL \in Expiries /\ NULL \notin Ops \cup States
  /\ Faults \subseteq {"crash", "error"}
  /\ MaxErrors \in Nat

VARIABLES
  project,   \* the row: whether it is there, its step, its documents
  chat,      \* local state of each chat request
  ask,       \* local state of a request for question options
  drafts,    \* the AC requests whose whole text a client has on screen
  acStatus,  \* projects.ac_status
  acCreated, \* the AC operations in the order of their createdAt
  acReq      \* local state of each AC request

acVars == <<acStatus, acCreated, acReq>>
flowVars == <<creditVars, project, chat, ask, drafts, acVars>>

Ac == INSTANCE Generation WITH
  Requests <- AcRequests, CallerKey <- AcKey,
  taskStatus <- acStatus, created <- acCreated, req <- acReq

-----------------------------------------------------------------------------
(* The steps are ranked as stepRank does: question, prd, ac, task.  A step *)
(* that is NULL ranks as prd and every statement treats it so.             *)
Question == 0
Prd == 1
AcStep == 2
Task == 3

(* A version of the PRD is the set of chats whose text is in it.           *)
NewProject == [state |-> "live", step |-> Prd, prd |-> <<>>, ac |-> FALSE]

Live == project.state = "live"
HasPrd == project.prd # <<>>
Newest == IF HasPrd THEN Last(project.prd) ELSE {}

(* advanceStep: forward only.                                              *)
Advanced(step) == IF step > project.step THEN step ELSE project.step

Idling == [pc |-> "start", op |-> NULL, seen |-> NULL, base |-> {},
           made |-> FALSE, thrown |-> {}]

FlowInit ==
  /\ Ac!GenInit
  /\ project \in {[NewProject EXCEPT !.state = s] : s \in {"none", "live"}}
  /\ chat = [c \in Chats |-> Idling]
  /\ ask = [pc |-> "start", mark |-> FALSE]
  /\ drafts = {}

At(c, pc) == chat[c].pc = pc
Goto(c, pc) == chat' = [chat EXCEPT ![c].pc = pc]

(* A statement of the request meets an error of the database, as in        *)
(* Generation, and the request ends.                                       *)
ChatThrown == {e \in Chats \X {"run", "release"} : e[2] \in chat[e[1]].thrown}

Throws(c, statement) ==
  /\ "error" \in Faults /\ Cardinality(ChatThrown) < MaxErrors
  /\ chat' = [chat EXCEPT ![c].pc = "ended", ![c].thrown = @ \cup {statement}]

Asks(c, mode) == At(c, "start") /\ mode \in Modes[c]

-----------------------------------------------------------------------------
(* Chat: the first PRD.                                                    *)

(* The gates and ensureConversation, which makes the project when the      *)
(* request names none.                                                     *)
Open(c) ==
  /\ Asks(c, "generate")
  /\ project.state \in {"none", "live"}
  /\ project' = IF Live THEN project ELSE NewProject
  /\ chat' = [chat EXCEPT ![c].pc = "opened", ![c].made = ~Live]
  /\ UNCHANGED <<creditVars, ask, drafts, acVars>>

(* rollbackStreamInserts of a project this request made, with its errors   *)
(* swallowed: the rows of credit_operations that refer to a project keep   *)
(* it.                                                                     *)
RolledBack(c) ==
  IF chat[c].made /\ Live /\ \A o \in Ops : op[o].state = "none"
    THEN [project EXCEPT !.state = "gone"] ELSE project

ChatKeys(c) ==
  IF op[ChatKey[c]].state = "none" THEN {ChatKey[c]}
  ELSE IF IsActive(ChatKey[c]) THEN {}
  ELSE {o \in Fresh : op[o].state = "none"}

Holding(c, o, state) ==
  chat' = [chat EXCEPT ![c] = [@ EXCEPT !.pc = "reserved", !.op = o, !.seen = state]]

(* reserveActiveCreditOperation with a new key, or with a live one.        *)
ReserveChat(c) ==
  /\ At(c, "opened")
  /\ \/ \E o \in ChatKeys(c) : Reserve(o, NULL) /\ Holding(c, o, "reserved")
     \/ /\ IsActive(ChatKey[c])
        /\ Holding(c, ChatKey[c], op[ChatKey[c]].state)
        /\ UNCHANGED creditVars
  /\ UNCHANGED <<project, ask, drafts, acVars>>

RejectChat(c) ==
  /\ At(c, "opened")
  /\ "error" \in Faults \/ \E o \in ChatKeys(c) : ~Ac!Affordable(o)
  /\ \/ project' = RolledBack(c)
     \/ "error" \in Faults /\ UNCHANGED project
  /\ Goto(c, "ended")
  /\ UNCHANGED <<creditVars, ask, drafts, acVars>>

(* markCreditOperationRunning; one that fails, for whatever reason, ends   *)
(* the request without a release: the handler takes the operation for one  *)
(* that another request runs.                                              *)
StartChat(c) ==
  /\ At(c, "reserved")
  /\ \/ MarkRunning(chat[c].op) /\ Goto(c, "streaming")
     \/ op[chat[c].op].state # "reserved" /\ Goto(c, "ended") /\ UNCHANGED creditVars
     \/ Throws(c, "run") /\ UNCHANGED creditVars
  /\ UNCHANGED <<project, ask, drafts, acVars>>

(* resume goes on with the text a client kept, under no reservation.       *)
Resume(c) ==
  /\ Asks(c, "resume")
  /\ Live
  /\ Goto(c, "streaming")
  /\ UNCHANGED <<creditVars, project, ask, drafts, acVars>>

(* Faulty: appends, as a revision does.                                    *)
CanSaveAny == Live

(* savePrdVersion inserts version 1, which is unique, of a live project.   *)
CanSaveFirst == Live /\ ~HasPrd

SaveFirst(c) ==
  /\ At(c, "streaming")
  /\ CanSaveFirst
  /\ project' = [project EXCEPT !.prd = Append(@, {c}), !.step = Advanced(Prd)]
  /\ Goto(c, IF chat[c].op = NULL THEN "ended" ELSE "saved")
  /\ UNCHANGED <<creditVars, ask, drafts, acVars>>

SettleChat(c) ==
  /\ At(c, "saved")
  /\ \E charge \in 0 .. MaxCharge[chat[c].op] : Settle(chat[c].op, charge)
  /\ Goto(c, "ended")
  /\ UNCHANGED <<project, ask, drafts, acVars>>

(* The settlement threw, whatever the error.                               *)
SettleChatRefused(c) ==
  /\ At(c, "saved")
  /\ "error" \in Faults \/ ~CanSettle(chat[c].op, 0)
  /\ Ac!TryQuarantine(chat[c].op)
  /\ Goto(c, "unsettled")
  /\ UNCHANGED <<project, ask, drafts, acVars>>

(* Faulty: reports the error and forgets the reservation.                  *)
FailChatHolding(c) ==
  /\ chat[c].pc \in {"streaming", "unsettled"}
  /\ Goto(c, "ended")
  /\ UNCHANGED <<creditVars, project, ask, drafts, acVars>>

(* The model fails, the output is truncated, the client goes away, the     *)
(* version cannot be saved; safeError after the quarantine.  The project   *)
(* is never rolled back here: an operation refers to it.                   *)
FailChat(c) ==
  /\ chat[c].pc \in {"streaming", "unsettled"}
  /\ LET mine == chat[c].seen = "reserved"  o == chat[c].op IN
     \/ mine /\ Release(o) /\ Goto(c, "ended")
     \/ ~(mine /\ CanRelease(o)) /\ Goto(c, "ended") /\ UNCHANGED creditVars
     \/ mine /\ Throws(c, "release") /\ UNCHANGED creditVars
  /\ UNCHANGED <<project, ask, drafts, acVars>>

-----------------------------------------------------------------------------
(* Chat: a revision, which is free.  PRD_LOCKED is decided when the        *)
(* request comes in; the document is read again when the model is done,    *)
(* the answer is stored next and the version last.                         *)

BeginRevise(c) ==
  /\ Asks(c, "revise")
  /\ Live
  /\ Goto(c, IF project.step > Prd THEN "ended" ELSE "revising")
  /\ UNCHANGED <<creditVars, project, ask, drafts, acVars>>

Merge(c) ==
  /\ At(c, "revising")
  /\ chat' = [chat EXCEPT ![c].pc = "merged", ![c].base = Newest]
  /\ UNCHANGED <<creditVars, project, ask, drafts, acVars>>

(* saveMessages.  A conversation opened by a request that passed its       *)
(* ownership check before a deletion outlives it.                          *)
Answer(c) ==
  /\ At(c, "merged")
  /\ Goto(c, "answered")
  /\ UNCHANGED <<creditVars, project, ask, drafts, acVars>>

(* Faulty: trusts the check made when the request came in.                 *)
SaveRevisionBlind(c) ==
  /\ At(c, "answered")
  /\ project' = [project EXCEPT !.prd = Append(@, chat[c].base \cup {c}),
                                !.step = Advanced(Prd)]
  /\ Goto(c, "revised")
  /\ UNCHANGED <<creditVars, ask, drafts, acVars>>

SaveRevision(c) ==
  /\ At(c, "answered")
  /\ Live
  /\ project' = [project EXCEPT !.prd = Append(@, chat[c].base \cup {c}),
                                !.step = Advanced(Prd)]
  /\ Goto(c, "revised")
  /\ UNCHANGED <<creditVars, ask, drafts, acVars>>

FailRevision(c) ==
  /\ chat[c].pc \in {"revising", "merged", "answered"}
  /\ Goto(c, "ended")
  /\ UNCHANGED <<creditVars, project, ask, drafts, acVars>>

CrashChat(c) ==
  /\ "crash" \in Faults
  /\ chat[c].pc \notin {"start", "ended", "revised", "crashed"}
  /\ Goto(c, "crashed")
  /\ UNCHANGED <<creditVars, project, ask, drafts, acVars>>

-----------------------------------------------------------------------------
(* Acceptance criteria: the protocol of Generation, on a live project that *)
(* has a PRD, which the request reads first.                               *)

AcBegin(r) ==
  /\ Live /\ HasPrd
  /\ Ac!ReserveNew(r) \/ Ac!Join(r) \/ Ac!ReserveRejected(r)
  /\ UNCHANGED <<project, chat, ask, drafts>>

AcProceed(r) ==
  /\ \/ Ac!Claim(r) \/ Ac!ClaimThrows(r) \/ Ac!GiveUp(r)
     \/ Ac!Start(r) \/ Ac!StartRefused(r)
     \/ Ac!SettleTree(r) \/ Ac!SettleRefused(r)
     \/ Ac!CheckOwner(r) \/ Ac!Reset(r)
     \/ Ac!Crash(r)
  /\ UNCHANGED <<project, chat, ask, drafts>>

(* Faulty: sets the step it leads to.                                      *)
WithAcRewound == [project EXCEPT !.ac = TRUE, !.step = AcStep]

WithAc == [project EXCEPT !.ac = TRUE, !.step = Advanced(AcStep)]

(* saveAcVersion.                                                          *)
AcSave(r) ==
  /\ Live
  /\ Ac!Save(r)
  /\ project' = WithAc
  /\ UNCHANGED <<chat, ask, drafts>>

(* The generation fails; the client may have all of its text.              *)
AcFail(r) ==
  /\ Ac!At(r, "generating")
  /\ Ac!Fail(r)
  /\ drafts' \in {drafts, drafts \cup {r}}
  /\ UNCHANGED <<project, chat, ask>>

(* An unsettled request ends without an attempt to release.                *)
AcEndUnsettled(r) ==
  /\ Ac!At(r, "unsettled")
  /\ Ac!Goto(r, "ended")
  /\ UNCHANGED <<creditVars, project, chat, ask, drafts, acStatus, acCreated>>

(* /api/ac/save: a client stores the text it has on screen, under no claim.*)
AcRecover(r) ==
  /\ r \in drafts
  /\ Live
  /\ project' = WithAc
  /\ acStatus' = "completed"
  /\ drafts' = drafts \ {r}
  /\ UNCHANGED <<creditVars, chat, ask, acCreated, acReq>>

-----------------------------------------------------------------------------
(* The question marker: reads, and an UPDATE that checks the step alone.   *)

AskRead ==
  /\ ask.pc = "start"
  /\ Live
  /\ ask' = [pc |-> "marking", mark |-> ~HasPrd /\ project.step <= Prd]
  /\ UNCHANGED <<creditVars, project, chat, drafts, acVars>>

AskMark ==
  /\ ask.pc = "marking"
  /\ project' = IF ask.mark /\ project.step <= Prd
                  THEN [project EXCEPT !.step = Question] ELSE project
  /\ ask' = [pc |-> "start", mark |-> FALSE]
  /\ UNCHANGED <<creditVars, chat, drafts, acVars>>

(* POST .../step, sent when the user navigates; the save of a task tree    *)
(* advances to task in the same way.                                       *)
StepPost(step) ==
  /\ Live
  /\ step > project.step
  /\ project' = [project EXCEPT !.step = step]
  /\ UNCHANGED <<creditVars, chat, ask, drafts, acVars>>

(* DELETE purges the documents and leaves the row as a tombstone.          *)
Delete ==
  /\ Live
  /\ project' = [project EXCEPT !.state = "deleted", !.prd = <<>>, !.ac = FALSE]
  /\ UNCHANGED <<creditVars, chat, ask, drafts, acVars>>

-----------------------------------------------------------------------------
ChatStep(c) ==
  \/ Open(c) \/ ReserveChat(c) \/ RejectChat(c) \/ StartChat(c)
  \/ Resume(c) \/ SaveFirst(c)
  \/ SettleChat(c) \/ SettleChatRefused(c) \/ FailChat(c)
  \/ BeginRevise(c) \/ Merge(c) \/ Answer(c) \/ SaveRevision(c) \/ FailRevision(c)

AcStepOf(r) ==
  \/ AcBegin(r) \/ AcProceed(r) \/ AcSave(r) \/ AcFail(r)
  \/ AcEndUnsettled(r) \/ AcRecover(r)

FlowNext ==
  \/ \E c \in Chats : ChatStep(c) \/ CrashChat(c)
  \/ \E r \in AcRequests : AcStepOf(r)
  \/ AskRead \/ AskMark
  \/ \E step \in Prd .. Task : StepPost(step)
  \/ Delete
  \/ Tick /\ UNCHANGED <<project, chat, ask, drafts, acVars>>

FlowSpec == FlowInit /\ [][FlowNext]_flowVars

-----------------------------------------------------------------------------
(* Properties.                                                             *)

PrdOps == {o \in Ops : \E c \in Chats : chat[c].op = o}
AcOps == {o \in Ops : \E r \in AcRequests : acReq[r].op = o}
Paid(ops) == {o \in ops : op[o].state = "settled"}

(* The first PRD of a project is paid for once, however many requests to   *)
(* generate it, with keys of their own or one that is over, run at the     *)
(* same time; and whatever was paid for is stored, unless the user has     *)
(* deleted the project since.                                              *)
PaidForDocument ==
  /\ Cardinality(Paid(PrdOps)) <= 1
  /\ Live => /\ Paid(PrdOps) # {} => HasPrd
             /\ Paid(AcOps) # {} => project.ac

(* No credit is left behind while the period lasts (a release is refused   *)
(* after it): a live operation has a request that is to run or runs it,    *)
(* unless the server stopped under one of its requests, or the database    *)
(* refused to start the operation or to give its hold back.                *)
HoldHasRequest ==
  \A o \in PrdOps : IsActive(o) /\ ValidPeriod(Owner[o]) =>
    \E c \in Chats : /\ chat[c].op = o
                     /\ \/ chat[c].pc \in {"reserved", "streaming", "saved",
                                           "unsettled", "crashed"}
                        \/ chat[c].thrown # {}

(* A project past its PRD is never sent back, whatever a marker, a late    *)
(* revision or a save in flight had read before.                           *)
StepNeverRewinds ==
  [][project.step > Prd => project'.step >= project.step]_flowVars

(* A deleted project gets no document back from the requests that were     *)
(* running when it was deleted.                                            *)
TombstoneHasNoDocument ==
  project.state = "deleted" => ~HasPrd /\ ~project.ac

(* Acceptance criteria have a PRD to be the criteria of, and the step      *)
(* leads the user to them.                                                 *)
AcFollowsPrd == project.ac => HasPrd /\ project.step >= AcStep

-----------------------------------------------------------------------------
(* Statements of the comments that the code does not keep in every case.   *)

(* A generation that completes between the marker's read and its write     *)
(* still wins: a project that has a PRD is not at the question step.       *)
StepCoversPrd == HasPrd => project.step >= Prd

(* Past the PRD stage the PRD is finalised and locked.                     *)
PrdIsFrozen ==
  [][project.step > Prd /\ HasPrd /\ project'.state = "live" =>
       project'.prd = project.prd]_flowVars

(* Version history and the chat never drift apart: an answer that is       *)
(* stored belongs to a request that goes on to store its version.          *)
AnswerHasVersion ==
  [][\A c \in Chats : At(c, "answered") => chat'[c].pc # "ended"]_flowVars

(* Each version adds its own change to the versions before it.             *)
RevisionsAccumulate ==
  \A i, j \in DOMAIN project.prd : i <= j => project.prd[i] \subseteq project.prd[j]
=============================================================================
