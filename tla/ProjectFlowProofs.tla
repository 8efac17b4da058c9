--------------------------- MODULE ProjectFlowProofs ---------------------------
(***************************************************************************)
(* Theorems about ProjectFlow, for every number of chats, requests for     *)
(* acceptance criteria and keys: the documents of a project follow one     *)
(* another and die with it, its step never goes back once it has passed    *)
(* the PRD, what is paid for is stored and the PRD is paid for once, and   *)
(* no hold is left without a request.                                      *)
(***************************************************************************)
EXTENDS ProjectFlow, CreditServiceProofs

ProjectRow == [state : {"none", "live", "deleted", "gone"}, step : Question .. Task,
               prd : Seq(SUBSET Chats), ac : BOOLEAN]

ChatPCs == {"start", "opened", "reserved", "streaming", "saved", "unsettled",
            "revising", "merged", "answered", "revised", "ended", "crashed"}
ChatRow == [pc : ChatPCs, op : Ops \cup {NULL}, seen : States \cup {NULL},
            base : SUBSET Chats, made : BOOLEAN, thrown : SUBSET {"run", "release"}]
AcRow == [pc : Ac!PCs, op : Ops \cup {NULL}, seen : States \cup {NULL}, saved : BOOLEAN,
          thrown : SUBSET Ac!Statements]

FlowTypeOK ==
  /\ TypeOK
  /\ project \in ProjectRow
  /\ chat \in [Chats -> ChatRow]
  /\ ask \in [pc : {"start", "marking"}, mark : BOOLEAN]
  /\ drafts \subseteq AcRequests
  /\ acReq \in [AcRequests -> AcRow]

(* A request past its reservation has an operation, and the operation has  *)
(* a row; so has a chat that saw the state of one.                         *)
HasOp ==
  /\ \A c \in Chats :
       /\ chat[c].pc \in {"reserved", "saved", "unsettled"} => chat[c].op \in Ops
       /\ chat[c].seen # NULL => chat[c].op \in Ops
  /\ \A r \in AcRequests :
       acReq[r].pc \notin {"start", "ended", "crashed"} => acReq[r].op \in Ops

-----------------------------------------------------------------------------
(* Writing single fields.                                                  *)

LEMMA ProjectWrites ==
  ASSUME project \in ProjectRow, NEW step \in Question .. Task,
         NEW prd \in Seq(SUBSET Chats), NEW ac \in BOOLEAN,
         NEW state \in {"none", "live", "deleted", "gone"}
  PROVE  /\ [project EXCEPT !.step = step] = [state |-> project.state, step |-> step,
                                              prd |-> project.prd, ac |-> project.ac]
         /\ [project EXCEPT !.prd = prd, !.step = step] =
              [state |-> project.state, step |-> step, prd |-> prd, ac |-> project.ac]
         /\ [project EXCEPT !.ac = ac, !.step = step] =
              [state |-> project.state, step |-> step, prd |-> project.prd, ac |-> ac]
         /\ [project EXCEPT !.state = state] = [state |-> state, step |-> project.step,
                                               prd |-> project.prd, ac |-> project.ac]
         /\ [project EXCEPT !.state = state, !.prd = prd, !.ac = ac] =
              [state |-> state, step |-> project.step, prd |-> prd, ac |-> ac]
<1>1. [project EXCEPT !.step = step] =
        [state |-> project.state, step |-> step, prd |-> project.prd, ac |-> project.ac]
  BY DEF ProjectRow
<1>2. [project EXCEPT !.prd = prd, !.step = step] =
              [state |-> project.state, step |-> step, prd |-> prd, ac |-> project.ac]
  <2> DEFINE mid == [project EXCEPT !.prd = prd]
  <2>1. mid = [state |-> project.state, step |-> project.step, prd |-> prd,
               ac |-> project.ac]
    BY DEF ProjectRow
  <2>2. [project EXCEPT !.prd = prd, !.step = step] = [mid EXCEPT !.step = step]
    OBVIOUS
  <2> HIDE DEF mid
  <2>3. QED
    BY <2>1, <2>2
<1>3. [project EXCEPT !.ac = ac, !.step = step] =
              [state |-> project.state, step |-> step, prd |-> project.prd, ac |-> ac]
  <2> DEFINE mid == [project EXCEPT !.ac = ac]
  <2>1. mid = [state |-> project.state, step |-> project.step, prd |-> project.prd,
               ac |-> ac]
    BY DEF ProjectRow
  <2>2. [project EXCEPT !.ac = ac, !.step = step] = [mid EXCEPT !.step = step]
    OBVIOUS
  <2> HIDE DEF mid
  <2>3. QED
    BY <2>1, <2>2
<1>4. [project EXCEPT !.state = state] = [state |-> state, step |-> project.step,
                                               prd |-> project.prd, ac |-> project.ac]
  BY DEF ProjectRow
<1>5. [project EXCEPT !.state = state, !.prd = prd, !.ac = ac] =
              [state |-> state, step |-> project.step, prd |-> prd, ac |-> ac]
  <2> DEFINE mid == [project EXCEPT !.state = state]
             next == [mid EXCEPT !.prd = prd]
  <2>1. mid = [state |-> state, step |-> project.step, prd |-> project.prd,
               ac |-> project.ac]
    BY <1>4
  <2>2. [project EXCEPT !.state = state, !.prd = prd, !.ac = ac] = [next EXCEPT !.ac = ac]
    OBVIOUS
  <2> HIDE DEF mid
  <2>3. next = [state |-> state, step |-> project.step, prd |-> prd, ac |-> project.ac]
    BY <2>1
  <2> HIDE DEF next
  <2>4. QED
    BY <2>2, <2>3
<1>6. QED
  BY <1>1, <1>2, <1>3, <1>4, <1>5

LEMMA Advances ==
  ASSUME project \in ProjectRow, NEW step \in Question .. Task
  PROVE  /\ Advanced(step) \in Question .. Task
         /\ Advanced(step) >= step /\ Advanced(step) >= project.step
BY DEF Advanced, ProjectRow, Question, Task

LEMMA NewestIs ==
  ASSUME project \in ProjectRow
  PROVE  Newest \in SUBSET Chats
<1>1. project.prd \in Seq(SUBSET Chats)
  BY DEF ProjectRow
<1>2. CASE HasPrd
  <2>1. Len(project.prd) \in 1 .. Len(project.prd)
    BY <1>1, <1>2 DEF HasPrd
  <2>2. QED
    BY <1>1, <1>2, <2>1 DEF Newest, Last
<1>3. QED
  BY <1>2 DEF Newest

LEMMA Appends ==
  ASSUME project \in ProjectRow, NEW text \in SUBSET Chats
  PROVE  /\ Append(project.prd, text) \in Seq(SUBSET Chats)
         /\ Append(project.prd, text) # <<>>
BY DEF ProjectRow

-----------------------------------------------------------------------------
(* The credit part of a step.                                              *)

(* The instance of Generation brings the credit transactions under names   *)
(* of its own; they are the same.                                          *)
LEMMA SameHelpers ==
  ASSUME NEW o
  PROVE  /\ Ac!IsActive(o) = IsActive(o)
         /\ Ac!CanRelease(o) = CanRelease(o)
         /\ Ac!CanQuarantine(o) = CanQuarantine(o)
         /\ (UNCHANGED Ac!creditVars) <=> UNCHANGED creditVars
         /\ Ac!States = States
<1>1. Ac!IsActive(o) = IsActive(o)
  BY Zenon DEF Ac!IsActive, IsActive, Ac!Active, Active
<1>2. Ac!CanRelease(o) = CanRelease(o)
  BY <1>1, Zenon DEF Ac!CanRelease, CanRelease, Ac!ValidPeriod, ValidPeriod, Ac!CanUnreserve, CanUnreserve
<1>3. (UNCHANGED Ac!creditVars) <=> UNCHANGED creditVars
  BY DEF Ac!creditVars, creditVars
<1>4. Ac!States = States
  BY DEF Ac!States, States, Ac!Active, Active
<1>5. Ac!CanQuarantine(o) = CanQuarantine(o)
  BY <1>1, Zenon DEF Ac!CanQuarantine, CanQuarantine, Ac!CanUnreserve, CanUnreserve
<1>6. QED
  BY <1>1, <1>2, <1>3, <1>4, <1>5

LEMMA SameTransactions ==
  ASSUME NEW o
  PROVE  /\ Ac!Release(o) <=> Release(o)
         /\ Ac!Reserve(o, NULL) <=> Reserve(o, NULL)
         /\ Ac!MarkRunning(o) <=> MarkRunning(o)
         /\ \A charge : Ac!Settle(o, charge) <=> Settle(o, charge)
         /\ Ac!Quarantine(o) <=> Quarantine(o)
<1>1. Ac!Release(o) <=> Release(o)
  BY SameHelpers, Zenon DEF Ac!Release, Release, Ac!Returned, Returned
<1>3. Ac!Reserve(o, NULL) <=> Reserve(o, NULL)
  BY Zenon DEF Ac!Reserve, Reserve, Ac!ValidPeriod, ValidPeriod, Ac!Available, Available
<1>4. Ac!MarkRunning(o) <=> MarkRunning(o)
  BY Zenon DEF Ac!MarkRunning, MarkRunning
<1>5. ASSUME NEW charge PROVE Ac!Settle(o, charge) <=> Settle(o, charge)
  <2>1. Ac!CanSettle(o, charge) <=> CanSettle(o, charge)
    BY SameHelpers, Zenon DEF Ac!CanSettle, CanSettle, Ac!ValidPeriod, ValidPeriod,
                              Ac!CanUnreserve, CanUnreserve
  <2>2. QED
    BY <2>1, Zenon DEF Ac!Settle, Settle
<1>6. Ac!Quarantine(o) <=> Quarantine(o)
  <2>1. Ac!CanQuarantine(o) <=> CanQuarantine(o)
    BY SameHelpers
  <2>2. Ac!Returned(o, "quarantined", "correction") <=> Returned(o, "quarantined", "correction")
    BY Zenon DEF Ac!Returned, Returned
  <2>3. QED
    BY <2>1, <2>2, Zenon DEF Ac!Quarantine, Quarantine
<1>7. QED
  BY <1>1, <1>3, <1>4, <1>5, <1>6, Zenon

(* What a request for acceptance criteria gives back or sets aside, with   *)
(* its errors swallowed.                                                   *)
LEMMA AcTries ==
  ASSUME NEW r
  PROVE  /\ Ac!TryQuarantine(acReq[r].op) =>
              Quarantine(acReq[r].op) \/ UNCHANGED creditVars
         /\ \A pc : Ac!SafeRelease(r, pc) =>
              /\ Release(acReq[r].op) \/ UNCHANGED creditVars
              /\ Ac!Goto(r, pc) \/ Ac!Throws(r, "release", pc)
<1>1. Ac!TryQuarantine(acReq[r].op) => Quarantine(acReq[r].op) \/ UNCHANGED creditVars
  BY SameTransactions, SameHelpers DEF Ac!TryQuarantine
<1>2. ASSUME NEW pc, Ac!SafeRelease(r, pc)
      PROVE  /\ Release(acReq[r].op) \/ UNCHANGED creditVars
             /\ Ac!Goto(r, pc) \/ Ac!Throws(r, "release", pc)
  BY <1>2, SameTransactions, SameHelpers DEF Ac!SafeRelease, Ac!TryRelease
<1>3. QED
  BY <1>1, <1>2

LEMMA FlowCreditPart ==
  ASSUME FlowTypeOK, HasOp, [FlowNext]_flowVars
  PROVE  [CreditNext]_creditVars
<1> USE FlowAssumption
<1>1. ASSUME NEW o \in Ops, Release(o) PROVE [CreditNext]_creditVars
  BY <1>1 DEF CreditNext, OpNext
<1>2. ASSUME NEW o \in Ops, Reserve(o, NULL) PROVE [CreditNext]_creditVars
  BY <1>2 DEF CreditNext, OpNext
<1>3. ASSUME NEW o \in Ops, MarkRunning(o) \/ Quarantine(o) PROVE [CreditNext]_creditVars
  BY <1>3 DEF CreditNext, OpNext
<1>4. ASSUME NEW o \in Ops, NEW charge \in 0 .. MaxCharge[o], Settle(o, charge)
      PROVE  [CreditNext]_creditVars
  BY <1>4 DEF CreditNext, OpNext
<1>5. ASSUME NEW c \in Chats, ChatStep(c) PROVE [CreditNext]_creditVars
  <2>1. CASE Open(c) \/ RejectChat(c) \/ Resume(c) \/ SaveFirst(c) \/ BeginRevise(c)
               \/ Merge(c) \/ Answer(c) \/ SaveRevision(c) \/ FailRevision(c)
    BY <2>1 DEF Open, RejectChat, Resume, SaveFirst, BeginRevise, Merge, Answer,
                SaveRevision, FailRevision
  <2>2. CASE ReserveChat(c)
    <3>1. ChatKeys(c) \subseteq Ops
      BY DEF ChatKeys
    <3>2. QED
      BY <2>2, <3>1, <1>2 DEF ReserveChat
  <2>3. CASE StartChat(c)
    BY <2>3, <1>3 DEF StartChat, At, HasOp
  <2>4. CASE SettleChat(c)
    BY <2>4, <1>4 DEF SettleChat, At, HasOp
  <2>5. CASE SettleChatRefused(c)
    <3>1. chat[c].op \in Ops
      BY <2>5 DEF SettleChatRefused, At, HasOp
    <3>2. Quarantine(chat[c].op) \/ UNCHANGED creditVars
      BY <2>5, SameTransactions, SameHelpers DEF SettleChatRefused, Ac!TryQuarantine
    <3>3. QED
      BY <3>1, <3>2, <1>3
  <2>6. CASE FailChat(c)
    <3>1. CASE chat[c].seen = "reserved"
      <4>1. chat[c].op \in Ops
        BY <3>1 DEF HasOp, States, Active
      <4>2. QED
        BY <2>6, <3>1, <4>1, <1>1 DEF FailChat
    <3>2. QED
      BY <2>6, <3>1 DEF FailChat
  <2>7. QED
    BY <1>5, <2>1, <2>2, <2>3, <2>4, <2>5, <2>6 DEF ChatStep
<1>6. ASSUME NEW r \in AcRequests, AcStepOf(r) PROVE [CreditNext]_creditVars
  <2>1. ASSUME acReq[r].op \in Ops, NEW pc, Ac!SafeRelease(r, pc)
        PROVE  [CreditNext]_creditVars
    BY <2>1, <1>1, AcTries
  <2>2. ASSUME acReq[r].pc \notin {"start", "ended", "crashed"} PROVE acReq[r].op \in Ops
    BY <2>2 DEF HasOp
  <2>3. CASE AcBegin(r)
    <3>1. Ac!NewKeys(r) \subseteq Ops
      BY DEF Ac!NewKeys
    <3>2. CASE Ac!ReserveNew(r)
      BY <3>1, <3>2, <1>2, SameTransactions DEF Ac!ReserveNew
    <3>3. QED
      BY <2>3, <3>2, SameHelpers DEF AcBegin, Ac!Join, Ac!ReserveRejected
  <2>4. CASE AcProceed(r)
    <3>1. CASE Ac!Claim(r) \/ Ac!ClaimThrows(r) \/ Ac!StartRefused(r) \/ Ac!CheckOwner(r)
                 \/ Ac!Reset(r) \/ Ac!Crash(r)
      BY <3>1, SameHelpers DEF Ac!Claim, Ac!ClaimThrows, Ac!StartRefused, Ac!CheckOwner,
         Ac!Reset, Ac!Crash
    <3>2. CASE Ac!GiveUp(r)
      BY <3>2, <2>1, <2>2 DEF Ac!GiveUp, Ac!At
    <3>3. CASE Ac!Start(r)
      BY <3>3, <2>2, <1>3, SameTransactions DEF Ac!Start, Ac!At
    <3>4. CASE Ac!SettleTree(r)
      <4>1. acReq[r].op \in Ops
        BY <3>4, <2>2 DEF Ac!SettleTree, Ac!At
      <4>2. PICK charge \in 0 .. MaxCharge[acReq[r].op] : Ac!Settle(acReq[r].op, charge)
        BY <3>4 DEF Ac!SettleTree
      <4>3. QED
        BY <4>1, <4>2, <1>4, SameTransactions
    <3>5. CASE Ac!SettleRefused(r)
      <4>1. acReq[r].op \in Ops
        BY <3>5, <2>2 DEF Ac!SettleRefused, Ac!At
      <4>2. Quarantine(acReq[r].op) \/ UNCHANGED creditVars
        BY <3>5, AcTries DEF Ac!SettleRefused
      <4>3. QED
        BY <4>1, <4>2, <1>3
    <3>6. QED
      BY <2>4, <3>1, <3>2, <3>3, <3>4, <3>5 DEF AcProceed
  <2>5. CASE AcSave(r) \/ AcEndUnsettled(r) \/ AcRecover(r)
    BY <2>5, SameHelpers DEF AcSave, Ac!Save, AcEndUnsettled, AcRecover
  <2>6. CASE AcFail(r)
    BY <2>6, <2>1, <2>2 DEF AcFail, Ac!Fail, Ac!At
  <2>7. QED
    BY <1>6, <2>3, <2>4, <2>5, <2>6 DEF AcStepOf
<1>7. CASE AskRead \/ AskMark \/ Delete \/ \E step \in Prd .. Task : StepPost(step)
  BY <1>7 DEF AskRead, AskMark, Delete, StepPost
<1>8. CASE \E c \in Chats : CrashChat(c)
  BY <1>8 DEF CrashChat
<1>9. CASE UNCHANGED flowVars
  BY <1>9 DEF flowVars
<1>10. QED
  BY <1>5, <1>6, <1>7, <1>8, <1>9 DEF FlowNext, CreditNext

-----------------------------------------------------------------------------
(* How a step moves a request.                                             *)

Others(c) == \A d \in Chats \ {c} : chat'[d] = chat[d]

LEMMA ChatGoes ==
  ASSUME chat \in [Chats -> ChatRow], NEW c \in Chats, NEW pc \in ChatPCs, Goto(c, pc)
  PROVE  /\ chat' \in [Chats -> ChatRow] /\ Others(c)
         /\ chat'[c].pc = pc /\ chat'[c].op = chat[c].op /\ chat'[c].seen = chat[c].seen
         /\ chat'[c].thrown = chat[c].thrown
<1>1. chat' = [chat EXCEPT ![c] = [chat[c] EXCEPT !.pc = pc]]
  BY DEF Goto
<1> DEFINE row == [chat[c] EXCEPT !.pc = pc]
<1>2. /\ row \in ChatRow /\ row.pc = pc /\ row.op = chat[c].op
      /\ row.seen = chat[c].seen /\ row.thrown = chat[c].thrown
  BY DEF ChatRow
<1> HIDE DEF row
<1>3. chat' = [chat EXCEPT ![c] = row]
  BY <1>1 DEF row
<1>4. QED
  BY <1>2, <1>3 DEF Others

LEMMA ChatErrs ==
  ASSUME chat \in [Chats -> ChatRow], NEW c \in Chats,
         NEW statement \in {"run", "release"}, Throws(c, statement)
  PROVE  /\ chat' \in [Chats -> ChatRow] /\ Others(c)
         /\ chat'[c].pc = "ended" /\ chat'[c].op = chat[c].op /\ chat'[c].seen = chat[c].seen
         /\ chat'[c].thrown = chat[c].thrown \cup {statement}
<1> DEFINE mid == [chat[c] EXCEPT !.pc = "ended"]
           row == [mid EXCEPT !.thrown = chat[c].thrown \cup {statement}]
<1>1. chat' = [chat EXCEPT ![c] = row]
  BY DEF Throws
<1>2. /\ mid \in ChatRow /\ mid.pc = "ended" /\ mid.op = chat[c].op
      /\ mid.seen = chat[c].seen /\ chat[c].thrown \subseteq {"run", "release"}
  BY DEF ChatRow, ChatPCs
<1> HIDE DEF mid
<1>3. /\ row \in ChatRow /\ row.pc = "ended" /\ row.op = chat[c].op
      /\ row.seen = chat[c].seen /\ row.thrown = chat[c].thrown \cup {statement}
  BY <1>2 DEF ChatRow
<1> HIDE DEF row
<1>4. QED
  BY <1>1, <1>3 DEF Others

LEMMA ChatHolds ==
  ASSUME chat \in [Chats -> ChatRow], NEW c \in Chats, NEW o \in Ops,
         NEW state \in States, Holding(c, o, state)
  PROVE  /\ chat' \in [Chats -> ChatRow] /\ Others(c)
         /\ chat'[c].pc = "reserved" /\ chat'[c].op = o /\ chat'[c].seen = state
<1> DEFINE first == [chat[c] EXCEPT !.pc = "reserved"]
           second == [first EXCEPT !.op = o]
           row == [second EXCEPT !.seen = state]
<1>0. chat' = [chat EXCEPT ![c] = row]
  BY DEF Holding
<1>1. first \in ChatRow /\ first.pc = "reserved"
  BY DEF ChatRow, ChatPCs
<1> HIDE DEF first
<1>2. second \in ChatRow /\ second.pc = "reserved" /\ second.op = o
  BY <1>1 DEF ChatRow
<1> HIDE DEF second
<1>3. /\ row \in ChatRow /\ row.pc = "reserved" /\ row.op = o /\ row.seen = state
  BY <1>2 DEF ChatRow
<1> HIDE DEF row
<1>4. QED
  BY <1>0, <1>3 DEF Others

(* What a chat does in a step: it takes an operation, or keeps what it has.*)
Takes(c) ==
  /\ chat[c].pc = "opened" /\ chat'[c].pc = "reserved"
  /\ \/ \E o \in ChatKeys(c) : /\ o \in Ops
                               /\ Reserve(o, NULL)
                               /\ chat'[c].op = o /\ chat'[c].seen = "reserved"
     \/ /\ IsActive(ChatKey[c]) /\ UNCHANGED creditVars
        /\ chat'[c].op = ChatKey[c] /\ chat'[c].seen = op[ChatKey[c]].state

Keeps(c) ==
  /\ chat'[c].op = chat[c].op /\ chat'[c].seen = chat[c].seen
  /\ chat[c].thrown \subseteq chat'[c].thrown

LEMMA NotTaken ==
  ASSUME NEW c \in Chats, chat'[c].pc # "reserved"
  PROVE  ~Takes(c)
BY DEF Takes

LEMMA RowSet ==
  ASSUME chat \in [Chats -> ChatRow], NEW c \in Chats, NEW row \in ChatRow,
         chat' = [chat EXCEPT ![c] = row]
  PROVE  chat' \in [Chats -> ChatRow] /\ Others(c) /\ chat'[c] = row
BY DEF Others

LEMMA ReserveTakes ==
  ASSUME FlowTypeOK, NEW c \in Chats, ReserveChat(c)
  PROVE  /\ Takes(c) /\ chat' \in [Chats -> ChatRow] /\ Others(c)
         /\ chat'[c].op \in Ops
<1> USE FlowAssumption
<1>1. chat \in [Chats -> ChatRow]
  BY DEF FlowTypeOK
<1>2. chat[c].pc = "opened" /\ ChatKeys(c) \subseteq Ops
  BY DEF ReserveChat, At, ChatKeys
<1>3. CASE \E o \in ChatKeys(c) : Reserve(o, NULL) /\ Holding(c, o, "reserved")
  <2>1. PICK o \in ChatKeys(c) : Reserve(o, NULL) /\ Holding(c, o, "reserved")
    BY <1>3
  <2>2. o \in Ops /\ "reserved" \in States
    BY <1>2 DEF States, Active
  <2>3. QED
    BY <1>1, <1>2, <2>1, <2>2, ChatHolds DEF Takes
<1>4. CASE /\ IsActive(ChatKey[c]) /\ UNCHANGED creditVars
           /\ Holding(c, ChatKey[c], op[ChatKey[c]].state)
  <2>1. ChatKey[c] \in Ops /\ op[ChatKey[c]].state \in States
    BY <1>4 DEF IsActive, States
  <2>2. QED
    BY <1>1, <1>2, <1>4, <2>1, ChatHolds DEF Takes
<1>5. QED
  BY <1>3, <1>4 DEF ReserveChat

LEMMA ChatMoves ==
  ASSUME FlowTypeOK, HasOp, NEW c \in Chats, ChatStep(c) \/ CrashChat(c)
  PROVE  /\ chat' \in [Chats -> ChatRow] /\ Others(c)
         /\ (ReserveChat(c) /\ Takes(c)) \/ (~Takes(c) /\ Keeps(c))
         /\ chat'[c].pc # "start"
         /\ chat'[c].pc \in {"reserved", "saved", "unsettled"} => chat'[c].op \in Ops
         /\ UNCHANGED acReq
<1> USE FlowAssumption
<1>1. chat \in [Chats -> ChatRow]
  BY DEF FlowTypeOK
<1>2. chat[c].pc \in {"reserved", "saved", "unsettled"} => chat[c].op \in Ops
  BY DEF HasOp
<1> DEFINE Good == /\ chat' \in [Chats -> ChatRow] /\ Others(c)
                   /\ (ReserveChat(c) /\ Takes(c)) \/ (~Takes(c) /\ Keeps(c))
                   /\ chat'[c].pc # "start"
                   /\ chat'[c].pc \in {"reserved", "saved", "unsettled"} => chat'[c].op \in Ops
<1>t. ASSUME NEW statement \in {"run", "release"}, Throws(c, statement) PROVE Good
  <2>1. /\ chat' \in [Chats -> ChatRow] /\ Others(c)
        /\ chat'[c].pc = "ended" /\ Keeps(c)
    BY <1>1, <1>t, ChatErrs DEF Keeps
  <2>2. ~Takes(c)
    BY <2>1, NotTaken
  <2>3. QED
    BY <2>1, <2>2 DEF Keeps
<1>3. ASSUME NEW pc \in ChatPCs \ {"start", "reserved"}, Goto(c, pc),
             pc \in {"saved", "unsettled"} => chat[c].op \in Ops
      PROVE  Good
  <2>1. /\ chat' \in [Chats -> ChatRow] /\ Others(c)
        /\ chat'[c].pc = pc /\ Keeps(c)
    BY <1>1, <1>3, ChatGoes DEF Keeps
  <2>2. ~Takes(c)
    BY <1>3, <2>1, NotTaken
  <2>3. QED
    BY <1>3, <2>1, <2>2 DEF Keeps
<1>4. ASSUME Open(c) PROVE Good
  <2> DEFINE absent == ~Live
             mid == [chat[c] EXCEPT !.pc = "opened"]
             row == [mid EXCEPT !.made = absent]
  <2>1. chat' = [chat EXCEPT ![c] = row]
    BY <1>4 DEF Open
  <2>0. absent \in BOOLEAN
    BY DEF Live
  <2> HIDE DEF absent, row
  <2>5. /\ mid \in ChatRow /\ mid.pc = "opened" /\ mid.op = chat[c].op
        /\ mid.seen = chat[c].seen /\ mid.thrown = chat[c].thrown
    <3>1. chat[c] \in ChatRow /\ "opened" \in ChatPCs
      BY <1>1 DEF ChatPCs
    <3>2. QED
      BY <3>1 DEF ChatRow
  <2> HIDE DEF mid
  <2>2. /\ row \in ChatRow /\ row.pc = "opened" /\ row.op = chat[c].op
        /\ row.seen = chat[c].seen /\ row.thrown = chat[c].thrown
    BY <2>0, <2>5 DEF ChatRow, row
  <2>3. chat' \in [Chats -> ChatRow] /\ Others(c) /\ chat'[c] = row
    BY <1>1, <2>1, <2>2, RowSet
  <2>6. ~Takes(c)
    BY <2>2, <2>3, NotTaken
  <2>4. QED
    BY <2>2, <2>3, <2>6 DEF Keeps
<1>5. ASSUME Merge(c) PROVE Good
  <2> DEFINE mid == [chat[c] EXCEPT !.pc = "merged"]
             row == [mid EXCEPT !.base = Newest]
  <2>1. chat' = [chat EXCEPT ![c] = row]
    BY <1>5 DEF Merge
  <2>5. /\ mid \in ChatRow /\ mid.pc = "merged" /\ mid.op = chat[c].op
        /\ mid.seen = chat[c].seen /\ mid.thrown = chat[c].thrown
    BY <1>1 DEF ChatRow, ChatPCs
  <2> HIDE DEF mid
  <2>2. /\ row \in ChatRow /\ row.pc = "merged" /\ row.op = chat[c].op
        /\ row.seen = chat[c].seen /\ row.thrown = chat[c].thrown
    BY <2>5, NewestIs DEF ChatRow, FlowTypeOK
  <2> HIDE DEF row
  <2>3. chat' \in [Chats -> ChatRow] /\ Others(c) /\ chat'[c] = row
    BY <1>1, <2>1, <2>2, RowSet
  <2>6. ~Takes(c)
    BY <2>2, <2>3, NotTaken
  <2>4. QED
    BY <2>2, <2>3, <2>6 DEF Keeps
<1>6. ASSUME ReserveChat(c) PROVE Good
  <2>1. Takes(c) /\ chat' \in [Chats -> ChatRow] /\ Others(c) /\ chat'[c].op \in Ops
    BY <1>6, ReserveTakes
  <2>2. QED
    BY <1>6, <2>1 DEF Takes
<1>7. ASSUME StartChat(c) PROVE Good
  <2>1. Goto(c, "streaming") \/ Goto(c, "ended") \/ Throws(c, "run")
    BY <1>7 DEF StartChat
  <2>2. QED
    BY <1>t, <1>3, <2>1 DEF ChatPCs
<1>8. ASSUME SaveFirst(c) PROVE Good
  <2>1. chat[c].op # NULL => chat[c].op \in Ops
    BY <1>1 DEF ChatRow
  <2>2. QED
    BY <1>3, <1>8, <2>1 DEF SaveFirst, ChatPCs
<1>9. ASSUME SettleChatRefused(c) PROVE Good
  BY <1>2, <1>3, <1>9 DEF SettleChatRefused, ChatPCs, At
<1>f. ASSUME FailChat(c) PROVE Good
  <2>1. Goto(c, "ended") \/ Throws(c, "release")
    BY <1>f DEF FailChat
  <2>2. QED
    BY <1>t, <1>3, <2>1 DEF ChatPCs
<1>10. ASSUME \/ RejectChat(c) \/ Resume(c) \/ SettleChat(c)
              \/ BeginRevise(c) \/ Answer(c) \/ SaveRevision(c) \/ FailRevision(c)
              \/ CrashChat(c)
       PROVE  Good
  BY <1>3, <1>10 DEF RejectChat, Resume, SettleChat, BeginRevise, Answer,
       SaveRevision, FailRevision, CrashChat, ChatPCs
<1>11. Good
  BY <1>4, <1>5, <1>6, <1>7, <1>f, <1>8, <1>9, <1>10 DEF ChatStep
<1>12. UNCHANGED acReq
  BY DEF ChatStep, CrashChat, Open, ReserveChat, RejectChat, StartChat, Resume, SaveFirst,
         SettleChat, SettleChatRefused, FailChat, BeginRevise, Merge, Answer, SaveRevision,
         FailRevision, acVars
<1>13. QED
  BY <1>11, <1>12

AcOthers(r) == \A s \in AcRequests \ {r} : acReq'[s] = acReq[s]

LEMMA AcRowSet ==
  ASSUME acReq \in [AcRequests -> AcRow], NEW r \in AcRequests, NEW row \in AcRow,
         acReq' = [acReq EXCEPT ![r] = row]
  PROVE  acReq' \in [AcRequests -> AcRow] /\ AcOthers(r) /\ acReq'[r] = row
BY DEF AcOthers

LEMMA AcGoes ==
  ASSUME acReq \in [AcRequests -> AcRow], NEW r \in AcRequests, NEW pc \in Ac!PCs,
         Ac!Goto(r, pc)
  PROVE  /\ acReq' \in [AcRequests -> AcRow] /\ AcOthers(r)
         /\ acReq'[r].pc = pc /\ acReq'[r].op = acReq[r].op
<1> DEFINE row == [acReq[r] EXCEPT !.pc = pc]
<1>1. acReq' = [acReq EXCEPT ![r] = row]
  BY DEF Ac!Goto
<1>2. row \in AcRow /\ row.pc = pc /\ row.op = acReq[r].op
  BY DEF AcRow
<1> HIDE DEF row
<1>3. QED
  BY <1>1, <1>2, AcRowSet

LEMMA AcErrs ==
  ASSUME acReq \in [AcRequests -> AcRow], NEW r \in AcRequests, NEW pc \in Ac!PCs,
         NEW statement \in Ac!Statements, Ac!Throws(r, statement, pc)
  PROVE  /\ acReq' \in [AcRequests -> AcRow] /\ AcOthers(r)
         /\ acReq'[r].pc = pc /\ acReq'[r].op = acReq[r].op
<1> DEFINE mid == [acReq[r] EXCEPT !.pc = pc]
           row == [mid EXCEPT !.thrown = acReq[r].thrown \cup {statement}]
<1>1. acReq' = [acReq EXCEPT ![r] = row]
  BY DEF Ac!Throws
<1>2. /\ mid \in AcRow /\ mid.pc = pc /\ mid.op = acReq[r].op
      /\ acReq[r].thrown \subseteq Ac!Statements
  BY DEF AcRow
<1> HIDE DEF mid
<1>3. row \in AcRow /\ row.pc = pc /\ row.op = acReq[r].op
  BY <1>2 DEF AcRow
<1> HIDE DEF row
<1>4. QED
  BY <1>1, <1>3, AcRowSet

LEMMA AcHolds ==
  ASSUME acReq \in [AcRequests -> AcRow], NEW r \in AcRequests, NEW o \in Ops,
         NEW state \in States, Ac!Holding(r, o, state)
  PROVE  /\ acReq' \in [AcRequests -> AcRow] /\ AcOthers(r)
         /\ acReq'[r].pc = "waiting" /\ acReq'[r].op = o
<1> DEFINE first == [acReq[r] EXCEPT !.pc = "waiting"]
           second == [first EXCEPT !.op = o]
           row == [second EXCEPT !.seen = state]
<1>1. acReq' = [acReq EXCEPT ![r] = row]
  BY DEF Ac!Holding
<1>2. first \in AcRow /\ first.pc = "waiting"
  BY DEF AcRow, Ac!PCs
<1> HIDE DEF first
<1>3. second \in AcRow /\ second.pc = "waiting" /\ second.op = o
  BY <1>2 DEF AcRow
<1> HIDE DEF second
<1>4. row \in AcRow /\ row.pc = "waiting" /\ row.op = o
  BY <1>3 DEF AcRow
<1> HIDE DEF row
<1>5. QED
  BY <1>1, <1>4, AcRowSet

AcTakes(r) ==
  /\ acReq[r].pc = "start" /\ acReq'[r].pc = "waiting"
  /\ \/ \E o \in Ac!NewKeys(r) : o \in Ops /\ Reserve(o, NULL) /\ acReq'[r].op = o
     \/ /\ IsActive(AcKey[r]) /\ UNCHANGED creditVars
        /\ acReq'[r].op = AcKey[r]

AcKeeps(r) == acReq'[r].op = acReq[r].op

LEMMA AcMoves ==
  ASSUME FlowTypeOK, HasOp, NEW r \in AcRequests, AcStepOf(r)
  PROVE  /\ acReq' \in [AcRequests -> AcRow] /\ AcOthers(r)
         /\ \/ AcBegin(r) /\ AcTakes(r)
            \/ AcBegin(r) /\ AcKeeps(r) /\ UNCHANGED creditVars
            \/ AcKeeps(r) /\ ~AcBegin(r) /\ (acReq[r].pc # "start" \/ r \in drafts)
         /\ acReq'[r].pc \notin {"start", "ended", "crashed"} => acReq'[r].op \in Ops
         /\ acReq'[r].pc = "saved" => AcSave(r) \/ UNCHANGED acReq
         /\ UNCHANGED chat
<1> USE FlowAssumption
<1>1. acReq \in [AcRequests -> AcRow]
  BY DEF FlowTypeOK
<1>2. acReq[r].pc \notin {"start", "ended", "crashed"} => acReq[r].op \in Ops
  BY DEF HasOp
<1> DEFINE Good == /\ acReq' \in [AcRequests -> AcRow] /\ AcOthers(r)
                   /\ \/ AcBegin(r) /\ AcTakes(r)
                      \/ AcBegin(r) /\ AcKeeps(r) /\ UNCHANGED creditVars
                      \/ AcKeeps(r) /\ ~AcBegin(r) /\ (acReq[r].pc # "start" \/ r \in drafts)
                   /\ acReq'[r].pc \notin {"start", "ended", "crashed"} => acReq'[r].op \in Ops
                   /\ acReq'[r].pc = "saved" => AcSave(r) \/ UNCHANGED acReq
<1>0. AcBegin(r) => acReq[r].pc = "start" /\ drafts' = drafts
  BY DEF AcBegin, Ac!ReserveNew, Ac!Join, Ac!ReserveRejected, Ac!At
<1>3. ASSUME NEW pc \in Ac!PCs \ {"saved"}, acReq[r].pc # "start",
             \/ Ac!Goto(r, pc)
             \/ \E statement \in Ac!Statements : Ac!Throws(r, statement, pc),
             pc \in {"ended", "crashed"} \/ acReq[r].op \in Ops
      PROVE  Good
  <2>1. /\ acReq' \in [AcRequests -> AcRow] /\ AcOthers(r)
        /\ acReq'[r].pc = pc /\ acReq'[r].op = acReq[r].op
    BY <1>1, <1>3, AcGoes, AcErrs
  <2>2. QED
    BY <1>0, <1>3, <2>1 DEF AcKeeps
<1>4. ASSUME AcBegin(r) PROVE Good
  <2>1. Ac!NewKeys(r) \subseteq Ops /\ "reserved" \in States
    BY DEF Ac!NewKeys, States, Active
  <2>2. ASSUME Ac!ReserveNew(r) PROVE Good
    <3>1. PICK o \in Ac!NewKeys(r) : Reserve(o, NULL) /\ Ac!Holding(r, o, "reserved")
      BY <2>2, SameTransactions DEF Ac!ReserveNew
    <3>2. acReq[r].pc = "start"
      BY <2>2 DEF Ac!ReserveNew, Ac!At
    <3>3. /\ acReq' \in [AcRequests -> AcRow] /\ AcOthers(r)
          /\ acReq'[r].pc = "waiting" /\ acReq'[r].op = o
      BY <1>1, <2>1, <3>1, AcHolds
    <3>4. AcTakes(r)
      BY <2>1, <3>1, <3>2, <3>3 DEF AcTakes
    <3>5. QED
      BY <1>4, <2>1, <3>3, <3>4
  <2>3. ASSUME Ac!Join(r) PROVE Good
    <3>1. /\ AcKey[r] \in Ops /\ IsActive(AcKey[r]) /\ op[AcKey[r]].state \in States
          /\ UNCHANGED creditVars
      BY <2>3, SameHelpers DEF Ac!Join, IsActive, States
    <3>2. acReq[r].pc = "start" /\ Ac!Holding(r, AcKey[r], op[AcKey[r]].state)
      BY <2>3 DEF Ac!Join, Ac!At
    <3>3. /\ acReq' \in [AcRequests -> AcRow] /\ AcOthers(r)
          /\ acReq'[r].pc = "waiting" /\ acReq'[r].op = AcKey[r]
      BY <1>1, <3>1, <3>2, AcHolds
    <3>4. AcTakes(r)
      BY <3>1, <3>2, <3>3 DEF AcTakes
    <3>5. QED
      BY <1>4, <3>1, <3>3, <3>4
  <2>4. ASSUME Ac!ReserveRejected(r) PROVE Good
    <3>1. Ac!Goto(r, "ended") /\ UNCHANGED creditVars /\ "ended" \in Ac!PCs
      BY <2>4, SameHelpers DEF Ac!ReserveRejected, Ac!PCs, Ac!Over
    <3>2. QED
      BY <1>1, <1>4, <3>1, AcGoes DEF AcKeeps
  <2>5. QED
    BY <1>4, <2>2, <2>3, <2>4 DEF AcBegin
<1>5. ASSUME AcProceed(r) PROVE Good
  <2>1. PICK pc \in Ac!PCs \ {"saved"} :
          /\ \/ Ac!Goto(r, pc)
             \/ \E statement \in Ac!Statements : Ac!Throws(r, statement, pc)
          /\ acReq[r].pc # "start"
          /\ pc \in {"ended", "crashed"} \/ acReq[r].op \in Ops
    <3>1. CASE Ac!Claim(r)
      BY <1>2, <3>1 DEF Ac!Claim, Ac!At, Ac!PCs, Ac!Over
    <3>2. CASE Ac!SettleTree(r) \/ Ac!Reset(r) \/ Ac!ClaimThrows(r)
      BY <3>2 DEF Ac!SettleTree, Ac!Reset, Ac!ClaimThrows, Ac!At, Ac!PCs, Ac!Over, Ac!Statements
    <3>g. CASE Ac!GiveUp(r)
      <4>1. acReq[r].pc = "waiting" /\ Ac!SafeRelease(r, "ended")
        BY <3>g DEF Ac!GiveUp, Ac!At
      <4>2. Ac!Goto(r, "ended") \/ Ac!Throws(r, "release", "ended")
        BY <4>1, AcTries
      <4>3. QED
        BY <4>1, <4>2 DEF Ac!PCs, Ac!Over, Ac!Statements
    <3>3. CASE Ac!Start(r)
      BY <1>2, <3>3 DEF Ac!Start, Ac!At, Ac!PCs, Ac!Over
    <3>r. CASE Ac!StartRefused(r)
      <4>1. /\ acReq[r].pc = "claimed"
            /\ Ac!Goto(r, "unlocking") \/ Ac!Throws(r, "run", "unlocking")
        BY <3>r DEF Ac!StartRefused, Ac!At
      <4>2. QED
        BY <1>2, <4>1 DEF Ac!PCs, Ac!Statements
    <3>4. CASE Ac!SettleRefused(r)
      <4>1. /\ acReq[r].pc = "saved"
            /\ Ac!Goto(r, "unsettled") \/ Ac!Throws(r, "settle", "unsettled")
        BY <3>4 DEF Ac!SettleRefused, Ac!At
      <4>2. QED
        BY <1>2, <4>1 DEF Ac!PCs, Ac!Over, Ac!Statements
    <3>5. CASE Ac!CheckOwner(r)
      <4> DEFINE pc == IF Ac!OwnsProjectLock(r) THEN "resetting" ELSE "ended"
      <4>1. /\ Ac!Goto(r, pc) \/ Ac!Throws(r, "owner", "resetting")
            /\ acReq[r].pc = "unlocking"
        BY <3>5 DEF Ac!CheckOwner, Ac!At
      <4>2. pc \in {"resetting", "ended"}
        OBVIOUS
      <4> HIDE DEF pc
      <4>3. QED
        BY <1>2, <4>1, <4>2 DEF Ac!PCs, Ac!Over, Ac!Statements
    <3>6. CASE Ac!Crash(r)
      BY <3>6 DEF Ac!Crash, Ac!At, Ac!PCs, Ac!Over
    <3>7. QED
      BY <1>5, <3>1, <3>2, <3>g, <3>3, <3>r, <3>4, <3>5, <3>6 DEF AcProceed
  <2>2. QED
    BY <2>1, <1>3
<1>6. ASSUME AcSave(r) PROVE Good
  <2> DEFINE mid == [acReq[r] EXCEPT !.pc = "saved"]
             row == [mid EXCEPT !.saved = TRUE]
  <2>1. acReq' = [acReq EXCEPT ![r] = row] /\ acReq[r].pc = "generating"
    BY <1>6 DEF AcSave, Ac!Save, Ac!At
  <2> HIDE DEF row
  <2>2. mid \in AcRow /\ mid.pc = "saved" /\ mid.op = acReq[r].op
    <3>1. acReq[r] \in AcRow /\ "saved" \in Ac!PCs
      BY <1>1 DEF Ac!PCs
    <3>2. QED
      BY <3>1 DEF AcRow
  <2> HIDE DEF mid
  <2>3. row \in AcRow /\ row.pc = "saved" /\ row.op = acReq[r].op
    BY <2>2 DEF AcRow, row
  <2>4. acReq' \in [AcRequests -> AcRow] /\ AcOthers(r) /\ acReq'[r] = row
    BY <1>1, <2>1, <2>3, AcRowSet
  <2>5. QED
    BY <1>0, <1>2, <1>6, <2>1, <2>3, <2>4 DEF AcKeeps
<1>7. ASSUME AcFail(r) PROVE Good
  <2>1. /\ Ac!SafeRelease(r, "unlocking") /\ acReq[r].pc = "generating"
        /\ "unlocking" \in Ac!PCs /\ "release" \in Ac!Statements
    BY <1>7 DEF AcFail, Ac!Fail, Ac!At, Ac!PCs, Ac!Statements
  <2>2. Ac!Goto(r, "unlocking") \/ Ac!Throws(r, "release", "unlocking")
    BY <2>1, AcTries
  <2>3. QED
    BY <1>2, <1>3, <2>1, <2>2
<1>8. ASSUME AcEndUnsettled(r) PROVE Good
  <2>1. Ac!Goto(r, "ended") /\ acReq[r].pc = "unsettled" /\ "ended" \in Ac!PCs
    BY <1>8 DEF AcEndUnsettled, Ac!At, Ac!PCs, Ac!Over
  <2>2. QED
    BY <1>3, <2>1
<1>9. ASSUME AcRecover(r) PROVE Good
  BY <1>0, <1>1, <1>2, <1>9 DEF AcRecover, AcOthers, AcKeeps
<1>10. Good
  BY <1>4, <1>5, <1>6, <1>7, <1>8, <1>9 DEF AcStepOf
<1>11. UNCHANGED chat
  BY DEF AcStepOf, AcBegin, AcProceed, AcSave, AcFail, AcEndUnsettled, AcRecover
<1>12. QED
  BY <1>10, <1>11

(* Documents and credit aside, nothing else moves a request.               *)
LEMMA OtherMoves ==
  ASSUME \/ AskRead \/ AskMark \/ Delete
         \/ \E step \in Prd .. Task : StepPost(step)
         \/ Tick /\ UNCHANGED <<project, chat, ask, drafts, acVars>>
         \/ UNCHANGED flowVars
  PROVE  UNCHANGED <<chat, drafts, acReq>>
BY DEF AskRead, AskMark, Delete, StepPost, acVars, flowVars

-----------------------------------------------------------------------------
(* How a step moves the project.                                           *)

Record(state, step, prd, ac) == [state |-> state, step |-> step, prd |-> prd, ac |-> ac]

Opened == project.state = "none" /\ project' = NewProject /\ \E c \in Chats : Open(c)
Gone == Live /\ project' = Record("gone", project.step, project.prd, project.ac)
Written ==
  /\ Live
  /\ \E prd \in Seq(SUBSET Chats) :
       /\ prd # <<>>
       /\ project' = Record("live", Advanced(Prd), prd, project.ac)
AcWritten ==
  /\ Live
  /\ \E r \in AcRequests : acReq[r].pc = "generating" \/ r \in drafts
  /\ project' = Record("live", Advanced(AcStep), project.prd, TRUE)
Marked ==
  /\ ask.pc = "marking" /\ project.step <= Prd
  /\ project' = Record(project.state, Question, project.prd, project.ac)
Stepped ==
  /\ Live
  /\ \E step \in Prd .. Task :
       step > project.step /\ project' = Record("live", step, project.prd, project.ac)
Deleted == Live /\ project' = Record("deleted", project.step, <<>>, FALSE)

LEMMA ProjectMoves ==
  ASSUME FlowTypeOK, [FlowNext]_flowVars
  PROVE  \/ project' = project
         \/ Opened \/ Gone \/ Written \/ AcWritten \/ Marked \/ Stepped \/ Deleted
<1>1. project \in ProjectRow /\ (Live => project.state = "live")
  BY DEF FlowTypeOK, Live
<1>2. ASSUME NEW c \in Chats, Open(c) PROVE project' = project \/ Opened
  BY <1>2 DEF Open, Opened, Live
<1>3. ASSUME NEW c \in Chats, RejectChat(c) PROVE project' = project \/ Gone
  <2>1. project' = project \/ (Live /\ project' = [project EXCEPT !.state = "gone"])
    BY <1>3 DEF RejectChat, RolledBack
  <2>2. [project EXCEPT !.state = "gone"] =
          Record("gone", project.step, project.prd, project.ac)
    BY <1>1 DEF ProjectRow, Record
  <2>3. QED
    BY <2>1, <2>2 DEF Gone
<1>4. ASSUME NEW text \in SUBSET Chats, Live,
             project' = [project EXCEPT !.prd = Append(project.prd, text),
                                        !.step = Advanced(Prd)]
      PROVE  Written
  <2>1. Advanced(Prd) \in Question .. Task
    BY <1>1, Advances DEF Prd, Question, Task
  <2>2. /\ Append(project.prd, text) \in Seq(SUBSET Chats)
        /\ Append(project.prd, text) # <<>>
    BY <1>1, Appends
  <2>3. project' = Record(project.state, Advanced(Prd), Append(project.prd, text), project.ac)
    BY <1>1, <1>4, <2>1, <2>2, ProjectWrites, Zenon DEF Record
  <2>4. QED
    BY <1>1, <1>4, <2>2, <2>3 DEF Written
<1>5. ASSUME NEW c \in Chats, SaveFirst(c) \/ SaveRevision(c) PROVE Written
  <2>1. chat[c].base \cup {c} \in SUBSET Chats
    BY DEF FlowTypeOK, ChatRow
  <2>2. QED
    BY <1>4, <1>5, <2>1 DEF SaveFirst, SaveRevision, CanSaveFirst
<1>6. ASSUME NEW r \in AcRequests, AcSave(r) \/ AcRecover(r) PROVE AcWritten
  <2>1. Live /\ project' = [project EXCEPT !.ac = TRUE, !.step = Advanced(AcStep)]
    BY <1>6 DEF AcSave, AcRecover, WithAc
  <2>2. Advanced(AcStep) \in Question .. Task
    BY <1>1, Advances DEF AcStep, Question, Task
  <2>3. project' = Record(project.state, Advanced(AcStep), project.prd, TRUE)
    <3>1. /\ project.prd \in Seq(SUBSET Chats) /\ TRUE \in BOOLEAN
          /\ project.state \in {"none", "live", "deleted", "gone"}
      BY <1>1 DEF ProjectRow
    <3>2. [project EXCEPT !.ac = TRUE, !.step = Advanced(AcStep)] =
            [state |-> project.state, step |-> Advanced(AcStep), prd |-> project.prd,
             ac |-> TRUE]
      BY <1>1, <2>2, <3>1, ProjectWrites, Zenon
    <3>3. QED
      BY <2>1, <3>2 DEF Record
  <2>4. acReq[r].pc = "generating" \/ r \in drafts
    BY <1>6 DEF AcSave, Ac!Save, Ac!At, AcRecover
  <2>5. QED
    BY <1>1, <2>1, <2>3, <2>4 DEF AcWritten
<1>7. ASSUME NEW step \in Question .. Task
      PROVE  [project EXCEPT !.step = step] =
               Record(project.state, step, project.prd, project.ac)
  BY <1>1 DEF ProjectRow, Record
<1>8. ASSUME AskMark PROVE project' = project \/ Marked
  <2>1. Question \in Question .. Task
    BY DEF Question, Task
  <2>2. QED
    BY <1>7, <1>8, <2>1 DEF AskMark, Marked
<1>9. ASSUME NEW step \in Prd .. Task, StepPost(step) PROVE Stepped
  <2>1. step \in Question .. Task
    BY DEF Prd, Question, Task
  <2>2. QED
    BY <1>1, <1>7, <1>9, <2>1 DEF StepPost, Stepped
<1>10. ASSUME Delete PROVE Deleted
  <2>1. <<>> \in Seq(SUBSET Chats)
    OBVIOUS
  <2>2. project.step \in Question .. Task
    BY <1>1 DEF ProjectRow
  <2>3. project' = Record("deleted", project.step, <<>>, FALSE)
    BY <1>1, <1>10, <2>1, <2>2, ProjectWrites, Zenon DEF Delete, Record
  <2>4. QED
    BY <1>10, <2>3 DEF Delete, Deleted
<1>11. ASSUME NEW c \in Chats, ChatStep(c) \/ CrashChat(c),
              ~Open(c), ~RejectChat(c), ~SaveFirst(c), ~SaveRevision(c)
       PROVE  project' = project
  BY <1>11 DEF ChatStep, CrashChat, ReserveChat, StartChat, Resume, SettleChat,
       SettleChatRefused, FailChat, BeginRevise, Merge, Answer, FailRevision
<1>12. ASSUME NEW r \in AcRequests, AcStepOf(r), ~AcSave(r), ~AcRecover(r)
       PROVE  project' = project
  BY <1>12 DEF AcStepOf, AcBegin, AcProceed, AcFail, AcEndUnsettled
<1>13. CASE AskRead \/ (Tick /\ UNCHANGED <<project, chat, ask, drafts, acVars>>)
            \/ UNCHANGED flowVars
  BY <1>13 DEF AskRead, flowVars
<1>14. QED
  BY <1>2, <1>3, <1>5, <1>6, <1>8, <1>9, <1>10, <1>11, <1>12, <1>13 DEF FlowNext

LEMMA ProjectType ==
  ASSUME FlowTypeOK, [FlowNext]_flowVars
  PROVE  project' \in ProjectRow
<1>1. project \in ProjectRow
  BY DEF FlowTypeOK
<1>2. Advanced(Prd) \in Question .. Task /\ Advanced(AcStep) \in Question .. Task
  BY <1>1, Advances DEF Prd, AcStep, Question, Task
<1>3. Prd \in Question .. Task /\ Prd .. Task \subseteq Question .. Task
      /\ Question \in Question .. Task
  BY DEF Prd, Question, Task
<1>4. <<>> \in Seq(SUBSET Chats) /\ FALSE \in BOOLEAN /\ TRUE \in BOOLEAN
  OBVIOUS
<1>5. CASE Opened
  <2>1. project' = [state |-> "live", step |-> Prd, prd |-> <<>>, ac |-> FALSE]
    BY <1>5 DEF Opened, NewProject
  <2>2. QED
    BY <1>3, <1>4, <2>1, Zenon DEF ProjectRow
<1>6. CASE Gone BY <1>1, <1>6 DEF Gone, Record, ProjectRow
<1>11. CASE Deleted
  <2>1. project' = [state |-> "deleted", step |-> project.step, prd |-> <<>>, ac |-> FALSE]
    BY <1>11 DEF Deleted, Record
  <2>2. project.step \in Question .. Task
    BY <1>1 DEF ProjectRow
  <2>3. QED
    BY <1>4, <2>1, <2>2, Zenon DEF ProjectRow
<1>7. CASE Written BY <1>1, <1>2, <1>7 DEF Written, Record, ProjectRow
<1>8. CASE AcWritten BY <1>1, <1>2, <1>4, <1>8 DEF AcWritten, Record, ProjectRow
<1>9. CASE Marked \/ Stepped BY <1>1, <1>3, <1>9 DEF Marked, Stepped, Record, ProjectRow
<1>10. QED BY <1>1, <1>5, <1>6, <1>7, <1>8, <1>9, <1>11, ProjectMoves

-----------------------------------------------------------------------------
(* Types.                                                                  *)

BaseInv == FlowTypeOK /\ HasOp

LEMMA BaseInit == FlowInit => BaseInv
<1> SUFFICES ASSUME FlowInit PROVE BaseInv
  OBVIOUS
<1> USE FlowAssumption
<1>1. TypeOK
  <2>1. Init
    BY Zenon DEF FlowInit, Ac!GenInit, Ac!Init, Init, Ac!NoRow, NoRow, Ac!Idle, Idle,
                 Ac!EntryTypes, EntryTypes
  <2>2. QED
    BY <2>1, InitType
<1>2. project \in ProjectRow
  <2>1. PICK s \in {"none", "live"} : project = [NewProject EXCEPT !.state = s]
    BY DEF FlowInit
  <2>2. project = [state |-> s, step |-> Prd, prd |-> <<>>, ac |-> FALSE]
    BY <2>1 DEF NewProject
  <2>3. <<>> \in Seq(SUBSET Chats) /\ Prd \in Question .. Task /\ FALSE \in BOOLEAN
    BY DEF Prd, Question, Task
  <2>4. s \in {"none", "live", "deleted", "gone"}
    OBVIOUS
  <2>5. QED
    BY <2>2, <2>3, <2>4, Zenon DEF ProjectRow
<1>3. /\ chat = [c \in Chats |-> Idling]
      /\ ask \in [pc : {"start", "marking"}, mark : BOOLEAN]
      /\ drafts \subseteq AcRequests
  BY DEF FlowInit
<1>4. Idling \in ChatRow /\ Idling.pc = "start" /\ Idling.seen = NULL
  BY DEF Idling, ChatRow, ChatPCs
<1>5. acReq \in [AcRequests -> AcRow] /\ \A r \in AcRequests : acReq[r].pc = "start"
  BY DEF FlowInit, Ac!GenInit, AcRow, Ac!PCs
<1>6. FlowTypeOK
  BY <1>1, <1>2, <1>3, <1>4, <1>5 DEF FlowTypeOK
<1>7. HasOp
  BY <1>3, <1>4, <1>5 DEF HasOp
<1>8. QED
  BY <1>6, <1>7 DEF BaseInv

LEMMA BaseStep == BaseInv /\ [FlowNext]_flowVars => BaseInv'
<1> SUFFICES ASSUME BaseInv, [FlowNext]_flowVars PROVE BaseInv'
  OBVIOUS
<1> USE FlowAssumption
<1>0. FlowTypeOK /\ HasOp
  BY DEF BaseInv
<1>1. TypeOK'
  BY <1>0, FlowCreditPart, TypeStep DEF FlowTypeOK
<1>2. project' \in ProjectRow
  BY <1>0, ProjectType
<1>3. ask' \in [pc : {"start", "marking"}, mark : BOOLEAN]
  <2>1. CASE AskRead
    <3>1. (~HasPrd /\ project.step <= Prd) \in BOOLEAN
      BY DEF HasPrd
    <3>2. ask' = [pc |-> "marking", mark |-> ~HasPrd /\ project.step <= Prd]
      BY <2>1 DEF AskRead
    <3>3. QED
      BY <3>1, <3>2
  <2>2. CASE AskMark
    BY <2>2 DEF AskMark
  <2>3. CASE ask' = ask
    BY <1>0, <2>3 DEF FlowTypeOK
  <2>4. ASSUME NEW c \in Chats, ChatStep(c) \/ CrashChat(c) PROVE ask' = ask
    BY <2>4 DEF ChatStep, CrashChat, Open, ReserveChat, RejectChat, StartChat, Resume,
         SaveFirst, SettleChat, SettleChatRefused, FailChat, BeginRevise, Merge, Answer,
         SaveRevision, FailRevision
  <2>5. ASSUME NEW r \in AcRequests, AcStepOf(r) PROVE ask' = ask
    BY <2>5 DEF AcStepOf, AcBegin, AcProceed, AcSave, AcFail, AcEndUnsettled, AcRecover
  <2>6. CASE \/ Delete \/ \E step \in Prd .. Task : StepPost(step)
             \/ Tick /\ UNCHANGED <<project, chat, ask, drafts, acVars>>
             \/ UNCHANGED flowVars
    BY <2>3, <2>6 DEF Delete, StepPost, flowVars
  <2>7. QED
    BY <2>1, <2>2, <2>3, <2>4, <2>5, <2>6 DEF FlowNext
<1>4. drafts' \subseteq AcRequests
  <2>1. ASSUME NEW r \in AcRequests, AcStepOf(r) PROVE drafts' \subseteq drafts \cup {r}
    BY <2>1 DEF AcStepOf, AcBegin, AcProceed, AcSave, AcFail, AcEndUnsettled, AcRecover
  <2>2. ASSUME NEW c \in Chats, ChatStep(c) \/ CrashChat(c) PROVE drafts' = drafts
    BY <2>2 DEF ChatStep, CrashChat, Open, ReserveChat, RejectChat, StartChat, Resume,
         SaveFirst, SettleChat, SettleChatRefused, FailChat, BeginRevise, Merge, Answer,
         SaveRevision, FailRevision
  <2>3. QED
    BY <1>0, <2>1, <2>2, OtherMoves DEF FlowNext, FlowTypeOK
<1>5. /\ chat' \in [Chats -> ChatRow] /\ acReq' \in [AcRequests -> AcRow] /\ HasOp'
  <2>1. ASSUME NEW c \in Chats, ChatStep(c) \/ CrashChat(c)
        PROVE  chat' \in [Chats -> ChatRow] /\ acReq' \in [AcRequests -> AcRow] /\ HasOp'
    <3>1. /\ chat' \in [Chats -> ChatRow] /\ Others(c) /\ UNCHANGED acReq
          /\ (ReserveChat(c) /\ Takes(c)) \/ (~Takes(c) /\ Keeps(c))
          /\ chat'[c].pc \in {"reserved", "saved", "unsettled"} => chat'[c].op \in Ops
      BY <1>0, <2>1, ChatMoves
    <3>2. chat'[c].seen # NULL => chat'[c].op \in Ops
      <4>1. CASE Takes(c)
        BY <4>1 DEF Takes
      <4>2. CASE Keeps(c)
        BY <1>0, <4>2 DEF Keeps, HasOp
      <4>3. QED
        BY <3>1, <4>1, <4>2
    <3>3. HasOp'
      BY <1>0, <3>1, <3>2 DEF HasOp, Others
    <3>4. QED
      BY <1>0, <3>1, <3>3 DEF FlowTypeOK
  <2>2. ASSUME NEW r \in AcRequests, AcStepOf(r)
        PROVE  chat' \in [Chats -> ChatRow] /\ acReq' \in [AcRequests -> AcRow] /\ HasOp'
    <3>1. /\ acReq' \in [AcRequests -> AcRow] /\ AcOthers(r) /\ UNCHANGED chat
          /\ acReq'[r].pc \notin {"start", "ended", "crashed"} => acReq'[r].op \in Ops
      BY <1>0, <2>2, AcMoves
    <3>2. HasOp'
      BY <1>0, <3>1 DEF HasOp, AcOthers
    <3>3. QED
      BY <1>0, <3>1, <3>2 DEF FlowTypeOK
  <2>3. CASE UNCHANGED <<chat, acReq>>
    BY <1>0, <2>3 DEF FlowTypeOK, HasOp
  <2>4. QED
    BY <2>1, <2>2, <2>3, OtherMoves DEF FlowNext
<1>6. QED
  BY <1>1, <1>2, <1>3, <1>4, <1>5 DEF BaseInv, FlowTypeOK

LEMMA BaseAlways == FlowSpec => []BaseInv
BY BaseInit, BaseStep, PTL DEF FlowSpec

(* The rows have their types, and a request that spends or returns credit  *)
(* has an operation to do it with.                                         *)
THEOREM FlowTypeTheorem == FlowSpec => []FlowTypeOK
<1>1. BaseInv => FlowTypeOK
  BY DEF BaseInv
<1>2. QED
  BY <1>1, BaseAlways, PTL

(* Chats and acceptance criteria drive the credit service only through its *)
(* transactions, so the theorems about it hold of them.                    *)
THEOREM FlowUsesCredit == FlowSpec => Spec
<1>1. FlowInit => Init
  BY Zenon DEF FlowInit, Ac!GenInit, Ac!Init, Init, Ac!NoRow, NoRow, Ac!Idle, Idle,
               Ac!EntryTypes, EntryTypes
<1>2. BaseInv /\ [FlowNext]_flowVars => [CreditNext]_creditVars
  BY FlowCreditPart DEF BaseInv
<1>3. QED
  BY <1>1, <1>2, BaseAlways, PTL DEF FlowSpec, Spec

-----------------------------------------------------------------------------
(* The documents.                                                          *)

Untouched ==
  project.state = "none" =>
    /\ project.step = Prd /\ ~HasPrd /\ ~project.ac
    /\ ask.pc = "start" /\ drafts = {}
    /\ \A c \in Chats : chat[c].pc = "start"
    /\ \A r \in AcRequests : acReq[r].pc = "start" /\ acReq[r].op \notin Ops

AcBegun == drafts # {} \/ \E r \in AcRequests : acReq[r].pc # "start"

DocsInv ==
  /\ Untouched
  /\ TombstoneHasNoDocument
  /\ AcFollowsPrd
  /\ Live /\ AcBegun => HasPrd

LEMMA DocsInit == FlowInit => DocsInv
<1> SUFFICES ASSUME FlowInit PROVE DocsInv
  OBVIOUS
<1>1. PICK s \in {"none", "live"} : project = [NewProject EXCEPT !.state = s]
  BY DEF FlowInit
<1>2. project.state = s /\ project.step = Prd /\ project.prd = <<>> /\ ~project.ac
  BY <1>1 DEF NewProject
<1>3. /\ ask.pc = "start" /\ drafts = {}
      /\ \A c \in Chats : chat[c].pc = "start"
      /\ \A r \in AcRequests : acReq[r].pc = "start" /\ acReq[r].op \notin Ops
  BY FlowAssumption DEF FlowInit, Ac!GenInit, Idling
<1>4. QED
  BY <1>2, <1>3 DEF DocsInv, Untouched, TombstoneHasNoDocument, AcFollowsPrd, HasPrd, AcBegun

(* Nothing happens before the project is made.                             *)
LEMMA NoneStays ==
  ASSUME BaseInv, Untouched, project.state = "none", [FlowNext]_flowVars
  PROVE  \/ \E c \in Chats : Open(c)
         \/ UNCHANGED <<chat, acReq, drafts, ask>>
<1>1. ~Live
  BY DEF Live
<1>2. ASSUME NEW c \in Chats, ChatStep(c) \/ CrashChat(c) PROVE Open(c)
  <2>1. chat[c].pc = "start"
    BY DEF Untouched
  <2>2. QED
    BY <1>1, <1>2, <2>1 DEF ChatStep, CrashChat, At, Asks, ReserveChat, RejectChat, StartChat,
       Resume, SaveFirst, SettleChat, SettleChatRefused, FailChat, BeginRevise, Merge, Answer,
       SaveRevision, FailRevision
<1>3. ASSUME NEW r \in AcRequests, AcStepOf(r) PROVE FALSE
  <2>1. r \notin drafts /\ acReq[r].pc = "start"
    BY DEF Untouched
  <2>2. QED
    BY <1>1, <1>3, <2>1, AcMoves DEF BaseInv, AcBegin
<1>4. ~AskRead /\ ~AskMark
  BY <1>1 DEF AskRead, AskMark, Untouched
<1>5. CASE \/ Delete \/ \E step \in Prd .. Task : StepPost(step)
           \/ Tick /\ UNCHANGED <<project, chat, ask, drafts, acVars>>
           \/ UNCHANGED flowVars
  BY <1>5 DEF Delete, StepPost, acVars, flowVars
<1>6. QED
  BY <1>2, <1>3, <1>4, <1>5 DEF FlowNext

(* Work on the acceptance criteria begins with a PRD.                      *)
LEMMA AcBegins ==
  ASSUME BaseInv, AcBegun', ~AcBegun, [FlowNext]_flowVars
  PROVE  Live /\ HasPrd /\ project' = project
<1>1. ASSUME NEW r \in AcRequests, AcStepOf(r) PROVE AcBegin(r)
  BY <1>1, AcMoves DEF BaseInv, AcBegun
<1>2. ASSUME NEW c \in Chats, ChatStep(c) \/ CrashChat(c) PROVE UNCHANGED <<drafts, acReq>>
  BY <1>2 DEF ChatStep, CrashChat, Open, ReserveChat, RejectChat, StartChat, Resume,
         SaveFirst, SettleChat, SettleChatRefused, FailChat, BeginRevise, Merge, Answer,
         SaveRevision, FailRevision, acVars
<1>3. \E r \in AcRequests : AcBegin(r)
  <2>1. CASE UNCHANGED <<drafts, acReq>>
    BY <2>1 DEF AcBegun
  <2>2. QED
    BY <1>1, <1>2, <2>1, OtherMoves DEF FlowNext
<1>4. QED
  BY <1>3 DEF AcBegin

LEMMA DocsStep ==
  ASSUME BaseInv, DocsInv, [FlowNext]_flowVars
  PROVE  DocsInv' /\ (project.step > Prd => project'.step >= project.step)
<1>1. project \in ProjectRow /\ project' \in ProjectRow
  BY ProjectType DEF BaseInv, FlowTypeOK
<1>2. /\ Advanced(Prd) \in Int /\ Advanced(AcStep) \in Int
      /\ Advanced(Prd) >= project.step /\ Advanced(AcStep) >= project.step
      /\ Advanced(AcStep) >= AcStep
  BY <1>1, Advances DEF Prd, AcStep, Question, Task
<1>3. project.step \in Int /\ project'.step \in Int /\ Prd = 1 /\ AcStep = 2 /\ Question = 0
  BY <1>1 DEF ProjectRow, Prd, AcStep, Question, Task
<1> DEFINE Docs == /\ TombstoneHasNoDocument' /\ AcFollowsPrd'
                   /\ project.step > Prd => project'.step >= project.step
<1>4. CASE project' = project
  <2>1. Docs
    BY <1>3, <1>4 DEF DocsInv, TombstoneHasNoDocument, AcFollowsPrd, HasPrd
  <2>2. (Live /\ AcBegun => HasPrd)'
    BY <1>4, AcBegins DEF DocsInv, Live, HasPrd
  <2>3. Untouched'
    <3>1. CASE project.state = "none"
      <4>1. CASE \E c \in Chats : Open(c)
        BY <1>4, <3>1, <4>1 DEF Open, Live, NewProject
      <4>2. CASE UNCHANGED <<chat, acReq, drafts, ask>>
        BY <1>4, <3>1, <4>2 DEF DocsInv, Untouched, HasPrd
      <4>3. QED
        BY <3>1, <4>1, <4>2, NoneStays DEF DocsInv
    <3>2. QED
      BY <1>4, <3>1 DEF Untouched
  <2>4. QED
    BY <2>1, <2>2, <2>3 DEF DocsInv
<1>5. CASE project' # project
  <2>1. AcBegun' => AcBegun
    BY <1>5, AcBegins
  <2>2. CASE Opened
    <3>1. project'.state = "live" /\ project'.prd = <<>> /\ ~project'.ac /\ project'.step = Prd
      BY <2>2 DEF Opened, NewProject
    <3>2. project.step = Prd /\ ~AcBegun
      BY <2>2 DEF Opened, DocsInv, Untouched, AcBegun
    <3>3. QED
      BY <1>3, <2>1, <3>1, <3>2 DEF DocsInv, Untouched, TombstoneHasNoDocument, AcFollowsPrd
  <2>3. CASE Gone
    <3>1. /\ project'.state = "gone" /\ project'.prd = project.prd
          /\ project'.ac = project.ac /\ project'.step = project.step
      BY <2>3 DEF Gone, Record
    <3>2. QED
      BY <1>3, <3>1 DEF DocsInv, Untouched, TombstoneHasNoDocument, AcFollowsPrd, HasPrd, Live
  <2>4. CASE Written
    <3>1. /\ project'.state = "live" /\ project'.prd # <<>>
          /\ project'.ac = project.ac /\ project'.step = Advanced(Prd)
      BY <2>4 DEF Written, Record
    <3>2. QED
      BY <1>2, <1>3, <3>1 DEF DocsInv, Untouched, TombstoneHasNoDocument, AcFollowsPrd, HasPrd
  <2>5. CASE AcWritten
    <3>1. /\ project'.state = "live" /\ project'.prd = project.prd
          /\ project'.ac /\ project'.step = Advanced(AcStep)
      BY <2>5 DEF AcWritten, Record
    <3>2. HasPrd
      BY <2>5 DEF AcWritten, DocsInv, AcBegun
    <3>3. QED
      BY <1>2, <1>3, <3>1, <3>2 DEF DocsInv, Untouched, TombstoneHasNoDocument, AcFollowsPrd,
         HasPrd
  <2>6. CASE Marked
    <3>1. /\ project'.state = project.state /\ project'.prd = project.prd
          /\ project'.ac = project.ac /\ project'.step = Question
      BY <2>6 DEF Marked, Record
    <3>2. ask.pc # "start" /\ project.step <= Prd
      BY <2>6 DEF Marked
    <3>3. QED
      BY <1>3, <2>1, <3>1, <3>2 DEF DocsInv, Untouched, TombstoneHasNoDocument, AcFollowsPrd,
         HasPrd, Live
  <2>7. CASE Stepped
    <3>1. /\ project'.state = "live" /\ project'.prd = project.prd
          /\ project'.ac = project.ac /\ project'.step > project.step
      BY <2>7 DEF Stepped, Record
    <3>2. project'.step >= project.step /\ (project.step >= AcStep => project'.step >= AcStep)
      BY <1>3, <3>1
    <3>3. Live
      BY <2>7 DEF Stepped
    <3>4. QED
      BY <2>1, <3>1, <3>2, <3>3 DEF DocsInv, Untouched, TombstoneHasNoDocument, AcFollowsPrd,
         HasPrd, Live
  <2>8. CASE Deleted
    <3>1. /\ project'.state = "deleted" /\ project'.prd = <<>>
          /\ ~project'.ac /\ project'.step = project.step
      BY <2>8 DEF Deleted, Record
    <3>2. QED
      BY <1>3, <3>1 DEF DocsInv, Untouched, TombstoneHasNoDocument, AcFollowsPrd, HasPrd, Live
  <2>9. QED
    BY <1>5, <2>2, <2>3, <2>4, <2>5, <2>6, <2>7, <2>8, ProjectMoves DEF BaseInv
<1>6. QED
  BY <1>4, <1>5

LEMMA DocsAlways == FlowSpec => [](BaseInv /\ DocsInv)
BY BaseInit, BaseStep, DocsInit, DocsStep, PTL DEF FlowSpec

(* Requests that were running when a project was deleted store nothing in  *)
(* it: every save asks for the row as it is (prd-service.ts, ac-service.ts).*)
THEOREM TombstoneTheorem == FlowSpec => []TombstoneHasNoDocument
<1>1. DocsInv => TombstoneHasNoDocument
  BY DEF DocsInv
<1>2. QED
  BY <1>1, DocsAlways, PTL

(* No acceptance criteria without a PRD, and the step leads to them.       *)
THEOREM AcTheorem == FlowSpec => []AcFollowsPrd
<1>1. DocsInv => AcFollowsPrd
  BY DEF DocsInv
<1>2. QED
  BY <1>1, DocsAlways, PTL

(* A project past its PRD is never sent back (flow-progress.ts).           *)
THEOREM StepTheorem == FlowSpec => StepNeverRewinds
<1>1. BaseInv /\ DocsInv /\ [FlowNext]_flowVars =>
        [project.step > Prd => project'.step >= project.step]_flowVars
  BY DocsStep
<1>2. QED
  BY <1>1, DocsAlways, PTL DEF FlowSpec, StepNeverRewinds

-----------------------------------------------------------------------------
(* How a step moves the operations.                                        *)

Change(o, state) ==
  op'[o].state = state /\ \A p \in Ops \ {o} : op'[p].state = op[p].state
Quiet == \A o \in Ops : op'[o].state = op[o].state

LEMMA Effects ==
  ASSUME TypeOK, NEW o \in Ops
  PROVE  /\ Reserve(o, NULL) => op[o].state = "none" /\ Change(o, "reserved")
         /\ MarkRunning(o) => op[o].state = "reserved" /\ Change(o, "running")
         /\ \A charge \in 0 .. MaxCharge[o] :
              Settle(o, charge) => IsActive(o) /\ Change(o, "settled")
         /\ Release(o) => IsActive(o) /\ Change(o, "released")
         /\ Quarantine(o) => IsActive(o) /\ Change(o, "quarantined")
         /\ (UNCHANGED creditVars => Quiet)
<1>1. Reserve(o, NULL) => op[o].state = "none" /\ Change(o, "reserved")
  BY DEF Reserve, Change, TypeOK
<1>2. MarkRunning(o) => op[o].state = "reserved" /\ Change(o, "running")
  BY DEF MarkRunning, Change, TypeOK
<1>3. ASSUME NEW charge \in 0 .. MaxCharge[o], Settle(o, charge)
      PROVE  IsActive(o) /\ Change(o, "settled")
  <2>1. op' = [op EXCEPT ![o].state = "settled", ![o].reserved = 0, ![o].charge = charge]
    BY <1>3 DEF Settle
  <2>2. op'[o] = [op[o] EXCEPT !.state = "settled", !.reserved = 0, !.charge = charge]
        /\ \A p \in Ops \ {o} : op'[p] = op[p]
    BY <2>1 DEF TypeOK
  <2>3. op'[o].state = "settled"
    BY <2>2 DEF TypeOK
  <2>4. IsActive(o)
    BY <1>3 DEF Settle, CanSettle
  <2>5. QED
    BY <2>2, <2>3, <2>4 DEF Change
<1>4. ASSUME NEW entry, NEW state \in {"released", "quarantined"}, Returned(o, state, entry)
      PROVE  Change(o, state)
  BY <1>4 DEF Returned, Change, TypeOK
<1>5. Release(o) => IsActive(o) /\ Change(o, "released")
  BY <1>4 DEF Release, CanRelease
<1>6. Quarantine(o) => IsActive(o) /\ Change(o, "quarantined")
  BY <1>4 DEF Quarantine, CanQuarantine
<1>7. UNCHANGED creditVars => Quiet
  BY DEF creditVars, Quiet
<1>8. QED
  BY <1>1, <1>2, <1>3, <1>5, <1>6, <1>7

LEMMA Clock ==
  ASSUME BaseInv, [FlowNext]_flowVars
  PROVE  \A a \in Accounts : ValidPeriod(a)' => ValidPeriod(a)
<1>1. [CreditNext]_creditVars /\ TypeOK
  BY FlowCreditPart DEF BaseInv, FlowTypeOK
<1>2. periodEnd' = periodEnd /\ (now' = now \/ now' = now + 1)
  <2>1. ASSUME NEW o \in Ops, OpNext(o) PROVE periodEnd' = periodEnd /\ now' = now
    BY <2>1 DEF OpNext, Reserve, MarkRunning, Settle, Release, Quarantine, Refund
  <2>2. ASSUME NEW s \in Sweepers, SweepNext(s) PROVE periodEnd' = periodEnd /\ now' = now
    BY <2>2 DEF SweepNext, SweepClaim, SweepTryRelease, SweepRelease, SweepReleaseFails,
                SweepTryQuarantine, SweepQuarantine, SweepThrows, SweepCrash
  <2>3. QED
    BY <1>1, <2>1, <2>2 DEF CreditNext, Tick, creditVars
<1>3. SUFFICES ASSUME NEW a \in Accounts, periodEnd[a] # NULL, periodEnd[a] >= now'
               PROVE  periodEnd[a] >= now
  BY <1>2 DEF ValidPeriod
<1>4. now \in Int /\ periodEnd[a] \in Int
  BY <1>1, <1>3 DEF TypeOK
<1>5. QED
  BY <1>2, <1>3, <1>4

(* The paths of a chat, each with what it does to the operations.          *)
Stores(c) ==
  /\ chat[c].pc = "streaming" /\ Live /\ ~HasPrd
  /\ chat'[c].pc = IF chat[c].op = NULL THEN "ended" ELSE "saved"
  /\ Quiet
Runs(c) ==
  /\ chat[c].pc = "reserved" /\ chat'[c].pc = "streaming"
  /\ op[chat[c].op].state = "reserved" /\ Change(chat[c].op, "running")
Yields(c) ==
  /\ chat[c].pc = "reserved" /\ chat'[c].pc = "ended" /\ Quiet
  /\ op[chat[c].op].state # "reserved" \/ "run" \in chat'[c].thrown
Pays(c) ==
  /\ chat[c].pc = "saved" /\ chat'[c].pc = "ended"
  /\ IsActive(chat[c].op) /\ Change(chat[c].op, "settled")
Unpaid(c) ==
  /\ chat[c].pc = "saved" /\ chat'[c].pc = "unsettled"
  /\ Quiet \/ (IsActive(chat[c].op) /\ Change(chat[c].op, "quarantined"))
Returns(c) ==
  /\ chat[c].pc \in {"streaming", "unsettled"} /\ chat'[c].pc = "ended"
  /\ \/ /\ Quiet
        /\ chat[c].seen = "reserved" =>
             ~CanRelease(chat[c].op) \/ "release" \in chat'[c].thrown
     \/ /\ chat[c].seen = "reserved"
        /\ IsActive(chat[c].op) /\ Change(chat[c].op, "released")
Stops(c) == chat[c].pc # "start" /\ chat'[c].pc = "crashed" /\ Quiet
Aside(c) ==
  /\ chat[c].pc \notin {"reserved", "streaming", "saved", "unsettled", "crashed"}
  /\ chat'[c].pc \notin {"reserved", "saved", "unsettled", "crashed"}
  /\ chat'[c].pc \in {"opened", "streaming"} => chat[c].pc = "start"
  /\ Quiet

LEMMA ChatPaths ==
  ASSUME BaseInv, NEW c \in Chats, ChatStep(c) \/ CrashChat(c)
  PROVE  \/ ReserveChat(c) /\ Takes(c)
         \/ /\ ~Takes(c) /\ Keeps(c)
            /\ \/ Stores(c) \/ Runs(c) \/ Yields(c) \/ Pays(c) \/ Unpaid(c) \/ Returns(c)
               \/ Stops(c) \/ Aside(c)
<1>1. TypeOK /\ FlowTypeOK /\ HasOp /\ chat \in [Chats -> ChatRow]
  BY DEF BaseInv, FlowTypeOK
<1>2. (ReserveChat(c) /\ Takes(c)) \/ (~Takes(c) /\ Keeps(c))
  BY <1>1, ChatMoves
<1>3. /\ chat[c].pc \in {"reserved", "saved", "unsettled"} => chat[c].op \in Ops
      /\ chat[c].seen = "reserved" => chat[c].op \in Ops
  BY <1>1, FlowAssumption DEF HasOp, States, Active
<1> DEFINE Path == \/ ReserveChat(c)
                   \/ Stores(c) \/ Runs(c) \/ Yields(c) \/ Pays(c) \/ Unpaid(c) \/ Returns(c)
                   \/ Stops(c) \/ Aside(c)
<1>4. ASSUME NEW pc \in ChatPCs, Goto(c, pc) PROVE chat'[c].pc = pc
  BY <1>1, <1>4, ChatGoes
<1>5. UNCHANGED creditVars => Quiet
  BY DEF creditVars, Quiet
<1>6. ASSUME Open(c) PROVE Path
  <2>1. chat'[c].pc = "opened" /\ chat[c].pc = "start"
    BY <1>1, <1>6 DEF Open, ChatRow, Asks, At
  <2>2. QED
    BY <1>5, <1>6, <2>1 DEF Open, Aside
<1>7. ASSUME Merge(c) PROVE Path
  <2>1. chat'[c].pc = "merged" /\ chat[c].pc = "revising"
    BY <1>1, <1>7 DEF Merge, ChatRow, At
  <2>2. QED
    BY <1>5, <1>7, <2>1 DEF Merge, Aside
<1>8. ASSUME RejectChat(c) PROVE Path
  <2>1. Goto(c, "ended") /\ chat[c].pc = "opened" /\ UNCHANGED creditVars
    BY <1>8 DEF RejectChat, At
  <2>2. QED
    BY <1>4, <1>5, <2>1 DEF Aside, ChatPCs
<1>9. ASSUME StartChat(c) PROVE Path
  <2>1. chat[c].pc = "reserved" /\ chat[c].op \in Ops
    BY <1>3, <1>9 DEF StartChat, At
  <2>2. CASE MarkRunning(chat[c].op) /\ Goto(c, "streaming")
    <3>1. chat'[c].pc = "streaming"
      BY <1>4, <2>2 DEF ChatPCs
    <3>2. QED
      BY <1>1, <2>1, <2>2, <3>1, Effects DEF Runs
  <2>3. CASE op[chat[c].op].state # "reserved" /\ Goto(c, "ended") /\ UNCHANGED creditVars
    <3>1. chat'[c].pc = "ended"
      BY <1>4, <2>3 DEF ChatPCs
    <3>2. QED
      BY <1>5, <2>1, <2>3, <3>1 DEF Yields
  <2>4. CASE Throws(c, "run") /\ UNCHANGED creditVars
    BY <1>1, <1>5, <2>1, <2>4, ChatErrs DEF Yields
  <2>5. QED
    BY <1>9, <2>2, <2>3, <2>4 DEF StartChat
<1>10. ASSUME Resume(c) \/ BeginRevise(c) PROVE Path
  <2>1. /\ chat[c].pc = "start" /\ UNCHANGED creditVars
        /\ Goto(c, "streaming") \/ Goto(c, "ended") \/ Goto(c, "revising")
    BY <1>10 DEF Resume, BeginRevise, Asks, At
  <2>2. chat'[c].pc \in {"streaming", "ended", "revising"}
    BY <1>4, <2>1 DEF ChatPCs
  <2>3. QED
    BY <1>5, <2>1, <2>2 DEF Aside
<1>11. ASSUME SaveFirst(c) PROVE Path
  <2>1. /\ chat[c].pc = "streaming" /\ Live /\ ~HasPrd /\ UNCHANGED creditVars
        /\ Goto(c, IF chat[c].op = NULL THEN "ended" ELSE "saved")
    BY <1>11 DEF SaveFirst, At, CanSaveFirst
  <2>2. chat'[c].pc = IF chat[c].op = NULL THEN "ended" ELSE "saved"
    BY <1>4, <2>1 DEF ChatPCs
  <2>3. QED
    BY <1>5, <2>1, <2>2 DEF Stores
<1>12. ASSUME SettleChat(c) PROVE Path
  <2>1. chat[c].pc = "saved" /\ chat[c].op \in Ops /\ chat'[c].pc = "ended"
    BY <1>3, <1>4, <1>12 DEF SettleChat, At, ChatPCs
  <2>2. PICK charge \in 0 .. MaxCharge[chat[c].op] : Settle(chat[c].op, charge)
    BY <1>12 DEF SettleChat
  <2>3. QED
    BY <1>1, <2>1, <2>2, Effects DEF Pays
<1>13. ASSUME SettleChatRefused(c) PROVE Path
  <2>1. chat[c].pc = "saved" /\ chat[c].op \in Ops /\ chat'[c].pc = "unsettled"
    BY <1>3, <1>4, <1>13 DEF SettleChatRefused, At, ChatPCs
  <2>2. Quarantine(chat[c].op) \/ UNCHANGED creditVars
    BY <1>13, SameTransactions, SameHelpers DEF SettleChatRefused, Ac!TryQuarantine
  <2>3. Quiet \/ (IsActive(chat[c].op) /\ Change(chat[c].op, "quarantined"))
    BY <1>1, <1>5, <2>1, <2>2, Effects
  <2>4. QED
    BY <2>1, <2>3 DEF Unpaid
<1>14. ASSUME FailChat(c) PROVE Path
  <2>1. chat[c].pc \in {"streaming", "unsettled"}
    BY <1>14 DEF FailChat
  <2>2. CASE chat[c].seen = "reserved" /\ Release(chat[c].op) /\ Goto(c, "ended")
    <3>1. chat[c].op \in Ops /\ chat'[c].pc = "ended"
      BY <1>3, <1>4, <2>2 DEF ChatPCs
    <3>2. QED
      BY <1>1, <2>1, <2>2, <3>1, Effects DEF Returns
  <2>3. CASE /\ ~(chat[c].seen = "reserved" /\ CanRelease(chat[c].op))
             /\ Goto(c, "ended") /\ UNCHANGED creditVars
    <3>1. chat'[c].pc = "ended"
      BY <1>4, <2>3 DEF ChatPCs
    <3>2. QED
      BY <1>5, <2>1, <2>3, <3>1 DEF Returns
  <2>4. CASE Throws(c, "release") /\ UNCHANGED creditVars
    BY <1>1, <1>5, <2>1, <2>4, ChatErrs DEF Returns
  <2>5. QED
    BY <1>14, <2>2, <2>3, <2>4 DEF FailChat
<1>15. ASSUME Answer(c) \/ SaveRevision(c) \/ FailRevision(c) PROVE Path
  <2>1. /\ chat[c].pc \in {"revising", "merged", "answered"} /\ UNCHANGED creditVars
        /\ Goto(c, "answered") \/ Goto(c, "revised") \/ Goto(c, "ended")
    BY <1>15 DEF Answer, SaveRevision, FailRevision, At
  <2>2. chat'[c].pc \in {"answered", "revised", "ended"}
    BY <1>4, <2>1 DEF ChatPCs
  <2>3. QED
    BY <1>5, <2>1, <2>2 DEF Aside
<1>16. ASSUME CrashChat(c) PROVE Path
  BY <1>4, <1>5, <1>16 DEF CrashChat, Stops, ChatPCs
<1>17. Path
  BY <1>6, <1>7, <1>8, <1>9, <1>10, <1>11, <1>12, <1>13, <1>14, <1>15, <1>16 DEF ChatStep
<1>18. CASE ReserveChat(c)
  BY <1>1, <1>18, ReserveTakes
<1>19. CASE ~ReserveChat(c)
  BY <1>2, <1>17, <1>19
<1>20. QED
  BY <1>18, <1>19

(* The paths of a request for acceptance criteria.                         *)
AcReserves(r) == AcTakes(r) /\ Change(acReq'[r].op, "reserved") /\ op[acReq'[r].op].state = "none"
AcJoins(r) == AcTakes(r) /\ Quiet /\ acReq'[r].op = AcKey[r] /\ IsActive(AcKey[r])
AcChanges(r) ==
  /\ AcKeeps(r) /\ acReq[r].op \in Ops
  /\ \E state \in {"running", "settled", "released", "quarantined"} :
       /\ Change(acReq[r].op, state)
       /\ state = "settled" => acReq[r].pc = "saved"

LEMMA AcPaths ==
  ASSUME BaseInv, NEW r \in AcRequests, AcStepOf(r)
  PROVE  AcReserves(r) \/ AcJoins(r) \/ AcChanges(r) \/ (AcKeeps(r) /\ Quiet)
<1>1. TypeOK /\ FlowTypeOK /\ HasOp
  BY DEF BaseInv, FlowTypeOK
<1>2. \/ AcBegin(r) /\ AcTakes(r)
      \/ AcBegin(r) /\ AcKeeps(r) /\ UNCHANGED creditVars
      \/ AcKeeps(r) /\ ~AcBegin(r) /\ (acReq[r].pc # "start" \/ r \in drafts)
  BY <1>1, AcMoves
<1>3. acReq[r].pc \notin {"start", "ended", "crashed"} => acReq[r].op \in Ops
  BY <1>1 DEF HasOp
<1>4. UNCHANGED creditVars => Quiet
  BY DEF creditVars, Quiet
<1>5. CASE AcBegin(r) /\ AcTakes(r)
  <2>1. CASE \E o \in Ac!NewKeys(r) : o \in Ops /\ Reserve(o, NULL) /\ acReq'[r].op = o
    BY <1>1, <1>5, <2>1, Effects DEF AcReserves
  <2>2. CASE IsActive(AcKey[r]) /\ UNCHANGED creditVars /\ acReq'[r].op = AcKey[r]
    BY <1>4, <1>5, <2>2 DEF AcJoins
  <2>3. QED
    BY <1>5, <2>1, <2>2 DEF AcTakes
<1>6. CASE AcBegin(r) /\ AcKeeps(r) /\ UNCHANGED creditVars
  BY <1>4, <1>6
<1>7. CASE AcKeeps(r) /\ ~AcBegin(r)
  <2>1. ASSUME acReq[r].op \in Ops, NEW pc, Ac!SafeRelease(r, pc)
        PROVE  AcChanges(r) \/ Quiet
    <3>1. Release(acReq[r].op) \/ UNCHANGED creditVars
      BY <2>1, AcTries
    <3>2. Quiet \/ Change(acReq[r].op, "released")
      BY <1>1, <1>4, <2>1, <3>1, Effects
    <3>3. QED
      BY <1>7, <2>1, <3>2 DEF AcChanges
  <2>2. CASE AcProceed(r)
    <3>1. CASE Ac!Claim(r) \/ Ac!ClaimThrows(r) \/ Ac!StartRefused(r) \/ Ac!CheckOwner(r)
               \/ Ac!Reset(r) \/ Ac!Crash(r)
      BY <1>4, <1>7, <3>1, SameHelpers DEF Ac!Claim, Ac!ClaimThrows, Ac!StartRefused,
         Ac!CheckOwner, Ac!Reset, Ac!Crash
    <3>2. CASE Ac!GiveUp(r)
      BY <1>3, <1>7, <2>1, <3>2 DEF Ac!GiveUp, Ac!At
    <3>3. CASE Ac!Start(r)
      <4>1. acReq[r].op \in Ops /\ MarkRunning(acReq[r].op)
        BY <1>3, <3>3, SameTransactions DEF Ac!Start, Ac!At
      <4>2. Change(acReq[r].op, "running")
        BY <1>1, <4>1, Effects
      <4>3. QED
        BY <1>7, <4>1, <4>2 DEF AcChanges
    <3>4. CASE Ac!SettleTree(r)
      <4>1. acReq[r].pc = "saved" /\ acReq[r].op \in Ops
        BY <1>3, <3>4 DEF Ac!SettleTree, Ac!At
      <4>2. PICK charge \in 0 .. MaxCharge[acReq[r].op] : Settle(acReq[r].op, charge)
        BY <3>4, SameTransactions DEF Ac!SettleTree
      <4>3. Change(acReq[r].op, "settled")
        BY <1>1, <4>1, <4>2, Effects
      <4>4. QED
        BY <1>7, <4>1, <4>3 DEF AcChanges
    <3>5. CASE Ac!SettleRefused(r)
      <4>1. acReq[r].op \in Ops
        BY <1>3, <3>5 DEF Ac!SettleRefused, Ac!At
      <4>2. Quarantine(acReq[r].op) \/ UNCHANGED creditVars
        BY <3>5, AcTries DEF Ac!SettleRefused
      <4>3. Change(acReq[r].op, "quarantined") \/ Quiet
        BY <1>1, <1>4, <4>1, <4>2, Effects
      <4>4. QED
        BY <1>7, <4>1, <4>3 DEF AcChanges
    <3>6. QED
      BY <2>2, <3>1, <3>2, <3>3, <3>4, <3>5 DEF AcProceed
  <2>3. CASE AcSave(r) \/ AcEndUnsettled(r) \/ AcRecover(r)
    BY <1>4, <1>7, <2>3, SameHelpers DEF AcSave, Ac!Save, AcEndUnsettled, AcRecover
  <2>4. CASE AcFail(r)
    BY <1>3, <1>7, <2>1, <2>4 DEF AcFail, Ac!Fail, Ac!At
  <2>5. QED
    BY <1>7, <2>2, <2>3, <2>4 DEF AcStepOf
<1>8. QED
  BY <1>2, <1>5, <1>6, <1>7

LEMMA OtherQuiet ==
  ASSUME \/ AskRead \/ AskMark \/ Delete
         \/ \E step \in Prd .. Task : StepPost(step)
         \/ Tick /\ UNCHANGED <<project, chat, ask, drafts, acVars>>
         \/ UNCHANGED flowVars
  PROVE  Quiet
BY DEF AskRead, AskMark, Delete, StepPost, Tick, flowVars, creditVars, Quiet

-----------------------------------------------------------------------------
(* Whose operation is whose.                                               *)

Keys == {ChatKey[c] : c \in Chats}
AcKeys == {AcKey[r] : r \in AcRequests}

(* The operations of chats and of acceptance criteria are disjoint and     *)
(* have rows; a key of a chat that has a row belongs to some chat.         *)
KeyInv ==
  /\ \A c \in Chats :
       /\ chat[c].pc \in {"start", "opened"} => chat[c].op \notin Ops
       /\ chat[c].op \in Ops => chat[c].op \in Keys \cup Fresh /\ op[chat[c].op].state # "none"
       /\ op[ChatKey[c]].state # "none" => \E d \in Chats : chat[d].op = ChatKey[c]
  /\ \A r \in AcRequests :
       acReq[r].op \in Ops => acReq[r].op \in AcKeys \cup Fresh /\ op[acReq[r].op].state # "none"
  /\ \A c \in Chats, r \in AcRequests : chat[c].op \in Ops => chat[c].op # acReq[r].op

LEMMA KeyFacts ==
  /\ Keys \subseteq Ops \ Fresh /\ AcKeys \subseteq Ops \ Fresh
  /\ Keys \cap AcKeys = {} /\ Fresh \subseteq Ops
BY FlowAssumption DEF Keys, AcKeys

LEMMA KeyInit == FlowInit => KeyInv
<1> SUFFICES ASSUME FlowInit PROVE KeyInv
  OBVIOUS
<1>1. /\ \A c \in Chats : chat[c].op = NULL
      /\ \A r \in AcRequests : acReq[r].op = NULL
  BY DEF FlowInit, Ac!GenInit, Idling
<1>2. \A o \in Ops : op[o].state = "none"
  BY DEF FlowInit, Ac!GenInit, Ac!Init, Ac!NoRow
<1>3. \A c \in Chats : ChatKey[c] \in Ops
  BY FlowAssumption
<1>4. QED
  BY <1>1, <1>2, <1>3, FlowAssumption DEF KeyInv

(* No operation loses its row.                                             *)
LEMMA RowsStay ==
  ASSUME Quiet \/ \E o \in Ops, state \in States \ {"none"} : Change(o, state),
         NEW p \in Ops, op[p].state # "none"
  PROVE  op'[p].state # "none"
BY DEF Quiet, Change

LEMMA KeyStep ==
  ASSUME BaseInv, KeyInv, [FlowNext]_flowVars
  PROVE  KeyInv'
<1>1. FlowTypeOK /\ HasOp
  BY DEF BaseInv
<1>2. \A c \in Chats : ChatKey[c] \in Ops /\ ChatKey[c] \in Keys
  BY KeyFacts DEF Keys
<1>3. "reserved" \in States \ {"none"} /\ {"running", "settled", "released", "quarantined"}
        \subseteq States \ {"none"}
  BY DEF States, Active
<1>4. ASSUME NEW c \in Chats, ChatStep(c) \/ CrashChat(c) PROVE KeyInv'
  <2>1. /\ Others(c) /\ UNCHANGED acReq /\ chat'[c].pc # "start"
    BY <1>1, <1>4, ChatMoves
  <2>2. CASE ReserveChat(c) /\ Takes(c)
    <3>1. chat[c].op \notin Ops
      BY <2>2 DEF Takes, KeyInv
    <3>2. CASE \E o \in ChatKeys(c) : /\ o \in Ops
                                      /\ Reserve(o, NULL)
                                      /\ chat'[c].op = o /\ chat'[c].seen = "reserved"
      <4>1. PICK o \in ChatKeys(c) : o \in Ops /\ Reserve(o, NULL) /\ chat'[c].op = o
        BY <3>2
      <4>2. op[o].state = "none" /\ Change(o, "reserved")
        BY <1>1, <4>1, Effects DEF FlowTypeOK
      <4>3. o \in Keys \cup Fresh
        BY <1>2 DEF ChatKeys
      <4>4. op'[o].state # "none" /\ \A p \in Ops : op[p].state # "none" => op'[p].state # "none"
        BY <4>2 DEF Change
      <4>5. \A r \in AcRequests : acReq[r].op # o
        BY <4>1, <4>2 DEF KeyInv
      <4>6. ASSUME NEW d \in Chats, op'[ChatKey[d]].state # "none"
            PROVE  \E e \in Chats : chat'[e].op = ChatKey[d]
        <5>1. CASE ChatKey[d] = o
          BY <4>1, <5>1
        <5>2. CASE ChatKey[d] # o
          <6>1. op[ChatKey[d]].state # "none"
            BY <1>2, <4>2, <4>6, <5>2 DEF Change
          <6>2. PICK e \in Chats : chat[e].op = ChatKey[d]
            BY <6>1 DEF KeyInv
          <6>3. e # c
            BY <1>2, <3>1, <6>2
          <6>4. QED
            BY <2>1, <6>2, <6>3 DEF Others
        <5>3. QED
          BY <5>1, <5>2
      <4>7. chat'[c].pc = "reserved"
        BY <2>2 DEF Takes
      <4>8. QED
        BY <2>1, <4>1, <4>3, <4>4, <4>5, <4>6, <4>7 DEF KeyInv, Others
    <3>3. CASE /\ IsActive(ChatKey[c]) /\ UNCHANGED creditVars
               /\ chat'[c].op = ChatKey[c]
      <4>1. \A o \in Ops : op'[o] = op[o]
        BY <3>3 DEF creditVars
      <4>2. op[ChatKey[c]].state # "none"
        BY <3>3 DEF IsActive, Active
      <4>3. \A r \in AcRequests : acReq[r].op # ChatKey[c]
        BY <1>2, KeyFacts DEF KeyInv
      <4>4. ASSUME NEW d \in Chats, op[ChatKey[d]].state # "none"
            PROVE  \E e \in Chats : chat'[e].op = ChatKey[d]
        <5>1. PICK e \in Chats : chat[e].op = ChatKey[d]
          BY <4>4 DEF KeyInv
        <5>2. e # c
          BY <1>2, <3>1, <5>1
        <5>3. QED
          BY <2>1, <5>1, <5>2 DEF Others
      <4>5. chat'[c].pc = "reserved"
        BY <2>2 DEF Takes
      <4>6. QED
        BY <1>2, <2>1, <3>3, <4>1, <4>2, <4>3, <4>4, <4>5 DEF KeyInv, Others
    <3>4. QED
      BY <2>2, <3>2, <3>3 DEF Takes
  <2>3. CASE /\ Keeps(c)
             /\ \/ Stores(c) \/ Runs(c) \/ Yields(c) \/ Pays(c) \/ Unpaid(c) \/ Returns(c)
                \/ Stops(c) \/ Aside(c)
    <3>1. \A d \in Chats : chat'[d].op = chat[d].op
      BY <2>1, <2>3 DEF Others, Keeps
    <3>2. /\ Quiet \/ \E state \in {"running", "settled", "released", "quarantined"} :
                        chat[c].op \in Ops /\ Change(chat[c].op, state)
          /\ chat'[c].pc \in {"start", "opened"} => chat[c].pc \in {"start", "opened"}
      <4>1. chat[c].pc \in {"reserved", "saved"} => chat[c].op \in Ops
        BY <1>1 DEF HasOp
      <4>2. chat[c].seen = "reserved" => chat[c].op \in Ops
        BY <1>1, FlowAssumption DEF HasOp, States, Active
      <4>3. QED
        BY <2>1, <2>3, <4>1, <4>2 DEF Stores, Runs, Yields, Pays, Unpaid, Returns, Stops, Aside
    <3>3. \A o \in Ops : (op[o].state = "none") = (op'[o].state = "none")
      <4>1. CASE Quiet
        BY <4>1 DEF Quiet
      <4>2. CASE \E state \in {"running", "settled", "released", "quarantined"} :
                   chat[c].op \in Ops /\ Change(chat[c].op, state)
        BY <4>2 DEF Change, KeyInv
      <4>3. QED
        BY <3>2, <4>1, <4>2
    <3>4. QED
      BY <1>2, <2>1, <3>1, <3>2, <3>3 DEF KeyInv, Others
  <2>4. QED
    BY <1>4, <2>2, <2>3, ChatPaths
<1>5. ASSUME NEW r \in AcRequests, AcStepOf(r) PROVE KeyInv'
  <2>1. AcOthers(r) /\ UNCHANGED chat
    BY <1>1, <1>5, AcMoves
  <2>2. CASE AcReserves(r)
    <3>1. CASE \E o \in Ac!NewKeys(r) : o \in Ops /\ Reserve(o, NULL) /\ acReq'[r].op = o
      <4>1. PICK o \in Ac!NewKeys(r) : o \in Ops /\ acReq'[r].op = o
        BY <3>1
      <4>2. o \in AcKeys \cup Fresh
        BY DEF Ac!NewKeys, AcKeys
      <4>3. op[o].state = "none" /\ Change(o, "reserved")
        BY <2>2, <4>1 DEF AcReserves
      <4>4. \A c \in Chats : chat[c].op # o /\ ChatKey[c] # o
        BY <1>2, <4>1, <4>2, <4>3, KeyFacts DEF KeyInv
      <4>5. QED
        BY <1>2, <2>1, <4>1, <4>2, <4>3, <4>4 DEF KeyInv, AcOthers, Change
    <3>2. CASE IsActive(AcKey[r]) /\ UNCHANGED creditVars /\ acReq'[r].op = AcKey[r]
      BY <2>2, <3>2 DEF AcReserves, IsActive, Active
    <3>3. QED
      BY <2>2, <3>1, <3>2 DEF AcReserves, AcTakes
  <2>3. CASE AcJoins(r)
    <3>1. acReq'[r].op = AcKey[r] /\ AcKey[r] \in AcKeys /\ op[AcKey[r]].state # "none"
      BY <2>3 DEF AcJoins, AcKeys, IsActive, Active
    <3>2. \A c \in Chats : chat[c].op \in Ops => chat[c].op # AcKey[r]
      BY <3>1, KeyFacts DEF KeyInv
    <3>3. \A o \in Ops : op'[o].state = op[o].state
      BY <2>3 DEF AcJoins, Quiet
    <3>4. QED
      BY <1>2, <2>1, <3>1, <3>2, <3>3 DEF KeyInv, AcOthers
  <2>4. CASE AcChanges(r) \/ (AcKeeps(r) /\ Quiet)
    <3>1. \A s \in AcRequests : acReq'[s].op = acReq[s].op
      BY <2>1, <2>4 DEF AcOthers, AcKeeps, AcChanges
    <3>2. \A o \in Ops : (op[o].state = "none") = (op'[o].state = "none")
      <4>1. CASE Quiet
        BY <4>1 DEF Quiet
      <4>2. CASE AcChanges(r)
        BY <4>2 DEF AcChanges, Change, KeyInv
      <4>3. QED
        BY <2>4, <4>1, <4>2
    <3>3. QED
      BY <1>2, <2>1, <3>1, <3>2 DEF KeyInv
  <2>5. QED
    BY <1>5, <2>2, <2>3, <2>4, AcPaths
<1>6. CASE UNCHANGED <<chat, acReq>> /\ Quiet
  BY <1>2, <1>6 DEF KeyInv, Quiet
<1>7. QED
  BY <1>4, <1>5, <1>6, OtherMoves, OtherQuiet DEF FlowNext

LEMMA KeyAlways == FlowSpec => [](BaseInv /\ DocsInv /\ KeyInv)
BY BaseInit, BaseStep, DocsInit, DocsStep, KeyInit, KeyStep, PTL DEF FlowSpec

-----------------------------------------------------------------------------
(* Whatever is paid for is stored.                                         *)

(* A project in use keeps its documents: only a deletion takes them.       *)
LEMMA DocsKept ==
  ASSUME BaseInv, DocsInv, [FlowNext]_flowVars, Live'
  PROVE  \/ Opened
         \/ Live /\ (HasPrd => HasPrd') /\ (project.ac => project'.ac)
<1>1. CASE project' = project
  BY <1>1 DEF Live, HasPrd
<1>2. CASE Gone
  <2>1. project'.state = "gone"
    BY <1>2 DEF Gone, Record
  <2>2. QED
    BY <2>1 DEF Live
<1>3. CASE Deleted
  <2>1. project'.state = "deleted"
    BY <1>3 DEF Deleted, Record
  <2>2. QED
    BY <2>1 DEF Live
<1>4. CASE Written
  BY <1>4 DEF Written, Record, HasPrd
<1>5. CASE AcWritten
  BY <1>5 DEF AcWritten, Record, HasPrd
<1>6. CASE Marked
  BY <1>6 DEF Marked, Record, Live, HasPrd
<1>7. CASE Stepped
  BY <1>7 DEF Stepped, Record, HasPrd
<1>8. QED
  BY <1>1, <1>2, <1>3, <1>4, <1>5, <1>6, <1>7, ProjectMoves DEF BaseInv

(* A chat goes on to be paid for only after it has stored the PRD.         *)
LEMMA ChatFiled ==
  ASSUME BaseInv, NEW c \in Chats, ChatStep(c) \/ CrashChat(c), Stores(c), chat'[c].pc = "saved"
  PROVE  HasPrd'
<1>1. project \in ProjectRow /\ chat \in [Chats -> ChatRow]
  BY DEF BaseInv, FlowTypeOK
<1>2. CASE SaveFirst(c)
  <2>1. project' = [project EXCEPT !.prd = Append(project.prd, {c}), !.step = Advanced(Prd)]
    BY <1>2 DEF SaveFirst
  <2>2. Append(project.prd, {c}) \in Seq(SUBSET Chats) /\ Append(project.prd, {c}) # <<>>
    BY <1>1, Appends
  <2>3. Advanced(Prd) \in Question .. Task
    BY <1>1, Advances DEF Prd, Question, Task
  <2>4. /\ project.ac \in BOOLEAN /\ project.state \in {"none", "live", "deleted", "gone"}
    BY <1>1 DEF ProjectRow
  <2>5. [project EXCEPT !.prd = Append(project.prd, {c}), !.step = Advanced(Prd)] =
          [state |-> project.state, step |-> Advanced(Prd),
           prd |-> Append(project.prd, {c}), ac |-> project.ac]
    BY <1>1, <2>2, <2>3, <2>4, ProjectWrites, Zenon
  <2>6. QED
    BY <2>1, <2>2, <2>5 DEF HasPrd
<1>3. CASE ~SaveFirst(c)
  <2>1. chat[c].pc = "streaming"
    BY DEF Stores
  <2>2. FailChat(c) \/ CrashChat(c)
    BY <1>3, <2>1 DEF ChatStep, Open, Asks, At, ReserveChat, RejectChat, StartChat, Resume,
       SettleChat, SettleChatRefused, BeginRevise, Merge, Answer, SaveRevision, FailRevision
  <2>3. Goto(c, "ended") \/ Goto(c, "crashed") \/ Throws(c, "release")
    BY <2>2 DEF FailChat, CrashChat
  <2>4. QED
    BY <1>1, <2>3, ChatGoes, ChatErrs DEF ChatPCs
<1>4. QED
  BY <1>2, <1>3

(* The same of acceptance criteria.                                        *)
LEMMA AcFiled ==
  ASSUME BaseInv, NEW r \in AcRequests, AcSave(r)
  PROVE  project'.ac
<1>1. project \in ProjectRow
  BY DEF BaseInv, FlowTypeOK
<1>2. project' = [project EXCEPT !.ac = TRUE, !.step = Advanced(AcStep)]
  BY DEF AcSave, WithAc
<1>3. Advanced(AcStep) \in Question .. Task
  BY <1>1, Advances DEF AcStep, Question, Task
<1>4. /\ project.prd \in Seq(SUBSET Chats) /\ TRUE \in BOOLEAN
      /\ project.state \in {"none", "live", "deleted", "gone"}
  BY <1>1 DEF ProjectRow
<1>5. [project EXCEPT !.ac = TRUE, !.step = Advanced(AcStep)] =
        [state |-> project.state, step |-> Advanced(AcStep), prd |-> project.prd, ac |-> TRUE]
  BY <1>1, <1>3, <1>4, ProjectWrites, Zenon
<1>6. QED
  BY <1>2, <1>5

Saved(c) == chat[c].pc = "saved"
Settled(o) == o \in Ops /\ op[o].state = "settled"

(* Among the chats of a project one at most stores the first PRD, and it   *)
(* alone settles; the one it settles is the one that is paid for.          *)
ChatPaidInv ==
  /\ \A c \in Chats : Saved(c) \/ Settled(chat[c].op) => (Live => HasPrd)
  /\ \A c, d \in Chats : Saved(c) => ~Settled(chat[d].op) /\ (Saved(d) => c = d)
  /\ \A c, d \in Chats :
       Settled(chat[c].op) /\ Settled(chat[d].op) => chat[c].op = chat[d].op

AcPaidInv ==
  \A r \in AcRequests :
    acReq[r].pc = "saved" \/ Settled(acReq[r].op) => (Live => project.ac)

PaidInv == ChatPaidInv /\ AcPaidInv

LEMMA PaidInit == FlowInit => PaidInv
BY FlowAssumption DEF FlowInit, Ac!GenInit, Idling, PaidInv, ChatPaidInv, AcPaidInv,
   Saved, Settled

(* A step that settles nothing of the chats and stores nothing.            *)
LEMMA ChatPaidKept ==
  ASSUME ChatPaidInv, (Live => HasPrd) => (Live => HasPrd)',
         \A d \in Chats : /\ Saved(d)' => Saved(d)
                          /\ Settled(chat[d].op)' => Settled(chat[d].op) /\ chat'[d].op = chat[d].op
  PROVE  ChatPaidInv'
BY DEF ChatPaidInv

LEMMA AcPaidKept ==
  ASSUME AcPaidInv, (Live => project.ac) => (Live => project.ac)',
         \A r \in AcRequests :
           acReq'[r].pc = "saved" \/ Settled(acReq[r].op)' =>
             acReq[r].pc = "saved" \/ Settled(acReq[r].op)
  PROVE  AcPaidInv'
BY DEF AcPaidInv

(* When the project is made there is nothing to pay for yet.               *)
LEMMA PaidOpened ==
  ASSUME BaseInv, DocsInv, KeyInv, Opened
  PROVE  PaidInv'
<1>1. PICK c \in Chats : Open(c)
  BY DEF Opened
<1>2. ChatStep(c)
  BY <1>1 DEF ChatStep
<1>3. /\ \A d \in Chats : chat[d].pc = "start" /\ chat[d].op \notin Ops
      /\ \A r \in AcRequests : acReq[r].pc = "start" /\ acReq[r].op \notin Ops
  BY DEF Opened, DocsInv, Untouched, KeyInv
<1>4. Others(c) /\ UNCHANGED acReq
  BY <1>2, ChatMoves DEF BaseInv
<1>5. Keeps(c) /\ chat'[c].pc # "saved"
  <2>1. ~Takes(c)
    BY <1>3 DEF Takes
  <2>2. QED
    BY <1>2, <1>3, <2>1, ChatPaths DEF Stores, Runs, Yields, Pays, Unpaid, Returns, Stops, Aside
<1>6. \A d \in Chats : ~Saved(d)' /\ ~Settled(chat[d].op)'
  BY <1>3, <1>4, <1>5 DEF Others, Keeps, Saved, Settled
<1>7. \A r \in AcRequests : acReq'[r].pc # "saved" /\ ~Settled(acReq[r].op)'
  BY <1>3, <1>4 DEF Settled
<1>8. QED
  BY <1>6, <1>7 DEF PaidInv, ChatPaidInv, AcPaidInv

LEMMA PaidChat ==
  ASSUME BaseInv, KeyInv, PaidInv, NEW c \in Chats, ChatStep(c) \/ CrashChat(c),
         (Live => HasPrd) => (Live => HasPrd)', (Live => project.ac) => (Live => project.ac)'
  PROVE  PaidInv'
<1>1. Others(c) /\ UNCHANGED acReq
  BY ChatMoves DEF BaseInv
<1>2. CASE ReserveChat(c) /\ Takes(c)
  <2>1. chat'[c].pc # "saved"
    BY <1>2 DEF Takes
  <2>2. /\ \A o \in Ops : Settled(o)' => Settled(o)
        /\ ~Settled(chat[c].op)'
    <3>1. CASE \E o \in ChatKeys(c) : o \in Ops /\ Reserve(o, NULL) /\ chat'[c].op = o
      <4>1. PICK o \in Ops : Reserve(o, NULL) /\ chat'[c].op = o
        BY <3>1
      <4>2. Change(o, "reserved")
        BY <4>1, Effects DEF BaseInv, FlowTypeOK
      <4>3. QED
        BY <4>1, <4>2 DEF Change, Settled
    <3>2. CASE IsActive(ChatKey[c]) /\ UNCHANGED creditVars /\ chat'[c].op = ChatKey[c]
      BY <3>2 DEF creditVars, Settled, IsActive, Active
    <3>3. QED
      BY <1>2, <3>1, <3>2 DEF Takes
  <2>3. \A d \in Chats : /\ Saved(d)' => Saved(d)
                         /\ Settled(chat[d].op)' => Settled(chat[d].op) /\ chat'[d].op = chat[d].op
    BY <1>1, <2>1, <2>2 DEF Others, Saved, Settled
  <2>4. \A r \in AcRequests : Settled(acReq[r].op)' => Settled(acReq[r].op)
    BY <1>1, <2>2 DEF Settled
  <2>5. QED
    BY <1>1, <2>3, <2>4, ChatPaidKept, AcPaidKept DEF PaidInv
<1>3. ASSUME Keeps(c) PROVE \A d \in Chats : chat'[d].op = chat[d].op
  BY <1>1, <1>3 DEF Others, Keeps
<1>4. CASE /\ Keeps(c)
           /\ Stores(c) \/ Runs(c) \/ Yields(c) \/ Unpaid(c) \/ Returns(c) \/ Stops(c) \/ Aside(c)
  <2>1. \A o \in Ops : Settled(o)' => Settled(o)
    <3>1. Quiet \/ \E state \in {"running", "quarantined", "released"} : Change(chat[c].op, state)
      BY <1>4 DEF Stores, Runs, Yields, Unpaid, Returns, Stops, Aside
    <3>2. QED
      BY <3>1 DEF Quiet, Change, Settled
  <2>2. \A d \in Chats : Settled(chat[d].op)' => Settled(chat[d].op) /\ chat'[d].op = chat[d].op
    BY <1>3, <1>4, <2>1 DEF Settled
  <2>3. AcPaidInv'
    <3>1. \A r \in AcRequests : Settled(acReq[r].op)' => Settled(acReq[r].op)
      BY <1>1, <2>1 DEF Settled
    <3>2. QED
      BY <1>1, <3>1, AcPaidKept DEF PaidInv
  <2>4. CASE Stores(c) /\ chat'[c].pc = "saved"
    <3>1. HasPrd'
      BY <2>4, ChatFiled
    <3>2. \A d \in Chats : ~Saved(d) /\ ~Settled(chat[d].op)
      BY <2>4 DEF Stores, PaidInv, ChatPaidInv
    <3>3. \A d \in Chats : ~Settled(chat[d].op)' /\ (Saved(d)' => d = c)
      BY <1>1, <2>2, <3>2 DEF Others, Saved
    <3>4. ChatPaidInv'
      BY <3>1, <3>3 DEF ChatPaidInv
    <3>5. QED
      BY <2>3, <3>4 DEF PaidInv
  <2>5. CASE ~(Stores(c) /\ chat'[c].pc = "saved")
    <3>1. chat'[c].pc # "saved"
      BY <1>4, <2>5 DEF Runs, Yields, Unpaid, Returns, Stops, Aside
    <3>2. \A d \in Chats : Saved(d)' => Saved(d)
      BY <1>1, <3>1 DEF Others, Saved
    <3>3. ChatPaidInv'
      BY <2>2, <3>2, ChatPaidKept DEF PaidInv
    <3>4. QED
      BY <2>3, <3>3 DEF PaidInv
  <2>6. QED
    BY <2>4, <2>5
<1>5. CASE Keeps(c) /\ Pays(c)
  <2>1. Saved(c) /\ chat'[c].pc = "ended" /\ Change(chat[c].op, "settled")
    BY <1>5 DEF Pays, Saved
  <2>2. chat[c].op \in Ops
    BY <2>1 DEF Saved, BaseInv, HasOp
  <2>3. \A d \in Chats : ~Settled(chat[d].op) /\ (Saved(d) => d = c)
    BY <2>1 DEF PaidInv, ChatPaidInv
  <2>4. \A o \in Ops : Settled(o)' => Settled(o) \/ o = chat[c].op
    BY <2>1 DEF Change, Settled
  <2>5. \A d \in Chats : Settled(chat[d].op)' => chat'[d].op = chat[c].op
    BY <1>3, <1>5, <2>3, <2>4 DEF Settled
  <2>6. \A d \in Chats : ~Saved(d)'
    BY <1>1, <2>1, <2>3 DEF Others, Saved
  <2>7. (Live => HasPrd)'
    BY <2>1 DEF PaidInv, ChatPaidInv
  <2>8. ChatPaidInv'
    BY <2>5, <2>6, <2>7 DEF ChatPaidInv
  <2>9. \A r \in AcRequests : Settled(acReq[r].op)' => Settled(acReq[r].op)
    BY <1>1, <2>2, <2>4 DEF Settled, KeyInv
  <2>10. QED
    BY <1>1, <2>8, <2>9, AcPaidKept DEF PaidInv
<1>6. QED
  BY <1>2, <1>4, <1>5, ChatPaths

LEMMA PaidAc ==
  ASSUME BaseInv, KeyInv, PaidInv, NEW r \in AcRequests, AcStepOf(r),
         (Live => HasPrd) => (Live => HasPrd)', (Live => project.ac) => (Live => project.ac)'
  PROVE  PaidInv'
<1>1. /\ AcOthers(r) /\ UNCHANGED chat
      /\ acReq'[r].pc = "saved" => AcSave(r) \/ UNCHANGED acReq
  BY AcMoves DEF BaseInv
<1>2. ASSUME NEW o \in Ops, Settled(o)'
      PROVE  Settled(o) \/ (AcChanges(r) /\ o = acReq[r].op /\ acReq[r].pc = "saved")
  <2>1. CASE AcReserves(r)
    <3>1. Change(acReq'[r].op, "reserved")
      BY <2>1 DEF AcReserves
    <3>2. QED
      BY <1>2, <3>1 DEF Change, Settled
  <2>2. CASE Quiet
    BY <1>2, <2>2 DEF Quiet, Settled
  <2>3. CASE AcChanges(r)
    BY <1>2, <2>3 DEF AcChanges, Change, Settled
  <2>4. QED
    BY <2>1, <2>2, <2>3, AcPaths DEF AcJoins
<1>3. \A c \in Chats : Settled(chat[c].op)' => Settled(chat[c].op)
  BY <1>1, <1>2 DEF AcChanges, KeyInv, Settled
<1>4. ChatPaidInv'
  BY <1>1, <1>3, ChatPaidKept DEF PaidInv, Saved
<1>5. CASE acReq[r].pc = "saved" \/ AcSave(r)
  <2>1. (Live => project.ac)'
    BY <1>5, AcFiled DEF PaidInv, AcPaidInv
  <2>2. QED
    BY <1>4, <2>1 DEF PaidInv, AcPaidInv
<1>6. CASE acReq[r].pc # "saved" /\ ~AcSave(r)
  <2>1. acReq'[r].pc # "saved"
    BY <1>1, <1>6
  <2>2. ASSUME NEW s \in AcRequests, Settled(acReq[s].op)' PROVE Settled(acReq[s].op)
    <3>1. Settled(acReq'[s].op)
      BY <1>2, <1>6, <2>2 DEF Settled
    <3>2. CASE acReq'[s].op = acReq[s].op
      BY <3>1, <3>2
    <3>3. CASE acReq'[s].op # acReq[s].op
      <4>1. s = r /\ ~AcKeeps(r)
        BY <1>1, <3>3 DEF AcOthers, AcKeeps
      <4>2. CASE AcReserves(r)
        BY <3>1, <4>1, <4>2 DEF AcReserves, Settled
      <4>3. CASE AcJoins(r)
        BY <3>1, <4>1, <4>3 DEF AcJoins, Settled, IsActive, Active
      <4>4. QED
        BY <4>1, <4>2, <4>3, AcPaths DEF AcChanges
    <3>4. QED
      BY <3>2, <3>3
  <2>3. \A s \in AcRequests :
          acReq'[s].pc = "saved" \/ Settled(acReq[s].op)' =>
            acReq[s].pc = "saved" \/ Settled(acReq[s].op)
    BY <1>1, <2>1, <2>2 DEF AcOthers
  <2>4. QED
    BY <1>4, <2>3, AcPaidKept DEF PaidInv
<1>7. QED
  BY <1>5, <1>6

LEMMA PaidStep ==
  ASSUME BaseInv, DocsInv, KeyInv, PaidInv, [FlowNext]_flowVars
  PROVE  PaidInv'
<1>1. CASE Opened
  BY <1>1, PaidOpened
<1>2. CASE ~Opened
  <2>1. (Live => HasPrd) => (Live => HasPrd)'
    BY <1>2, DocsKept
  <2>2. (Live => project.ac) => (Live => project.ac)'
    BY <1>2, DocsKept
  <2>3. CASE UNCHANGED <<chat, acReq>> /\ Quiet
    <3>1. \A o : Settled(o)' => Settled(o)
      BY <2>3 DEF Quiet, Settled
    <3>2. QED
      BY <2>1, <2>2, <2>3, <3>1, ChatPaidKept, AcPaidKept DEF PaidInv, Saved
  <2>4. QED
    BY <2>1, <2>2, <2>3, PaidChat, PaidAc, OtherMoves, OtherQuiet DEF FlowNext
<1>3. QED
  BY <1>1, <1>2

LEMMA PaidAlways == FlowSpec => [](BaseInv /\ DocsInv /\ KeyInv /\ PaidInv)
BY BaseInit, BaseStep, DocsInit, DocsStep, KeyInit, KeyStep, PaidInit, PaidStep, PTL
   DEF FlowSpec

(* The first PRD is paid for once, and what is paid for is stored          *)
(* (chat.ts saves the version before it settles the operation).            *)
THEOREM DocumentPaidTheorem == FlowSpec => []PaidForDocument
<1>1. ASSUME PaidInv PROVE PaidForDocument
  <2>1. \A o \in Paid(PrdOps) : \E c \in Chats : chat[c].op = o /\ Settled(chat[c].op)
    BY DEF Paid, PrdOps, Settled
  <2>2. \A o \in Paid(AcOps) : \E r \in AcRequests : acReq[r].op = o /\ Settled(acReq[r].op)
    BY DEF Paid, AcOps, Settled
  <2>3. Cardinality(Paid(PrdOps)) <= 1
    <3>1. CASE Paid(PrdOps) = {}
      BY <3>1, FS_EmptySet
    <3>2. CASE Paid(PrdOps) # {}
      <4>1. PICK o \in Paid(PrdOps) : TRUE
        BY <3>2
      <4>2. Paid(PrdOps) = {o}
        BY <1>1, <2>1, <4>1 DEF PaidInv, ChatPaidInv
      <4>3. Cardinality({o}) = 1
        BY FS_Singleton
      <4>4. QED
        BY <4>2, <4>3
    <3>3. QED
      BY <3>1, <3>2
  <2>4. Live /\ Paid(PrdOps) # {} => HasPrd
    BY <1>1, <2>1 DEF PaidInv, ChatPaidInv
  <2>5. Live /\ Paid(AcOps) # {} => project.ac
    BY <1>1, <2>2 DEF PaidInv, AcPaidInv
  <2>6. QED
    BY <2>3, <2>4, <2>5 DEF PaidForDocument
<1>2. QED
  BY <1>1, PaidAlways, PTL

-----------------------------------------------------------------------------
(* No hold is left without a request.                                      *)

(* A chat that runs an operation, or may come to, is the one that reserved *)
(* it, so it is also the one that gives it back.                           *)
HolderInv ==
  \A c \in Chats :
    chat[c].op \in Ops =>
      /\ op[chat[c].op].state # "settling"
      /\ chat[c].pc \in {"streaming", "saved", "unsettled"} => chat[c].seen = "reserved"
      /\ chat[c].pc = "reserved" /\ op[chat[c].op].state = "reserved" =>
           chat[c].seen = "reserved"

(* A request that can give nothing back any more: its server stopped, or   *)
(* the one statement that would have done it met an error.                 *)
Lost(d) == chat[d].pc = "crashed" \/ chat[d].thrown # {}
Waiting(d) == chat[d].pc = "reserved" \/ Lost(d)
Working(d) == chat[d].pc \in {"streaming", "saved", "unsettled"} \/ Lost(d)

Waits(o) == \E d \in Chats : chat[d].op = o /\ Waiting(d)
Works(o) == \E d \in Chats : chat[d].op = o /\ Working(d)

WorkInv ==
  \A c \in Chats :
    chat[c].op \in Ops =>
      /\ op[chat[c].op].state = "reserved" => Waits(chat[c].op)
      /\ op[chat[c].op].state = "running" /\ ValidPeriod(Owner[chat[c].op]) =>
           Works(chat[c].op)

HoldInv == HolderInv /\ WorkInv

LEMMA HolderInit == FlowInit => HoldInv
BY FlowAssumption DEF FlowInit, Idling, HoldInv, HolderInv, WorkInv

(* The operations of chats that a step does not touch.                     *)
LEMMA HoldKept ==
  ASSUME BaseInv, HoldInv, [FlowNext]_flowVars, UNCHANGED chat,
         \A c \in Chats : chat[c].op \in Ops =>
           op'[chat[c].op].state = op[chat[c].op].state
  PROVE  HoldInv'
<1>1. ASSUME NEW c \in Chats, chat[c].op \in Ops, ValidPeriod(Owner[chat[c].op])'
      PROVE  ValidPeriod(Owner[chat[c].op])
  BY <1>1, Clock, CreditAssumption
<1>2. HolderInv'
  BY DEF HoldInv, HolderInv
<1>3. WorkInv'
  BY <1>1 DEF HoldInv, WorkInv, Waits, Works, Waiting, Working, Lost
<1>4. QED
  BY <1>2, <1>3 DEF HoldInv

LEMMA HoldTaken ==
  ASSUME BaseInv, KeyInv, HoldInv, [FlowNext]_flowVars,
         NEW c \in Chats, Takes(c), Others(c)
  PROVE  HoldInv'
<1>1. chat[c].op \notin Ops /\ chat'[c].pc = "reserved"
  BY DEF Takes, KeyInv
<1>2. ASSUME NEW d \in Chats \ {c} PROVE chat'[d] = chat[d]
  BY <1>2 DEF Others
<1>w. ASSUME NEW d \in Chats \ {c}
      PROVE  (Waiting(d) => Waiting(d)') /\ (Working(d) => Working(d)')
  BY <1>2 DEF Waiting, Working, Lost
<1>3. ASSUME NEW d \in Chats, chat[d].op \in Ops,
             op'[chat[d].op].state = op[chat[d].op].state
      PROVE  /\ op'[chat[d].op].state = "reserved" => Waits(chat[d].op)'
             /\ op'[chat[d].op].state = "running" /\ ValidPeriod(Owner[chat[d].op])' =>
                  Works(chat[d].op)'
  <2> DEFINE o == chat[d].op
  <2>1. Owner[o] \in Accounts
    BY <1>3, CreditAssumption
  <2>0. chat'[d].op = chat[d].op
    BY <1>1, <1>2, <1>3
  <2>2. ValidPeriod(Owner[o])' => ValidPeriod(Owner[o])
    BY <2>0, <2>1, Clock DEF ValidPeriod
  <2>3. Waits(o) => \E e \in Chats \ {c} : chat[e].op = o /\ Waiting(e)
    BY <1>1, <1>3 DEF Waits
  <2>4. Works(o) => \E e \in Chats \ {c} :
          chat[e].op = o /\ Working(e)
    BY <1>1, <1>3 DEF Works
  <2>5. /\ op[o].state = "reserved" => Waits(o)
        /\ op[o].state = "running" /\ ValidPeriod(Owner[o]) => Works(o)
    BY <1>3 DEF HoldInv, WorkInv
  <2>6. op[o].state = "reserved" =>
          \E e \in Chats : chat'[e].op = o /\ Waiting(e)'
    BY <1>2, <1>w, <2>3, <2>5
  <2>7. op[o].state = "running" /\ ValidPeriod(Owner[o]) =>
          \E e \in Chats :
            chat'[e].op = o /\ Working(e)'
    BY <1>2, <1>w, <2>4, <2>5
  <2>8. /\ op'[o].state = "reserved" => \E e \in Chats :
             chat'[e].op = chat[d].op /\ Waiting(e)'
        /\ op'[o].state = "running" /\ ValidPeriod(Owner[o])' => \E e \in Chats :
             chat'[e].op = chat[d].op
             /\ Working(e)'
    BY <1>3, <2>2, <2>6, <2>7
  <2>9. QED
    BY <2>0, <2>8 DEF Waits, Works
<1>4. CASE \E o \in ChatKeys(c) : /\ o \in Ops /\ Reserve(o, NULL)
                                  /\ chat'[c].op = o /\ chat'[c].seen = "reserved"
  <2>1. PICK o \in Ops : /\ Reserve(o, NULL)
                         /\ chat'[c].op = o /\ chat'[c].seen = "reserved"
    BY <1>4
  <2>2. op[o].state = "none" /\ Change(o, "reserved")
    BY <2>1, Effects DEF BaseInv, FlowTypeOK
  <2>3. ASSUME NEW d \in Chats \ {c}, chat[d].op \in Ops
        PROVE  op'[chat[d].op].state = op[chat[d].op].state
    BY <2>2, <2>3 DEF Change, KeyInv
  <2>4. op'[o].state = "reserved"
    BY <2>2 DEF Change
  <2>5. HolderInv'
    BY <1>1, <1>2, <2>1, <2>3, <2>4 DEF HoldInv, HolderInv
  <2>6. Waits(o)'
    BY <1>1, <2>1 DEF Waits, Waiting
  <2>7. WorkInv'
    BY <1>2, <1>3, <2>1, <2>3, <2>4, <2>6 DEF WorkInv
  <2>8. QED
    BY <2>5, <2>7 DEF HoldInv
<1>5. CASE /\ IsActive(ChatKey[c]) /\ UNCHANGED creditVars
           /\ chat'[c].op = ChatKey[c] /\ chat'[c].seen = op[ChatKey[c]].state
  <2>1. op' = op
    BY <1>5 DEF creditVars
  <2>2. op[ChatKey[c]].state # "none" /\ ChatKey[c] \in Ops
    BY <1>5, FlowAssumption DEF IsActive, Active
  <2>3. PICK d \in Chats : chat[d].op = ChatKey[c]
    BY <2>2 DEF KeyInv
  <2>4. op[ChatKey[c]].state # "settling"
    BY <2>2, <2>3 DEF HoldInv, HolderInv
  <2>5. HolderInv'
    BY <1>1, <1>2, <1>5, <2>1, <2>4 DEF HoldInv, HolderInv
  <2>6. WorkInv'
    BY <1>2, <1>3, <1>5, <2>1, <2>2, <2>3 DEF WorkInv
  <2>7. QED
    BY <2>5, <2>6 DEF HoldInv
<1>6. QED
  BY <1>4, <1>5 DEF Takes

(* The steps of a chat that has what it has.                               *)
LEMMA HoldPath ==
  ASSUME BaseInv, KeyInv, HoldInv, HoldsCanReturn, [FlowNext]_flowVars,
         NEW c \in Chats, Keeps(c), Others(c),
         \/ Stores(c) \/ Runs(c) \/ Yields(c) \/ Pays(c) \/ Unpaid(c) \/ Returns(c)
         \/ Stops(c) \/ Aside(c)
  PROVE  HoldInv'
<1> DEFINE p == chat[c].op
<1>1. ASSUME NEW d \in Chats PROVE chat'[d].op = chat[d].op /\ chat'[d].seen = chat[d].seen
  BY <1>1 DEF Others, Keeps
<1>2. ASSUME NEW d \in Chats \ {c} PROVE chat'[d].pc = chat[d].pc
  BY <1>2 DEF Others
<1>w. ASSUME NEW d \in Chats \ {c}
      PROVE  (Waiting(d) => Waiting(d)') /\ (Working(d) => Working(d)')
  BY <1>w DEF Waiting, Working, Lost, Others
<1>l. chat[c].thrown # {} => Lost(c)'
  BY DEF Keeps, Lost
<1>3. chat[c].pc \in {"reserved", "saved", "unsettled"} => p \in Ops
  BY DEF BaseInv, HasOp
<1>4. chat[c].seen = "reserved" => p \in Ops
  BY FlowAssumption DEF BaseInv, HasOp, States, Active
<1>5. Quiet \/ \E state \in {"running", "settled", "quarantined", "released"} : Change(p, state)
  BY DEF Stores, Runs, Yields, Pays, Unpaid, Returns, Stops, Aside
<1>6. ASSUME NEW o \in Ops
      PROVE  /\ op'[o].state = "reserved" => op[o].state = "reserved"
             /\ op'[o].state = "settling" => op[o].state = "settling"
             /\ op'[o].state = "running" => op[o].state = "running" \/ (o = p /\ Runs(c))
  <2>1. CASE Runs(c)
    BY <2>1 DEF Runs, Change
  <2>2. CASE ~Runs(c)
    <3>1. Quiet \/ \E state \in {"settled", "quarantined", "released"} : Change(p, state)
      BY <2>2 DEF Stores, Yields, Pays, Unpaid, Returns, Stops, Aside
    <3>2. QED
      BY <3>1 DEF Quiet, Change
  <2>3. QED
    BY <2>1, <2>2
<1>7. p \in Ops /\ chat'[c].pc \in {"streaming", "saved", "unsettled"} =>
        chat[c].seen = "reserved"
  <2>1. CASE Runs(c)
    BY <2>1 DEF Runs, HoldInv, HolderInv
  <2>2. CASE Stores(c) \/ Unpaid(c)
    BY <2>2 DEF Stores, Unpaid, HoldInv, HolderInv
  <2>3. CASE Yields(c) \/ Pays(c) \/ Returns(c) \/ Stops(c)
    BY <2>3 DEF Yields, Pays, Returns, Stops
  <2>4. CASE Aside(c)
    BY <2>4 DEF Aside, KeyInv
  <2>5. QED
    BY <2>1, <2>2, <2>3, <2>4
<1>8. chat'[c].pc # "reserved"
  BY DEF Stores, Runs, Yields, Pays, Unpaid, Returns, Stops, Aside
<1>9. HolderInv'
  BY <1>1, <1>2, <1>6, <1>7, <1>8 DEF HoldInv, HolderInv
<1>10. ASSUME NEW o \in Ops, o = p, op'[o].state = "reserved", Waiting(c)
       PROVE  Lost(c)'
  <2>1. op[o].state = "reserved" /\ Quiet
    BY <1>5, <1>6, <1>10 DEF Change
  <2>2. ~Runs(c)
    BY <1>10, <2>1 DEF Runs, Change
  <2>3. CASE chat[c].thrown # {}
    BY <1>l, <2>3
  <2>4. CASE Yields(c)
    <3>1. "run" \in chat'[c].thrown
      BY <1>10, <2>1, <2>4 DEF Yields
    <3>2. QED
      BY <3>1 DEF Lost
  <2>5. CASE chat[c].thrown = {} /\ ~Yields(c)
    <3>1. chat[c].pc \in {"reserved", "crashed"}
      BY <1>10, <2>5 DEF Waiting, Lost
    <3>2. chat'[c].pc = "crashed"
      BY <2>2, <2>5, <3>1 DEF Stores, Pays, Unpaid, Returns, Stops, Aside
    <3>3. QED
      BY <3>2 DEF Lost
  <2>6. QED
    BY <2>3, <2>4, <2>5
<1>11. ASSUME NEW o \in Ops, o = p, op'[o].state = "running", op[o].state = "running",
              ValidPeriod(Owner[o]), Working(c)
       PROVE  Working(c)'
  <2>1. CanRelease(o)
    BY <1>11 DEF CanRelease, HoldsCanReturn, IsActive, Active
  <2>2. CASE chat[c].thrown # {}
    BY <1>l, <2>2 DEF Working
  <2>3. CASE chat[c].thrown = {}
    <3>1. chat[c].pc \in {"streaming", "saved", "unsettled", "crashed"}
      BY <1>11, <2>3 DEF Working, Lost
    <3>2. CASE Returns(c)
      <4>1. chat[c].seen = "reserved"
        BY <1>11, <3>2 DEF Returns, HoldInv, HolderInv
      <4>2. ~Change(p, "released")
        BY <1>11 DEF Change
      <4>3. "release" \in chat'[c].thrown
        BY <1>11, <2>1, <3>2, <4>1, <4>2 DEF Returns
      <4>4. QED
        BY <4>3 DEF Working, Lost
    <3>3. ~Pays(c)
      BY <1>11 DEF Pays, Change
    <3>4. Stores(c) => chat'[c].pc = "saved"
      BY <1>11, FlowAssumption DEF Stores
    <3>5. CASE ~Returns(c)
      <4>1. chat'[c].pc \in {"streaming", "saved", "unsettled", "crashed"}
        BY <1>11, <3>1, <3>3, <3>4, <3>5 DEF Runs, Yields, Unpaid, Stops, Aside
      <4>2. QED
        BY <4>1 DEF Working, Lost
    <3>6. QED
      BY <3>2, <3>5
  <2>4. QED
    BY <2>2, <2>3
<1>12. ASSUME NEW o \in Ops, Waits(o), op'[o].state = "reserved"
       PROVE  \E e \in Chats : chat'[e].op = o /\ Waiting(e)'
  <2>1. PICK e \in Chats : chat[e].op = o /\ Waiting(e)
    BY <1>12 DEF Waits
  <2>2. CASE e = c
    <3>1. Waiting(c)'
      BY <1>10, <1>12, <2>1, <2>2 DEF Waiting
    <3>2. QED
      BY <1>1, <2>1, <2>2, <3>1
  <2>3. CASE e # c
    BY <1>1, <1>w, <2>1, <2>3
  <2>4. QED
    BY <2>2, <2>3
<1>13. ASSUME NEW o \in Ops, Works(o), op[o].state = "running", op'[o].state = "running",
              ValidPeriod(Owner[o])
       PROVE  \E e \in Chats : /\ chat'[e].op = o
                               /\ Working(e)'
  <2>1. PICK e \in Chats :
          chat[e].op = o /\ Working(e)
    BY <1>13 DEF Works
  <2>2. CASE e = c
    BY <1>1, <1>11, <1>13, <2>1, <2>2
  <2>3. CASE e # c
    BY <1>1, <1>w, <2>1, <2>3
  <2>4. QED
    BY <2>2, <2>3
<1>14. ASSUME NEW d \in Chats, chat[d].op \in Ops
       PROVE  /\ op'[chat[d].op].state = "reserved" => Waits(chat[d].op)'
              /\ op'[chat[d].op].state = "running" /\ ValidPeriod(Owner[chat[d].op])' =>
                   Works(chat[d].op)'
  <2> DEFINE o == chat[d].op
  <2>1. ValidPeriod(Owner[o])' => ValidPeriod(Owner[o])
    <3>1. Owner[o] \in Accounts
      BY <1>14, CreditAssumption
    <3>2. QED
      BY <1>1, <3>1, Clock DEF ValidPeriod
  <2>2. /\ op[o].state = "reserved" => Waits(o)
        /\ op[o].state = "running" /\ ValidPeriod(Owner[o]) => Works(o)
    BY <1>14 DEF HoldInv, WorkInv
  <2>3. op'[o].state = "reserved" =>
          \E e \in Chats : chat'[e].op = o /\ Waiting(e)'
    BY <1>6, <1>12, <1>14, <2>2
  <2>4. op'[o].state = "running" /\ ValidPeriod(Owner[o])' =>
          \E e \in Chats : /\ chat'[e].op = o
                           /\ Working(e)'
    <3>1. CASE o = p /\ Runs(c)
      <4>1. chat'[c].op = o /\ chat'[c].pc = "streaming"
        BY <1>1, <3>1 DEF Runs
      <4>2. Working(c)'
        BY <4>1 DEF Working
      <4>3. QED
        BY <4>1, <4>2
    <3>2. CASE ~(o = p /\ Runs(c))
      <4>1. op'[o].state = "running" => op[o].state = "running"
        BY <1>6, <1>14, <3>2
      <4>2. QED
        BY <1>13, <1>14, <2>1, <2>2, <4>1
    <3>3. QED
      BY <3>1, <3>2
  <2>5. QED
    BY <1>1, <2>3, <2>4 DEF Waits, Works
<1>15. WorkInv'
  BY <1>1, <1>14 DEF WorkInv
<1>16. QED
  BY <1>9, <1>15 DEF HoldInv

LEMMA HolderStep ==
  ASSUME BaseInv, KeyInv, HoldInv, HoldsCanReturn, [FlowNext]_flowVars
  PROVE  HoldInv'
<1>1. ASSUME NEW c \in Chats, ChatStep(c) \/ CrashChat(c) PROVE HoldInv'
  <2>1. Others(c)
    BY <1>1, ChatMoves DEF BaseInv
  <2>2. QED
    BY <1>1, <2>1, ChatPaths, HoldTaken, HoldPath
<1>2. ASSUME NEW r \in AcRequests, AcStepOf(r) PROVE HoldInv'
  <2>1. UNCHANGED chat
    BY <1>2, AcMoves DEF BaseInv
  <2>2. ASSUME NEW c \in Chats, chat[c].op \in Ops
        PROVE  op'[chat[c].op].state = op[chat[c].op].state
    <3>1. CASE AcReserves(r)
      <4>1. Change(acReq'[r].op, "reserved") /\ op[acReq'[r].op].state = "none"
        BY <3>1 DEF AcReserves
      <4>2. op[chat[c].op].state # "none"
        BY <2>2 DEF KeyInv
      <4>3. QED
        BY <2>2, <4>1, <4>2 DEF Change
    <3>2. CASE AcChanges(r)
      BY <2>2, <3>2 DEF AcChanges, Change, KeyInv
    <3>3. CASE Quiet
      BY <2>2, <3>3 DEF Quiet
    <3>4. QED
      BY <1>2, <3>1, <3>2, <3>3, AcPaths DEF AcJoins
  <2>3. QED
    BY <2>1, <2>2, HoldKept
<1>3. CASE UNCHANGED <<chat, drafts, acReq>> /\ Quiet
  BY <1>3, HoldKept DEF Quiet
<1>4. QED
  BY <1>1, <1>2, <1>3, OtherMoves, OtherQuiet DEF FlowNext

LEMMA HoldAlways == FlowSpec => [](BaseInv /\ HoldInv)
<1>1. FlowSpec => []HoldsCanReturn
  BY FlowUsesCredit, ReturnTheorem, PTL
<1>2. QED
  BY <1>1, KeyAlways, HolderInit, HolderStep, PTL DEF FlowSpec

(* While the period lasts a live operation has a request that is to run it *)
(* or runs it, unless the server stopped under one or the database refused *)
(* the statement that starts it or the one that gives it back: chat.ts     *)
(* releases what it reserved on every other way out.                       *)
THEOREM HoldHasRequestTheorem == FlowSpec => []HoldHasRequest
<1>1. ASSUME BaseInv, HoldInv, NEW o \in PrdOps, IsActive(o), ValidPeriod(Owner[o])
      PROVE  \E c \in Chats : /\ chat[c].op = o
                              /\ \/ chat[c].pc \in {"reserved", "streaming", "saved",
                                                    "unsettled", "crashed"}
                                 \/ chat[c].thrown # {}
  <2>1. PICK c \in Chats : chat[c].op = o
    BY <1>1 DEF PrdOps
  <2>2. o \in Ops /\ op[o].state \in {"reserved", "running"}
    BY <1>1, <2>1 DEF PrdOps, HoldInv, HolderInv, IsActive, Active
  <2>3. Waits(o) \/ Works(o)
    BY <1>1, <2>1, <2>2 DEF HoldInv, WorkInv
  <2>4. QED
    BY <2>3 DEF Waits, Works, Waiting, Working, Lost
<1>2. BaseInv /\ HoldInv => HoldHasRequest
  BY <1>1 DEF HoldHasRequest
<1>3. QED
  BY <1>2, HoldAlways, PTL
==============================================================================
