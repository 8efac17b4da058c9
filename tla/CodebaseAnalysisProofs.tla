------------------------ MODULE CodebaseAnalysisProofs ------------------------
(***************************************************************************)
(* Theorems about CodebaseAnalysis, for every number of triggers, projects *)
(* and uploads, every keys and faults: one analysis of a project is under  *)
(* way at a time, a legacy upload is analysed successfully once, a claimed *)
(* session has an owner, and a charge is for a result.                     *)
(***************************************************************************)
EXTENDS CodebaseAnalysis, CreditServiceProofs

SessionRow == [status : {"uploaded", "analyzing", "ready", "expired"},
               late : BOOLEAN, consumed : BOOLEAN]
TriggerRow == [p : Projects, pc : PCs, n : 0 .. Cardinality(Triggers),
               op : Ops \cup {NULL}, seen : States \cup {NULL},
               thrown : SUBSET Statements]

Unclaimed == {"start", "decided", "held", "running", "checked"}

(* Where a trigger is, its row and its operation.                          *)
TriggerInv ==
  \A t \in Triggers :
    /\ trig[t].pc \in Unclaimed => analysis[t] = "none"
    /\ trig[t].pc = "decided" => trig[t].n # 0
    /\ trig[t].pc \notin {"start", "decided"} \cup Over => trig[t].op \in Ops
    /\ trig[t].pc = "generating" => analysis[t] = "pending"
    /\ trig[t].pc = "analysed" => analysis[t] = "ready"
    /\ trig[t].pc \in {"failed", "rolling"} => /\ trig[t].p \in legacy
                                              /\ analysis[t] = "failed"

(* A legacy project has its upload for itself.                             *)
Unshared == \A p \in legacy : \A q \in Projects : UploadOf[q] = UploadOf[p] => q = p

PendingUnique ==
  \A s, t \in Triggers :
    /\ trig[s].p = trig[t].p
    /\ analysis[s] = "pending" /\ analysis[t] = "pending"
    => s = t

(* A trigger of a legacy project that has the session, or has used it up.  *)
Claimed(t) ==
  /\ trig[t].p \in legacy
  /\ analysis[t] \in {"pending", "ready"} \/ trig[t].pc \in {"failed", "rolling"}

(* There is one such trigger, and the session is not "uploaded" meanwhile. *)
ClaimInv ==
  \A t \in Triggers : Claimed(t) =>
    /\ session[Upload(t)].status # "uploaded"
    /\ \A s \in Triggers : Claimed(s) /\ trig[s].p = trig[t].p => s = t

OwnerPCs == {"generating", "failed", "rolling", "crashed"}

(* A trigger whose failed analysis could not be written down.              *)
Stuck(t) == trig[t].thrown \cap {"fail", "roll"} # {}

(* A session is held by a trigger of its legacy project.                   *)
OwnerInv ==
  \A u \in Uploads : session[u].status = "analyzing" =>
    \E t \in Triggers :
      /\ Upload(t) = u
      /\ trig[t].p \in legacy
      /\ (trig[t].pc \in OwnerPCs \/ Stuck(t))

RowInv == Unshared /\ PendingUnique /\ ClaimInv /\ OwnerInv

AnaInv == AnaTypeOK /\ TriggerInv /\ RowInv /\ ChargeHasResult

-----------------------------------------------------------------------------
(* The credit part of a trigger's step.                                    *)
LEMMA KeyInOps ==
  ASSUME AnaTypeOK, TriggerInv, NEW t \in Triggers, trig[t].pc = "decided"
  PROVE  Key(t) \in Ops /\ NewKeys(t) \subseteq Ops
<1>1. trig[t] \in TriggerRow
  BY DEF AnaTypeOK, TriggerRow
<1>2. Cardinality(Triggers) \in Nat
  BY AnalysisAssumption, FS_CardinalityType
<1>3. trig[t].n \in 1 .. Cardinality(Triggers) /\ trig[t].p \in Projects
  BY <1>1, <1>2 DEF TriggerInv, TriggerRow
<1>4. Key(t) \in Ops
  BY <1>3, AnalysisAssumption DEF Key
<1>5. QED
  BY <1>4, AnalysisAssumption DEF NewKeys

LEMMA AnaCreditPart ==
  ASSUME AnaTypeOK, TriggerInv, [AnaNext]_anaVars
  PROVE  [CreditNext]_creditVars
<1> USE AnalysisAssumption
<1>1. ASSUME NEW t \in Triggers, trig[t].op \in Ops, TryRelease(t)
      PROVE  [CreditNext]_creditVars
  BY <1>1 DEF TryRelease, CreditNext, OpNext
<1>2. ASSUME NEW t \in Triggers, trig[t].pc \notin {"start", "decided"} \cup Over
      PROVE  trig[t].op \in Ops
  BY <1>2 DEF TriggerInv
<1>3. ASSUME NEW t \in Triggers, Step(t) PROVE [CreditNext]_creditVars
  <2>1. CASE ReserveNew(t)
    <3>1. PICK o \in NewKeys(t) : Reserve(o, NULL)
      BY <2>1 DEF ReserveNew
    <3>2. o \in Ops
      BY <2>1, KeyInOps DEF ReserveNew, At
    <3>3. QED
      BY <3>1, <3>2 DEF CreditNext, OpNext
  <2>2. CASE Run(t)
    BY <2>2, <1>2 DEF Run, At, Over, CreditNext, OpNext
  <2>3. CASE RunRefused(t)
    BY <2>3, <1>1, <1>2 DEF RunRefused, At, Over
  <2>4. CASE SettleAnalysis(t)
    BY <2>4, <1>2 DEF SettleAnalysis, At, Over, CreditNext, OpNext
  <2>5. CASE ReleaseFailed(t)
    BY <2>5, <1>1, <1>2 DEF ReleaseFailed, At, Over
  <2>6. CASE UNCHANGED creditVars
    BY <2>6
  <2>7. QED
    BY <1>3, <2>1, <2>2, <2>3, <2>4, <2>5, <2>6
    DEF Step, Reuse, Decide, Join, ReserveRejected, CheckUpload, ClaimRow, ClaimSession,
        AskThrows, Finish, FailRow, FailRowThrows, RollbackRead, RollbackWrite,
        RollbackThrows, SettleThrows
<1>4. ASSUME NEW t \in Triggers, Crash(t) PROVE [CreditNext]_creditVars
  BY <1>4 DEF Crash
<1>5. ASSUME NEW u \in Uploads,
             PassExpiry(u) \/ ExpireOnRead(u) \/ ExpireOnPoll(u) \/ Revoke(u)
      PROVE  [CreditNext]_creditVars
  BY <1>5 DEF PassExpiry, ExpireOnRead, ExpireOnPoll, Revoke, Change
<1>6. CASE UNCHANGED anaVars
  BY <1>6 DEF anaVars
<1>7. QED
  BY <1>3, <1>4, <1>5, <1>6 DEF AnaNext, CreditNext

-----------------------------------------------------------------------------
(* What a step does to the triggers, the rows and the sessions.            *)

(* A step that leaves rows and sessions alone and claims nothing.          *)
Passes(t) ==
  /\ UNCHANGED <<session, analysis>>
  /\ trig'[t].pc \notin {"generating", "analysed", "failed", "rolling"}
  /\ trig[t].pc \in OwnerPCs => trig'[t].pc = "crashed" \/ Stuck(t)'

(* A step of one trigger keeps its project and every other trigger.        *)
Alone(t) ==
  /\ legacy' = legacy
  /\ trig' \in [Triggers -> TriggerRow]
  /\ trig'[t].p = trig[t].p /\ trig[t].thrown \subseteq trig'[t].thrown
  /\ \A s \in Triggers : s # t => trig'[s] = trig[s]

LEMMA StepAlone ==
  ASSUME AnaTypeOK, TriggerInv, NEW t \in Triggers, Step(t) \/ Crash(t)
  PROVE  Alone(t)
<1> USE DEF Alone, TriggerRow, PCs, Over
<1>1. trig \in [Triggers -> TriggerRow]
  BY DEF AnaTypeOK
<1>2. ASSUME NEW pc \in PCs, Goto(t, pc)
      PROVE  /\ trig' \in [Triggers -> TriggerRow]
             /\ trig'[t].p = trig[t].p /\ trig'[t].thrown = trig[t].thrown
             /\ \A s \in Triggers : s # t => trig'[s] = trig[s]
  BY <1>1, <1>2 DEF Goto
<1>t. ASSUME NEW pc \in PCs, NEW statement \in Statements, Throws(t, statement, pc)
      PROVE  Alone(t) \/ legacy' # legacy
  <2> DEFINE row == [trig[t] EXCEPT !.pc = pc, !.thrown = @ \cup {statement}]
  <2>1. row \in TriggerRow /\ row.p = trig[t].p /\ trig[t].thrown \subseteq row.thrown
    BY <1>1
  <2>2. trig' = [trig EXCEPT ![t] = row]
    BY <1>1, <1>t DEF Throws
  <2> HIDE DEF row
  <2>3. QED
    BY <1>1, <2>1, <2>2
<1>r. ASSUME TryRelease(t) PROVE Alone(t) \/ legacy' # legacy
  BY <1>2, <1>t, <1>r DEF TryRelease, Statements
<1>3. CASE Decide(t)
  <2> DEFINE rows == Rows(trig[t].p)
  <2>1. rows \subseteq Triggers \ {t}
    BY <1>3 DEF Decide, At, TriggerInv, Unclaimed, Rows
  <2>2. IsFiniteSet(Triggers) /\ IsFiniteSet(Triggers \ {t})
    BY AnalysisAssumption, FS_RemoveElement
  <2>3. Cardinality(Triggers \ {t}) = Cardinality(Triggers) - 1
    BY <2>2, FS_RemoveElement
  <2>4. IsFiniteSet(rows) /\ Cardinality(rows) <= Cardinality(Triggers \ {t})
    BY <2>1, <2>2, FS_Subset
  <2>5. Cardinality(rows) \in Nat /\ Cardinality(Triggers) \in Nat
    BY <2>2, <2>4, FS_CardinalityType
  <2>6. Cardinality(rows) + 1 \in 0 .. Cardinality(Triggers)
    BY <2>3, <2>4, <2>5
  <2>7. trig' = [trig EXCEPT ![t].pc = "decided", ![t].n = Cardinality(rows) + 1]
    BY <1>3 DEF Decide
  <2> DEFINE moved == [trig EXCEPT ![t].pc = "decided"]
             n == Cardinality(rows) + 1
  <2>8. /\ moved \in [Triggers -> TriggerRow] /\ moved[t].p = trig[t].p
        /\ moved[t].thrown = trig[t].thrown
        /\ \A s \in Triggers : s # t => moved[s] = trig[s]
    BY <1>1
  <2>9. trig' = [moved EXCEPT ![t].n = n]
    BY <1>1, <2>7
  <2> HIDE DEF moved, n
  <2>10. n \in 0 .. Cardinality(Triggers)
    BY <2>6 DEF n
  <2>11. /\ trig' \in [Triggers -> TriggerRow] /\ trig'[t].p = moved[t].p
         /\ trig'[t].thrown = moved[t].thrown
         /\ \A s \in Triggers : s # t => trig'[s] = moved[s]
    BY <2>8, <2>9, <2>10
  <2>12. QED
    BY <1>3, <2>8, <2>11 DEF Decide
<1>4. ASSUME NEW o \in Ops, NEW state \in States, Holding(t, o, state)
      PROVE  /\ trig' \in [Triggers -> TriggerRow]
             /\ trig'[t].p = trig[t].p /\ trig'[t].thrown = trig[t].thrown
             /\ \A s \in Triggers : s # t => trig'[s] = trig[s]
  BY <1>1, <1>4 DEF Holding
<1>5. CASE ReserveNew(t)
  <2>1. PICK o \in Ops : Holding(t, o, "reserved")
    BY <1>5, KeyInOps DEF ReserveNew, At
  <2>2. QED
    BY <1>4, <1>5, <2>1 DEF ReserveNew, States, Active
<1>6. CASE Join(t)
  <2>1. Key(t) \in Ops /\ op[Key(t)].state \in States
    BY <1>6, KeyInOps DEF Join, At, AnaTypeOK, TypeOK
  <2>2. QED
    BY <1>4, <1>6, <2>1 DEF Join
<1>7. CASE Reuse(t)
  BY <1>2, <1>7 DEF Reuse
<1>8. CASE ReserveRejected(t)
  BY <1>2, <1>8 DEF ReserveRejected
<1>9. CASE Run(t)
  BY <1>2, <1>9 DEF Run
<1>10. CASE RunRefused(t)
  BY <1>2, <1>r, <1>10 DEF RunRefused
<1>11. CASE CheckUpload(t)
  BY <1>2, <1>11 DEF CheckUpload
<1>12. CASE ClaimRow(t)
  BY <1>2, <1>12 DEF ClaimRow
<1>13. CASE ClaimSession(t)
  BY <1>2, <1>13 DEF ClaimSession
<1>14. CASE Finish(t)
  BY <1>2, <1>14 DEF Finish
<1>15. CASE FailRow(t)
  BY <1>2, <1>15 DEF FailRow
<1>16. CASE RollbackRead(t)
  BY <1>2, <1>16 DEF RollbackRead
<1>17. CASE RollbackWrite(t)
  BY <1>2, <1>17 DEF RollbackWrite
<1>18. CASE SettleAnalysis(t)
  BY <1>2, <1>18 DEF SettleAnalysis
<1>19. CASE SettleThrows(t)
  BY <1>2, <1>19 DEF SettleThrows
<1>20. CASE ReleaseFailed(t)
  BY <1>r, <1>20 DEF ReleaseFailed
<1>21. CASE Crash(t)
  BY <1>2, <1>21 DEF Crash
<1>a. CASE AskThrows(t)
  BY <1>2, <1>a DEF AskThrows
<1>b. CASE FailRowThrows(t) \/ RollbackThrows(t)
  BY <1>t, <1>b DEF FailRowThrows, RollbackThrows, Statements
<1>22. QED
  BY <1>3, <1>5, <1>6, <1>7, <1>8, <1>9, <1>10, <1>11, <1>12, <1>13, <1>14, <1>15,
     <1>16, <1>17, <1>18, <1>19, <1>20, <1>21, <1>a, <1>b DEF Step

(* The two claims.                                                         *)
TakesRow(t) ==
  /\ trig[t].pc = "checked" /\ trig'[t].pc = "generating"
  /\ trig[t].p \notin legacy
  /\ RowsIn(trig[t].p, {"pending"}) = {}
  /\ analysis' = [analysis EXCEPT ![t] = "pending"]
  /\ session' = session

TakesSession(t) ==
  /\ trig[t].pc = "checked" /\ trig'[t].pc = "generating"
  /\ trig[t].p \in legacy
  /\ session[Upload(t)].status = "uploaded"
  /\ analysis' = [analysis EXCEPT ![t] = "pending"]
  /\ SetStatus(t, "analyzing")

LEMMA StepCases ==
  ASSUME AnaTypeOK, TriggerInv, NEW t \in Triggers, Step(t) \/ Crash(t)
  PROVE  \/ Passes(t) \/ TakesRow(t) \/ TakesSession(t)
         \/ Finish(t) \/ FailRow(t) \/ RollbackRead(t) \/ RollbackWrite(t)
<1> USE DEF PCs, Over, OwnerPCs, At
<1>1. trig \in [Triggers -> TriggerRow]
  BY DEF AnaTypeOK, TriggerRow
<1>2. ASSUME NEW pc, Goto(t, pc) PROVE trig'[t].pc = pc
  BY <1>1, <1>2 DEF Goto, TriggerRow
<1>t. ASSUME NEW pc, NEW statement, Throws(t, statement, pc)
      PROVE  trig'[t].pc = pc /\ statement \in trig'[t].thrown
  <2> DEFINE row == [trig[t] EXCEPT !.pc = pc, !.thrown = @ \cup {statement}]
  <2>1. row.pc = pc /\ statement \in row.thrown
    BY <1>1 DEF TriggerRow
  <2>2. trig' = [trig EXCEPT ![t] = row]
    BY <1>1, <1>t DEF Throws, TriggerRow
  <2> HIDE DEF row
  <2>3. QED
    BY <1>1, <2>1, <2>2
<1>r. ASSUME TryRelease(t) PROVE trig'[t].pc = "ended"
  BY <1>2, <1>t, <1>r DEF TryRelease
<1>3. CASE Decide(t)
  <2>1. trig'[t].pc = "decided"
    BY <1>1, <1>3 DEF Decide, TriggerRow
  <2>2. QED
    BY <1>3, <2>1 DEF Decide, Passes
<1>4. ASSUME NEW o, NEW state, Holding(t, o, state) PROVE trig'[t].pc = "held"
  BY <1>1, <1>4 DEF Holding, TriggerRow
<1>5. CASE ReserveNew(t) \/ Join(t)
  BY <1>4, <1>5 DEF ReserveNew, Join, Passes
<1>6. CASE Reuse(t) \/ ReserveRejected(t) \/ Run(t) \/ RunRefused(t) \/ CheckUpload(t)
            \/ AskThrows(t)
  BY <1>2, <1>r, <1>6 DEF Reuse, ReserveRejected, Run, RunRefused, CheckUpload, AskThrows,
     Passes
<1>7. CASE SettleAnalysis(t) \/ SettleThrows(t) \/ ReleaseFailed(t)
  BY <1>2, <1>r, <1>7 DEF SettleAnalysis, SettleThrows, ReleaseFailed, Passes
<1>f. CASE FailRowThrows(t) \/ RollbackThrows(t)
  BY <1>t, <1>f DEF FailRowThrows, RollbackThrows, Passes, Stuck
<1>8. CASE Crash(t)
  BY <1>2, <1>8 DEF Crash, Passes
<1>9. CASE ClaimRow(t)
  BY <1>2, <1>9 DEF ClaimRow, Scoped, Passes, TakesRow
<1>10. CASE ClaimSession(t)
  BY <1>2, <1>10 DEF ClaimSession, Scoped, Passes, TakesSession
<1>11. QED
  BY <1>3, <1>5, <1>6, <1>7, <1>8, <1>9, <1>10, <1>f DEF Step

(* A session changes only to expire.                                       *)
Expires ==
  /\ UNCHANGED <<legacy, analysis, trig>>
  /\ session' \in [Uploads -> SessionRow]
  /\ \A u \in Uploads : session'[u].status \in {session[u].status, "expired"}

LEMMA SessionCases ==
  ASSUME AnaTypeOK, NEW u \in Uploads,
         PassExpiry(u) \/ ExpireOnRead(u) \/ ExpireOnPoll(u) \/ Revoke(u)
  PROVE  Expires
<1>1. session \in [Uploads -> SessionRow]
  BY DEF AnaTypeOK, SessionRow
<1>2. ASSUME NEW row \in SessionRow, row.status \in {session[u].status, "expired"},
             Change(u, row)
      PROVE  Expires
  BY <1>1, <1>2 DEF Change, Expires
<1>3. CASE PassExpiry(u)
  BY <1>1, <1>2, <1>3 DEF PassExpiry, SessionRow
<1>4. CASE ExpireOnRead(u)
  BY <1>1, <1>2, <1>4 DEF ExpireOnRead, SessionRow
<1>5. CASE ExpireOnPoll(u)
  BY <1>1, <1>2, <1>5 DEF ExpireOnPoll, SessionRow
<1>6. CASE Revoke(u)
  BY <1>1, <1>2, <1>6 DEF Revoke, SessionRow
<1>7. QED
  BY <1>3, <1>4, <1>5, <1>6

-----------------------------------------------------------------------------
(* Types.                                                                  *)

LEMMA TypeAfterStep ==
  ASSUME AnaTypeOK, TriggerInv, NEW t \in Triggers, Step(t) \/ Crash(t)
  PROVE  /\ analysis' \in [Triggers -> {"none", "pending", "ready", "failed"}]
         /\ session' \in [Uploads -> SessionRow]
<1> USE DEF AnaTypeOK
<1>1. session \in [Uploads -> SessionRow] /\ Upload(t) \in Uploads
  BY AnalysisAssumption DEF Upload, SessionRow
<1>2. ASSUME NEW status \in {"uploaded", "analyzing", "ready", "expired"},
             SetStatus(t, status)
      PROVE  session' \in [Uploads -> SessionRow]
  BY <1>1, <1>2 DEF SetStatus, SessionRow
<1>3. CASE Passes(t)
  BY <1>1, <1>3 DEF Passes
<1>4. CASE TakesRow(t)
  BY <1>1, <1>4 DEF TakesRow
<1>5. CASE TakesSession(t)
  BY <1>2, <1>5 DEF TakesSession
<1>6. CASE Finish(t)
  BY <1>1, <1>2, <1>6 DEF Finish
<1>7. CASE FailRow(t)
  BY <1>1, <1>7 DEF FailRow
<1>8. CASE RollbackRead(t)
  BY <1>1, <1>8 DEF RollbackRead
<1>9. CASE RollbackWrite(t)
  BY <1>2, <1>9 DEF RollbackWrite
<1>10. QED
  BY <1>3, <1>4, <1>5, <1>6, <1>7, <1>8, <1>9, StepCases

LEMMA AnaTypeStep ==
  ASSUME AnaTypeOK, TriggerInv, [AnaNext]_anaVars
  PROVE  AnaTypeOK'
<1>1. TypeOK'
  BY AnaCreditPart, TypeStep DEF AnaTypeOK
<1>2. ASSUME NEW t \in Triggers, Step(t) \/ Crash(t) PROVE AnaTypeOK'
  BY <1>1, <1>2, StepAlone, TypeAfterStep DEF AnaTypeOK, Alone, SessionRow, TriggerRow
<1>3. ASSUME NEW u \in Uploads,
             PassExpiry(u) \/ ExpireOnRead(u) \/ ExpireOnPoll(u) \/ Revoke(u)
      PROVE  AnaTypeOK'
  BY <1>1, <1>3, SessionCases DEF AnaTypeOK, Expires, SessionRow
<1>4. CASE UNCHANGED <<legacy, session, analysis, trig>>
  BY <1>1, <1>4 DEF AnaTypeOK
<1>5. QED
  BY <1>2, <1>3, <1>4 DEF AnaNext, anaVars

-----------------------------------------------------------------------------
(* Where the triggers are.                                                 *)

LEMMA TriggerStep ==
  ASSUME AnaTypeOK, TriggerInv, NEW t \in Triggers, Step(t) \/ Crash(t)
  PROVE  TriggerInv'
<1> DEFINE Fine ==
      /\ trig'[t].pc \in Unclaimed => analysis'[t] = "none"
      /\ trig'[t].pc = "decided" => trig'[t].n # 0
      /\ trig'[t].pc \notin {"start", "decided"} \cup Over => trig'[t].op \in Ops
      /\ trig'[t].pc = "generating" => analysis'[t] = "pending"
      /\ trig'[t].pc = "analysed" => analysis'[t] = "ready"
      /\ trig'[t].pc \in {"failed", "rolling"} => /\ trig'[t].p \in legacy
                                                 /\ analysis'[t] = "failed"
<1>0. trig \in [Triggers -> TriggerRow] /\ Alone(t)
  BY StepAlone DEF AnaTypeOK, TriggerRow
<1>a. analysis \in [Triggers -> {"none", "pending", "ready", "failed"}]
  BY DEF AnaTypeOK
<1>b. ASSUME NEW s \in Triggers, s # t PROVE analysis'[s] = analysis[s]
  BY <1>a, <1>b, StepCases
  DEF Passes, TakesRow, TakesSession, Finish, FailRow, RollbackRead, RollbackWrite
<1> SUFFICES Fine
  BY <1>0, <1>b DEF Alone, TriggerInv
<1>1. ASSUME NEW pc, Goto(t, pc)
      PROVE  /\ trig'[t].pc = pc /\ trig'[t].op = trig[t].op
             /\ trig'[t].n = trig[t].n /\ trig'[t].p = trig[t].p
  BY <1>0, <1>1 DEF Goto, TriggerRow
<1>t. ASSUME NEW pc, NEW statement, Throws(t, statement, pc)
      PROVE  /\ trig'[t].pc = pc /\ trig'[t].op = trig[t].op
             /\ trig'[t].n = trig[t].n /\ trig'[t].p = trig[t].p
  BY <1>0, <1>t DEF Throws, TriggerRow
<1>r. ASSUME TryRelease(t) PROVE trig'[t].pc = "ended"
  BY <1>1, <1>t, <1>r DEF TryRelease
<1> USE DEF Unclaimed, Over, At, TriggerInv
<1>2. CASE Reuse(t) \/ ReserveRejected(t)
  BY <1>1, <1>2 DEF Reuse, ReserveRejected
<1>3. CASE Decide(t)
  <2>1. /\ trig'[t].pc = "decided" /\ trig'[t].n = Cardinality(Rows(trig[t].p)) + 1
        /\ analysis'[t] = "none"
    BY <1>0, <1>3 DEF Decide, TriggerRow
  <2>2. Cardinality(Rows(trig[t].p)) \in Nat
    BY AnalysisAssumption, FS_Subset, FS_CardinalityType DEF Rows
  <2>3. QED
    BY <2>1, <2>2
<1>4. ASSUME NEW o \in Ops, NEW state, Holding(t, o, state)
      PROVE  trig'[t].pc = "held" /\ trig'[t].op = o
  BY <1>0, <1>4 DEF Holding, TriggerRow
<1>5. CASE ReserveNew(t) \/ Join(t)
  <2>1. trig[t].pc = "decided"
    BY <1>5 DEF ReserveNew, Join
  <2>2. trig'[t].pc = "held" /\ trig'[t].op \in Ops
    BY <1>4, <1>5, <2>1, KeyInOps DEF ReserveNew, Join
  <2>3. QED
    BY <1>5, <2>1, <2>2 DEF ReserveNew, Join
<1>6. CASE Run(t) \/ RunRefused(t) \/ CheckUpload(t) \/ AskThrows(t)
  BY <1>1, <1>r, <1>6 DEF Run, RunRefused, CheckUpload, AskThrows
<1>f. CASE FailRowThrows(t) \/ RollbackThrows(t)
  BY <1>t, <1>f DEF FailRowThrows, RollbackThrows
<1>7. CASE ClaimRow(t)
  BY <1>1, <1>a, <1>7 DEF ClaimRow
<1>8. CASE ClaimSession(t)
  BY <1>1, <1>a, <1>8 DEF ClaimSession
<1>9. CASE Finish(t)
  BY <1>1, <1>a, <1>9 DEF Finish
<1>10. CASE FailRow(t)
  BY <1>1, <1>a, <1>0, <1>10 DEF FailRow, Scoped, TriggerRow
<1>11. CASE RollbackRead(t) \/ RollbackWrite(t)
  BY <1>1, <1>11 DEF RollbackRead, RollbackWrite
<1>12. CASE SettleAnalysis(t) \/ SettleThrows(t) \/ ReleaseFailed(t)
  BY <1>1, <1>r, <1>12 DEF SettleAnalysis, SettleThrows, ReleaseFailed
<1>13. CASE Crash(t)
  BY <1>1, <1>13 DEF Crash
<1>14. QED
  BY <1>2, <1>3, <1>5, <1>6, <1>7, <1>8, <1>9, <1>10, <1>11, <1>12, <1>13, <1>f DEF Step

-----------------------------------------------------------------------------
(* The claims.                                                             *)

LEMMA RowStep ==
  ASSUME AnaTypeOK, TriggerInv, RowInv, NEW t \in Triggers, Step(t) \/ Crash(t)
  PROVE  RowInv'
<1>0. /\ trig \in [Triggers -> TriggerRow]
      /\ analysis \in [Triggers -> {"none", "pending", "ready", "failed"}]
      /\ session \in [Uploads -> SessionRow]
      /\ legacy \subseteq Projects
  BY DEF AnaTypeOK, TriggerRow, SessionRow
<1>1. Alone(t) /\ TriggerInv'
  BY StepAlone, TriggerStep
<1>2. \A s \in Triggers : trig'[s].p = trig[s].p /\ trig[s].p \in Projects
  BY <1>0, <1>1 DEF Alone, TriggerRow
<1>3. \A s \in Triggers : Upload(s) \in Uploads /\ Upload(s)' = Upload(s)
  BY <1>2, AnalysisAssumption DEF Upload
<1>4. Unshared'
  BY <1>1 DEF RowInv, Unshared, Alone
<1>5. \A s \in Triggers : s # t => trig'[s] = trig[s] /\ analysis'[s] = analysis[s]
  BY <1>0, <1>1, StepCases
  DEF Alone, Passes, TakesRow, TakesSession, Finish, FailRow, RollbackRead, RollbackWrite
<1> DEFINE Same(s) == Claimed(s)' <=> Claimed(s)
<1>6. \A s \in Triggers : s # t => Same(s)
  BY <1>1, <1>5 DEF Claimed, Alone
(* Triggers of one upload, one of them legacy, are of one project.         *)
<1>7. \A r, s \in Triggers : trig[r].p \in legacy /\ Upload(r) = Upload(s) => trig[r].p = trig[s].p
  BY <1>2 DEF RowInv, Unshared, Upload
<1>8. CASE Passes(t)
  <2>1. Claimed(t)' => Claimed(t)
    BY <1>1, <1>2, <1>8 DEF Passes, Claimed, Alone
  <2>2. PendingUnique'
    BY <1>2, <1>8 DEF Passes, RowInv, PendingUnique
  <2>3. ClaimInv'
    BY <1>2, <1>3, <1>6, <1>8, <2>1 DEF Passes, RowInv, ClaimInv
  <2>4. OwnerInv'
    BY <1>1, <1>2, <1>3, <1>5, <1>8 DEF Passes, RowInv, OwnerInv, Stuck, Alone, OwnerPCs
  <2>5. QED
    BY <1>4, <2>2, <2>3, <2>4 DEF RowInv
<1>9. CASE TakesRow(t)
  <2>1. ~Claimed(t)' /\ ~Claimed(t)
    BY <1>1, <1>2, <1>9 DEF TakesRow, Claimed, Alone
  <2>2. \A s \in Triggers : trig[s].p = trig[t].p => analysis[s] # "pending"
    BY <1>9 DEF TakesRow, RowsIn, Rows
  <2>3. PendingUnique'
    BY <1>2, <1>5, <2>2 DEF RowInv, PendingUnique
  <2>4. ClaimInv'
    BY <1>2, <1>3, <1>6, <1>9, <2>1 DEF TakesRow, RowInv, ClaimInv
  <2>5. OwnerInv'
    BY <1>1, <1>2, <1>3, <1>5, <1>9 DEF TakesRow, RowInv, OwnerInv, Stuck, Alone, OwnerPCs
  <2>6. QED
    BY <1>4, <2>3, <2>4, <2>5 DEF RowInv
<1>10. CASE TakesSession(t)
  <2>1. \A s \in Triggers : trig[s].p = trig[t].p => ~Claimed(s)
    BY <1>10 DEF TakesSession, RowInv, ClaimInv, Upload
  <2>2. \A s \in Triggers : trig[s].p = trig[t].p => analysis[s] # "pending"
    BY <1>10, <2>1 DEF TakesSession, Claimed
  <2>3. PendingUnique'
    BY <1>2, <1>5, <2>2 DEF RowInv, PendingUnique
  <2>4. /\ session'[Upload(t)].status = "analyzing"
        /\ \A u \in Uploads : u # Upload(t) => session'[u] = session[u]
    BY <1>0, <1>3, <1>10 DEF TakesSession, SetStatus, SessionRow
  <2>5. ClaimInv'
    BY <1>2, <1>3, <1>6, <2>1, <2>4 DEF RowInv, ClaimInv
  <2>6. OwnerInv'
    BY <1>1, <1>2, <1>3, <1>5, <1>10, <2>4
    DEF TakesSession, RowInv, OwnerInv, Stuck, Alone, OwnerPCs
  <2>7. QED
    BY <1>4, <2>3, <2>5, <2>6 DEF RowInv
<1>11. CASE Finish(t)
  <2>1. /\ trig[t].pc = "generating" /\ analysis[t] = "pending"
        /\ analysis'[t] = "ready"
    BY <1>0, <1>11 DEF Finish, At, TriggerInv
  <2>2. PendingUnique'
    BY <1>2, <1>5, <2>1 DEF RowInv, PendingUnique
  <2>3. Claimed(t)' => Claimed(t)
    BY <1>1, <1>2, <2>1 DEF Claimed, Alone
  <2>4. CASE Scoped(t)
    <3>1. session' = session /\ trig[t].p \notin legacy
      BY <1>11, <2>4 DEF Finish, Scoped
    <3>2. ClaimInv'
      BY <1>2, <1>3, <1>6, <2>3, <3>1 DEF RowInv, ClaimInv
    <3>3. OwnerInv'
      BY <1>1, <1>2, <1>3, <1>5, <3>1 DEF RowInv, OwnerInv, Stuck, Alone
    <3>4. QED
      BY <1>4, <2>2, <3>2, <3>3 DEF RowInv
  <2>5. CASE ~Scoped(t)
    <3>1. /\ session'[Upload(t)].status = "ready"
          /\ \A u \in Uploads : u # Upload(t) => session'[u] = session[u]
      BY <1>0, <1>3, <1>11, <2>5 DEF Finish, SetStatus, SessionRow
    <3>2. ClaimInv'
      BY <1>2, <1>3, <1>6, <2>3, <3>1 DEF RowInv, ClaimInv
    <3>3. OwnerInv'
      BY <1>1, <1>2, <1>3, <1>5, <3>1 DEF RowInv, OwnerInv, Stuck, Alone
    <3>4. QED
      BY <1>4, <2>2, <3>2, <3>3 DEF RowInv
  <2>6. QED
    BY <2>4, <2>5
<1>12. CASE FailRow(t)
  <2>1. /\ trig[t].pc = "generating" /\ analysis[t] = "pending"
        /\ analysis'[t] = "failed" /\ session' = session
    BY <1>0, <1>12 DEF FailRow, At, TriggerInv
  <2>2. trig'[t].pc = IF Scoped(t) THEN "releasing" ELSE "failed"
    BY <1>0, <1>12 DEF FailRow, Goto, TriggerRow
  <2>3. PendingUnique'
    BY <1>2, <1>5, <2>1 DEF RowInv, PendingUnique
  <2>4. Claimed(t)' => Claimed(t)
    BY <1>1, <1>2, <2>1 DEF Claimed, Alone
  <2>5. ClaimInv'
    BY <1>2, <1>3, <1>6, <2>1, <2>4 DEF RowInv, ClaimInv
  <2>6. OwnerInv'
    BY <1>1, <1>2, <1>3, <1>5, <2>1, <2>2 DEF RowInv, OwnerInv, Stuck, Alone, Scoped, OwnerPCs
  <2>7. QED
    BY <1>4, <2>3, <2>5, <2>6 DEF RowInv
<1>13. CASE RollbackRead(t)
  <2>1. /\ trig[t].pc = "failed" /\ session' = session /\ analysis' = analysis
        /\ trig'[t].pc = IF session[Upload(t)].status = "analyzing" THEN "rolling" ELSE "releasing"
    BY <1>0, <1>13 DEF RollbackRead, Goto, At, TriggerRow
  <2>2. PendingUnique'
    BY <1>2, <2>1 DEF RowInv, PendingUnique
  <2>3. Claimed(t)' => Claimed(t)
    BY <1>1, <1>2, <2>1 DEF Claimed, Alone
  <2>4. ClaimInv'
    BY <1>2, <1>3, <1>6, <2>1, <2>3 DEF RowInv, ClaimInv
  <2>5. OwnerInv'
    BY <1>1, <1>2, <1>3, <1>5, <2>1 DEF RowInv, OwnerInv, Stuck, Alone, OwnerPCs
  <2>6. QED
    BY <1>4, <2>2, <2>4, <2>5 DEF RowInv
<1>14. CASE RollbackWrite(t)
  <2>1. /\ trig[t].pc = "rolling" /\ analysis' = analysis /\ trig'[t].pc = "releasing"
        /\ session'[Upload(t)].status = "uploaded"
        /\ \A u \in Uploads : u # Upload(t) => session'[u] = session[u]
    BY <1>0, <1>3, <1>14 DEF RollbackWrite, Goto, SetStatus, At, TriggerRow, SessionRow
  <2>2. trig[t].p \in legacy /\ Claimed(t)
    BY <2>1 DEF TriggerInv, Claimed
  <2>3. \A s \in Triggers : Claimed(s) /\ Upload(s) = Upload(t) => s = t
    BY <1>7, <2>2 DEF RowInv, ClaimInv
  <2>4. PendingUnique'
    BY <1>2, <2>1 DEF RowInv, PendingUnique
  <2>5. Claimed(t)' => Claimed(t) /\ analysis[t] \in {"pending", "ready"}
    BY <1>1, <1>2, <2>1, <2>2 DEF Claimed, Alone
  <2>6. analysis[t] \notin {"pending", "ready"}
    BY <2>1 DEF TriggerInv
  <2>7. ClaimInv'
    BY <1>2, <1>3, <1>6, <2>1, <2>3, <2>5, <2>6 DEF RowInv, ClaimInv
  <2>8. OwnerInv'
    BY <1>1, <1>2, <1>3, <1>5, <2>1 DEF RowInv, OwnerInv, Stuck, Alone
  <2>9. QED
    BY <1>4, <2>4, <2>7, <2>8 DEF RowInv
<1>15. QED
  BY <1>8, <1>9, <1>10, <1>11, <1>12, <1>13, <1>14, StepCases

-----------------------------------------------------------------------------
(* Charges.                                                                *)

(* An operation is settled by the trigger that has its result.             *)
LEMMA Settles ==
  ASSUME AnaTypeOK, TriggerInv, [AnaNext]_anaVars,
         NEW o \in Ops, op'[o].state = "settled", op[o].state # "settled"
  PROVE  \E t \in Triggers : SettleAnalysis(t) /\ trig[t].op = o
<1>0. op \in [Ops -> [state : States, reserved : Nat, charge : Nat,
                      expiresAt : Nat \cup {NULL}]]
  BY DEF AnaTypeOK, TypeOK
<1>1. ASSUME NEW t \in Triggers, trig[t].op \in Ops, TryRelease(t) PROVE FALSE
  BY <1>0, <1>1 DEF TryRelease, Release, Returned, creditVars
<1>2. ASSUME NEW t \in Triggers, trig[t].pc \notin {"start", "decided"} \cup Over
      PROVE  trig[t].op \in Ops
  BY <1>2 DEF TriggerInv
<1>3. op' # op
  OBVIOUS
<1>4. ASSUME NEW t \in Triggers, Step(t) PROVE SettleAnalysis(t) /\ trig[t].op = o
  <2>1. CASE ReserveNew(t)
    <3>1. PICK p \in Ops : Reserve(p, NULL)
      BY <2>1, KeyInOps DEF ReserveNew, At
    <3>2. QED
      BY <1>0, <3>1 DEF Reserve
  <2>2. CASE Run(t)
    BY <1>0, <1>2, <2>2 DEF Run, At, Over, MarkRunning
  <2>3. CASE RunRefused(t)
    BY <1>1, <1>2, <1>3, <2>3 DEF RunRefused, At, Over, creditVars
  <2>4. CASE SettleAnalysis(t)
    <3>1. trig[t].op \in Ops
      BY <1>2, <2>4 DEF SettleAnalysis, At, Over
    <3>2. PICK charge \in 0 .. MaxCharge[trig[t].op] : Settle(trig[t].op, charge)
      BY <2>4 DEF SettleAnalysis
    <3>3. CASE trig[t].op # o
      BY <1>0, <3>1, <3>2, <3>3 DEF Settle
    <3>4. QED
      BY <2>4, <3>3
  <2>5. CASE ReleaseFailed(t)
    BY <1>1, <1>2, <2>5 DEF ReleaseFailed, At, Over
  <2>6. CASE UNCHANGED creditVars
    BY <1>3, <2>6 DEF creditVars
  <2>7. QED
    BY <1>4, <2>1, <2>2, <2>3, <2>4, <2>5, <2>6
    DEF Step, Reuse, Decide, Join, ReserveRejected, CheckUpload, ClaimRow, ClaimSession,
        AskThrows, Finish, FailRow, FailRowThrows, RollbackRead, RollbackWrite,
        RollbackThrows, SettleThrows
<1>5. ASSUME NEW t \in Triggers, Crash(t) PROVE FALSE
  BY <1>3, <1>5 DEF Crash, creditVars
<1>6. ASSUME NEW u \in Uploads,
             PassExpiry(u) \/ ExpireOnRead(u) \/ ExpireOnPoll(u) \/ Revoke(u)
      PROVE  FALSE
  BY <1>3, <1>6 DEF PassExpiry, ExpireOnRead, ExpireOnPoll, Revoke, Change, creditVars
<1>7. CASE UNCHANGED anaVars
  BY <1>3, <1>7 DEF anaVars, creditVars
<1>8. QED
  BY <1>3, <1>4, <1>5, <1>6, <1>7 DEF AnaNext, Tick

(* A result stays, with the operation it was for.                          *)
LEMMA ResultStays ==
  ASSUME AnaTypeOK, TriggerInv, [AnaNext]_anaVars,
         NEW t \in Triggers, analysis[t] = "ready"
  PROVE  analysis'[t] = "ready" /\ trig'[t].op = trig[t].op
<1>0. /\ trig \in [Triggers -> TriggerRow]
      /\ analysis \in [Triggers -> {"none", "pending", "ready", "failed"}]
      /\ trig[t].pc \notin Unclaimed \cup {"generating"}
  BY DEF AnaTypeOK, TriggerRow, TriggerInv
<1>1. ASSUME NEW s \in Triggers, Step(s) \/ Crash(s), s # t
      PROVE  analysis'[t] = "ready" /\ trig'[t].op = trig[t].op
  BY <1>0, <1>1, StepAlone, StepCases
  DEF Alone, Passes, TakesRow, TakesSession, Finish, FailRow, RollbackRead, RollbackWrite
<1>2. ASSUME Step(t) \/ Crash(t)
      PROVE  analysis'[t] = "ready" /\ trig'[t].op = trig[t].op
  <2>1. ASSUME NEW pc, Goto(t, pc) PROVE trig'[t].op = trig[t].op
    BY <1>0, <2>1 DEF Goto, TriggerRow
  <2>2. ASSUME NEW pc, NEW statement, Throws(t, statement, pc)
        PROVE  trig'[t].op = trig[t].op
    BY <1>0, <2>2 DEF Throws, TriggerRow
  <2>3. QED
    BY <1>0, <1>2, <2>1, <2>2
    DEF Step, Unclaimed, At, Reuse, Decide, ReserveNew, Join, ReserveRejected, Run,
        RunRefused, TryRelease, CheckUpload, ClaimRow, ClaimSession, AskThrows, Finish,
        FailRow, FailRowThrows, RollbackRead, RollbackWrite, RollbackThrows,
        SettleAnalysis, SettleThrows, ReleaseFailed, Crash
<1>3. ASSUME NEW u \in Uploads,
             PassExpiry(u) \/ ExpireOnRead(u) \/ ExpireOnPoll(u) \/ Revoke(u)
      PROVE  analysis'[t] = "ready" /\ trig'[t].op = trig[t].op
  BY <1>3, SessionCases DEF Expires
<1>4. CASE UNCHANGED <<analysis, trig>>
  BY <1>4
<1>5. QED
  BY <1>1, <1>2, <1>3, <1>4 DEF AnaNext, anaVars

LEMMA ChargeStep ==
  ASSUME AnaTypeOK, TriggerInv, ChargeHasResult, [AnaNext]_anaVars
  PROVE  ChargeHasResult'
<1> SUFFICES ASSUME NEW o \in Ops, op'[o].state = "settled"
             PROVE  \E t \in Triggers : trig'[t].op = o /\ analysis'[t] = "ready"
  BY DEF ChargeHasResult
<1>1. PICK t \in Triggers : trig[t].op = o /\ analysis[t] = "ready"
  <2>1. CASE op[o].state = "settled"
    BY <2>1 DEF ChargeHasResult
  <2>2. CASE op[o].state # "settled"
    BY <2>2, Settles DEF SettleAnalysis, At, TriggerInv
  <2>3. QED
    BY <2>1, <2>2
<1>2. QED
  BY <1>1, ResultStays

-----------------------------------------------------------------------------
LEMMA AnaInvInit == AnaInit => AnaInv
<1> SUFFICES ASSUME AnaInit PROVE AnaInv
  OBVIOUS
<1> USE AnalysisAssumption
<1>1. TypeOK
  BY InitType DEF AnaInit
<1>2. Cardinality(Triggers) \in Nat
  BY FS_CardinalityType
<1>3. trig \in [Triggers -> TriggerRow]
  BY <1>2 DEF AnaInit, TriggerRow, PCs
<1>4. /\ \A t \in Triggers : trig[t].pc = "start" /\ analysis[t] = "none"
      /\ \A u \in Uploads : session[u].status = "uploaded"
      /\ \A o \in Ops : op[o].state = "none"
  BY DEF AnaInit, Init, NoRow
<1>5. AnaTypeOK
  BY <1>1, <1>3 DEF AnaInit, AnaTypeOK, TriggerRow
<1>6. Unshared
  BY DEF AnaInit, Unshared
<1>7. QED
  BY <1>4, <1>5, <1>6
  DEF AnaInv, TriggerInv, RowInv, PendingUnique, ClaimInv, Claimed, OwnerInv, ChargeHasResult,
      Over

LEMMA AnaInvStep == AnaInv /\ [AnaNext]_anaVars => AnaInv'
<1> SUFFICES ASSUME AnaInv, [AnaNext]_anaVars PROVE AnaInv'
  OBVIOUS
<1>1. AnaTypeOK /\ TriggerInv /\ RowInv /\ ChargeHasResult
  BY DEF AnaInv
<1>2. AnaTypeOK' /\ ChargeHasResult'
  BY <1>1, AnaTypeStep, ChargeStep
<1>3. ASSUME NEW t \in Triggers, Step(t) \/ Crash(t) PROVE TriggerInv' /\ RowInv'
  BY <1>1, <1>3, TriggerStep, RowStep
<1>4. ASSUME Expires PROVE TriggerInv' /\ RowInv'
  <2>1. \A t \in Triggers : Upload(t) \in Uploads
    BY <1>1, AnalysisAssumption DEF AnaTypeOK, Upload
  <2>2. TriggerInv' /\ Unshared' /\ PendingUnique'
    BY <1>1, <1>4 DEF Expires, TriggerInv, RowInv, Unshared, PendingUnique
  <2>3. ClaimInv'
    BY <1>1, <1>4, <2>1 DEF Expires, RowInv, ClaimInv, Claimed, Upload
  <2>4. OwnerInv'
    BY <1>1, <1>4, <2>1 DEF Expires, RowInv, OwnerInv, Stuck, Upload
  <2>5. QED
    BY <2>2, <2>3, <2>4 DEF RowInv
<1>5. ASSUME NEW u \in Uploads,
             PassExpiry(u) \/ ExpireOnRead(u) \/ ExpireOnPoll(u) \/ Revoke(u)
      PROVE  Expires
  BY <1>1, <1>5, SessionCases
<1>6. CASE UNCHANGED <<legacy, session, analysis, trig>>
  <2>1. session' = session /\ UNCHANGED <<legacy, analysis, trig>>
    BY <1>6
  <2>2. session \in [Uploads -> SessionRow]
    BY <1>1 DEF AnaTypeOK, SessionRow
  <2>3. Expires
    <3>1. session' \in [Uploads -> SessionRow]
      BY <2>1, <2>2
    <3>2. \A u \in Uploads : session'[u].status \in {session[u].status, "expired"}
      BY <2>1
    <3>3. QED
      BY <2>1, <3>1, <3>2 DEF Expires
  <2>4. QED
    BY <1>2, <1>4, <2>3 DEF AnaInv
<1>7. QED
  BY <1>2, <1>3, <1>4, <1>5, <1>6 DEF AnaNext, AnaInv, anaVars

LEMMA AnaInvAlways == AnaSpec => []AnaInv
BY AnaInvInit, AnaInvStep, PTL DEF AnaSpec

(* A set whose members are all one has one member at most.                 *)
LEMMA AtMostOne ==
  ASSUME NEW S, \A x, y \in S : x = y
  PROVE  Cardinality(S) <= 1
<1>1. CASE S = {}
  BY <1>1, FS_EmptySet
<1>2. ASSUME NEW x \in S PROVE Cardinality(S) = 1
  <2>1. S = {x}
    OBVIOUS
  <2>2. QED
    BY <2>1, FS_Singleton
<1>3. QED
  BY <1>1, <1>2

(* The rows, the sessions and the triggers have their types, and a trigger *)
(* never counts past the keys of its project.                              *)
THEOREM AnaTypeTheorem == AnaSpec => []AnaTypeOK
<1>1. AnaInv => AnaTypeOK
  BY DEF AnaInv
<1>2. QED
  BY <1>1, AnaInvAlways, PTL

(* One analysis of a project is under way at a time.                       *)
THEOREM OnePendingTheorem == AnaSpec => []OnePending
<1>1. ASSUME AnaInv PROVE OnePending
  <2>1. ASSUME NEW p \in Projects PROVE Cardinality(RowsIn(p, {"pending"})) <= 1
    <3>1. \A s, t \in RowsIn(p, {"pending"}) : s = t
      BY <1>1 DEF AnaInv, RowInv, PendingUnique, RowsIn, Rows
    <3>2. QED
      BY <3>1, AtMostOne
  <2>2. QED
    BY <2>1 DEF OnePending
<1>2. QED
  BY <1>1, AnaInvAlways, PTL

(* The upload of a legacy project gives one result.                        *)
THEOREM LegacyTheorem == AnaSpec => []LegacyResultIsFinal
<1>1. ASSUME AnaInv PROVE LegacyResultIsFinal
  <2>1. ASSUME NEW p \in legacy PROVE Cardinality(RowsIn(p, {"ready"})) <= 1
    <3>1. \A s, t \in RowsIn(p, {"ready"}) : s = t
      BY <1>1, <2>1 DEF AnaInv, RowInv, ClaimInv, Claimed, RowsIn, Rows
    <3>2. QED
      BY <3>1, AtMostOne
  <2>2. QED
    BY <2>1 DEF LegacyResultIsFinal
<1>2. QED
  BY <1>1, AnaInvAlways, PTL

(* A session that is being analysed has a trigger that will let go of it,  *)
(* whose server stopped, or whose failure could not be written down.       *)
THEOREM OwnerTheorem == AnaSpec => []AnalyzingHasOwner
<1>1. AnaInv => AnalyzingHasOwner
  BY DEF AnaInv, RowInv, OwnerInv, OwnerPCs, Stuck, AnalyzingHasOwner
<1>2. QED
  BY <1>1, AnaInvAlways, PTL

(* Whatever joins, fails and is retried, a charge is for a result.         *)
THEOREM ChargeTheorem == AnaSpec => []ChargeHasResult
<1>1. AnaInv => ChargeHasResult
  BY DEF AnaInv
<1>2. QED
  BY <1>1, AnaInvAlways, PTL

(* An analysis uses the credit service as it is, so the theorems about the *)
(* service hold of it.                                                     *)
THEOREM AnalysisUsesCredit == AnaSpec => Spec
<1>1. AnaInit => Init
  BY DEF AnaInit
<1>2. AnaInv /\ [AnaNext]_anaVars => [CreditNext]_creditVars
  BY AnaCreditPart DEF AnaInv
<1>3. QED
  BY <1>1, <1>2, AnaInvAlways, PTL DEF AnaSpec, Spec

-----------------------------------------------------------------------------
(* What a trigger that has ended leaves on hold.                           *)

Runners == {"running", "checked", "generating", "analysed", "failed", "rolling",
            "releasing", "crashed"}

(* A trigger that is still to return the operation or to settle it, that   *)
(* stopped before it could, or whose release met an error.                 *)
Keeper(t, o) ==
  /\ trig[t].op = o
  /\ \/ "release" \in trig[t].thrown
     \/ op[o].state = "running" /\ trig[t].pc \in Runners
     \/ op[o].state = "reserved" /\ trig[t].seen = "reserved"
                                /\ trig[t].pc \in {"held", "crashed"}

HoldsInv ==
  /\ \A o \in Ops : IsActive(o) => op[o].state \in {"reserved", "running"}
  /\ \A o \in Ops : IsActive(o) /\ ValidPeriod(Owner[o]) => \E t \in Triggers : Keeper(t, o)
  /\ \A t \in Triggers : trig[t].pc \in {"start", "decided"} => trig[t].op = NULL

(* What a step does to the operations, in terms of their states.           *)
SameStates(except) == \A o \in Ops \ except : op'[o].state = op[o].state

Takes(t) ==
  LET o == trig'[t].op IN
  /\ trig[t].pc = "decided" /\ trig'[t].pc = "held" /\ o \in Ops
  /\ \/ /\ op[o].state = "none" /\ op'[o].state = "reserved" /\ SameStates({o})
        /\ trig'[t].seen = "reserved"
     \/ SameStates({})

Runs(t) ==
  LET o == trig[t].op IN
  /\ trig[t].pc = "held" /\ trig'[t].pc = "running" /\ o \in Ops /\ trig'[t].op = o
  /\ SameStates({o}) /\ op[o].state = "reserved" /\ op'[o].state = "running"

EndsIt(t) ==
  LET o == trig[t].op IN
  /\ trig'[t].pc = "ended" /\ o \in Ops /\ trig'[t].op = o
  /\ SameStates({o}) /\ op'[o].state \in {"settled", "released"}

Leaves(t) ==
  LET o == trig[t].op IN
  /\ trig'[t].pc = "ended" /\ trig'[t].op = o /\ SameStates({})
  /\ \/ o = NULL \/ ~IsActive(o) \/ ~ValidPeriod(Owner[o])
     \/ "release" \in trig'[t].thrown
     \/ trig[t].pc = "held" /\ trig[t].seen # "reserved"

GoesOn(t) ==
  /\ trig'[t].pc # "ended" /\ trig'[t].op = trig[t].op /\ SameStates({})
  /\ trig'[t].seen = trig[t].seen
  /\ trig[t].op = NULL \/ trig'[t].pc \in Runners
  /\ trig[t].pc = "held" => trig'[t].pc = "crashed"

(* An operation that is live can be returned while its period lasts, so    *)
(* whoever wants to release one does, or meets an error.                   *)
LEMMA ReleaseEffect ==
  ASSUME AnaTypeOK, HoldsCanReturn, NEW t \in Triggers, trig[t].op \in Ops, TryRelease(t)
  PROVE  UNCHANGED <<now, periodEnd>> /\ (EndsIt(t) \/ Leaves(t))
<1> DEFINE o == trig[t].op
<1>0. /\ op \in [Ops -> [state : States, reserved : Nat, charge : Nat,
                         expiresAt : Nat \cup {NULL}]]
      /\ trig \in [Triggers -> TriggerRow] /\ trig[t] \in TriggerRow
  BY DEF AnaTypeOK, TypeOK, TriggerRow
<1>1. CASE CanRelease(o) /\ Release(o) /\ Goto(t, "ended")
  <2>1. op' = [op EXCEPT ![o].state = "released", ![o].reserved = 0]
        /\ UNCHANGED <<now, periodEnd>>
    BY <1>1 DEF Release, Returned
  <2>2. SameStates({o}) /\ op'[o].state = "released"
    BY <1>0, <2>1 DEF SameStates
  <2>3. trig'[t].pc = "ended" /\ trig'[t].op = o
    BY <1>0, <1>1 DEF Goto, TriggerRow
  <2>4. QED
    BY <2>1, <2>2, <2>3 DEF EndsIt
<1>2. CASE ~CanRelease(o) /\ Goto(t, "ended") /\ UNCHANGED creditVars
  <2>1. ~IsActive(o) \/ ~ValidPeriod(Owner[o])
    BY <1>2 DEF CanRelease, HoldsCanReturn
  <2>2. trig'[t].pc = "ended" /\ trig'[t].op = o
    BY <1>0, <1>2 DEF Goto, TriggerRow
  <2>3. QED
    BY <1>2, <2>1, <2>2 DEF Leaves, SameStates, creditVars
<1>3. CASE Throws(t, "release", "ended") /\ UNCHANGED creditVars
  <2> DEFINE row == [trig[t] EXCEPT !.pc = "ended", !.thrown = @ \cup {"release"}]
  <2>1. row.pc = "ended" /\ row.op = o /\ "release" \in row.thrown
    BY <1>0 DEF TriggerRow
  <2>2. trig' = [trig EXCEPT ![t] = row]
    BY <1>0, <1>3 DEF Throws, TriggerRow
  <2> HIDE DEF row
  <2>3. trig'[t] = row
    BY <1>0, <2>2
  <2>4. QED
    BY <1>3, <2>1, <2>3 DEF Leaves, SameStates, creditVars
<1>4. QED
  BY <1>1, <1>2, <1>3 DEF TryRelease

LEMMA StepEffect ==
  ASSUME AnaTypeOK, TriggerInv, HoldsInv, HoldsCanReturn,
         NEW t \in Triggers, Step(t) \/ Crash(t)
  PROVE  /\ UNCHANGED <<now, periodEnd>> /\ trig[t].pc \notin Over
         /\ Takes(t) \/ Runs(t) \/ EndsIt(t) \/ Leaves(t) \/ GoesOn(t)
<1>0. /\ trig \in [Triggers -> TriggerRow]
      /\ op \in [Ops -> [state : States, reserved : Nat, charge : Nat,
                         expiresAt : Nat \cup {NULL}]]
  BY DEF AnaTypeOK, TypeOK, TriggerRow
<1>1. ASSUME NEW pc, Goto(t, pc)
      PROVE  trig'[t].pc = pc /\ trig'[t].op = trig[t].op /\ trig'[t].seen = trig[t].seen
  BY <1>0, <1>1 DEF Goto, TriggerRow
<1>t. ASSUME NEW pc, NEW statement, Throws(t, statement, pc)
      PROVE  trig'[t].pc = pc /\ trig'[t].op = trig[t].op /\ trig'[t].seen = trig[t].seen
  BY <1>0, <1>t DEF Throws, TriggerRow
<1>2. ASSUME NEW o, NEW state, Holding(t, o, state)
      PROVE  trig'[t].pc = "held" /\ trig'[t].op = o /\ trig'[t].seen = state
  BY <1>0, <1>2 DEF Holding, TriggerRow
<1>3. ASSUME trig[t].pc \notin {"start", "decided"} \cup Over PROVE trig[t].op \in Ops
  BY <1>3 DEF TriggerInv
<1>4. ASSUME UNCHANGED creditVars PROVE SameStates({}) /\ UNCHANGED <<now, periodEnd>>
  BY <1>4 DEF creditVars, SameStates
<1>5. trig[t].pc \in {"start", "decided"} => trig[t].op = NULL
  BY DEF HoldsInv
<1> USE DEF At, Over
<1>6. CASE Reuse(t) \/ ReserveRejected(t)
  BY <1>1, <1>4, <1>5, <1>6 DEF Reuse, ReserveRejected, Leaves
<1>7. CASE Decide(t)
  <2>1. trig'[t].pc = "decided" /\ trig'[t].op = trig[t].op /\ trig'[t].seen = trig[t].seen
    BY <1>0, <1>7 DEF Decide, TriggerRow
  <2>2. QED
    BY <1>4, <1>5, <1>7, <2>1 DEF Decide, GoesOn
<1>8. CASE ReserveNew(t)
  <2>1. PICK o \in Ops : Reserve(o, NULL) /\ Holding(t, o, "reserved")
    BY <1>8, KeyInOps DEF ReserveNew
  <2>2. /\ op[o].state = "none" /\ op'[o].state = "reserved" /\ SameStates({o})
        /\ UNCHANGED <<now, periodEnd>>
    BY <1>0, <2>1 DEF Reserve, SameStates
  <2>3. QED
    BY <1>2, <1>8, <2>1, <2>2 DEF ReserveNew, Takes
<1>9. CASE Join(t)
  <2>1. Key(t) \in Ops /\ Holding(t, Key(t), op[Key(t)].state)
    BY <1>9, KeyInOps DEF Join
  <2>2. trig'[t].pc = "held" /\ trig'[t].op = Key(t)
    BY <1>2, <2>1
  <2> HIDE DEF Key
  <2>3. QED
    BY <1>4, <1>9, <2>1, <2>2 DEF Join, Takes
<1>10. CASE Run(t)
  <2>1. trig[t].op \in Ops /\ MarkRunning(trig[t].op)
    BY <1>3, <1>10 DEF Run
  <2>2. /\ op[trig[t].op].state = "reserved" /\ op'[trig[t].op].state = "running"
        /\ SameStates({trig[t].op}) /\ UNCHANGED <<now, periodEnd>>
    BY <1>0, <2>1 DEF MarkRunning, SameStates
  <2>3. QED
    BY <1>1, <1>10, <2>1, <2>2 DEF Run, Runs
<1>11. CASE RunRefused(t)
  <2>1. trig[t].op \in Ops /\ trig[t].pc = "held"
    BY <1>3, <1>11 DEF RunRefused
  <2>2. CASE TryRelease(t)
    BY <2>1, <2>2, ReleaseEffect
  <2>3. CASE trig[t].seen # "reserved" /\ Goto(t, "ended") /\ UNCHANGED creditVars
    BY <1>1, <1>4, <2>1, <2>3 DEF Leaves
  <2>4. QED
    BY <1>11, <2>2, <2>3 DEF RunRefused
<1>12. CASE ReleaseFailed(t)
  <2>1. trig[t].op \in Ops /\ TryRelease(t) /\ trig[t].pc = "releasing"
    BY <1>3, <1>12 DEF ReleaseFailed
  <2>2. QED
    BY <2>1, ReleaseEffect
<1>13. CASE SettleAnalysis(t)
  <2>1. /\ trig[t].op \in Ops /\ trig[t].pc = "analysed"
        /\ trig'[t].pc = "ended" /\ trig'[t].op = trig[t].op
    BY <1>1, <1>3, <1>13 DEF SettleAnalysis
  <2>2. PICK charge \in 0 .. MaxCharge[trig[t].op] : Settle(trig[t].op, charge)
    BY <1>13 DEF SettleAnalysis
  <2>3. /\ op'[trig[t].op].state = "settled" /\ SameStates({trig[t].op})
        /\ UNCHANGED <<now, periodEnd>>
    BY <1>0, <2>1, <2>2 DEF Settle, SameStates
  <2>4. QED
    BY <2>1, <2>3 DEF EndsIt
<1>14. CASE CheckUpload(t) \/ ClaimRow(t) \/ ClaimSession(t) \/ AskThrows(t) \/ Finish(t)
            \/ FailRow(t) \/ FailRowThrows(t) \/ RollbackRead(t) \/ RollbackWrite(t)
            \/ RollbackThrows(t) \/ SettleThrows(t)
  <2> USE DEF CheckUpload, ClaimRow, ClaimSession, AskThrows, Finish, FailRow, FailRowThrows,
              RollbackRead, RollbackWrite, RollbackThrows, SettleThrows
  <2>1. UNCHANGED creditVars /\ trig[t].pc \notin {"held", "ended", "crashed"}
    BY <1>14
  <2>2. \E pc \in Runners : Goto(t, pc) \/ \E statement : Throws(t, statement, pc)
    BY <1>14 DEF Runners
  <2>3. QED
    BY <1>1, <1>t, <1>4, <2>1, <2>2 DEF GoesOn, Runners
<1>15. CASE Crash(t)
  BY <1>1, <1>4, <1>15 DEF Crash, GoesOn, Runners
<1>16. QED
  BY <1>6, <1>7, <1>8, <1>9, <1>10, <1>11, <1>12, <1>13, <1>14, <1>15 DEF Step

(* A keeper stays one, or the operation is over.                           *)
LEMMA KeeperStays ==
  ASSUME AnaTypeOK, TriggerInv, HoldsInv, HoldsCanReturn,
         NEW t \in Triggers, Step(t) \/ Crash(t), NEW o \in Ops, NEW s \in Triggers,
         Keeper(s, o), ValidPeriod(Owner[o]), op[o].state \in {"reserved", "running"},
         op'[o].state \in {"reserved", "running"}
  PROVE  \E r \in Triggers : Keeper(r, o)'
<1>0. NULL # o /\ IsActive(o)
  BY AnalysisAssumption DEF IsActive, Active
<1>1. /\ trig[t].pc \notin Over
      /\ Takes(t) \/ Runs(t) \/ EndsIt(t) \/ Leaves(t) \/ GoesOn(t)
  BY StepEffect
<1>2. /\ \A r \in Triggers : r # t => trig'[r] = trig[r]
      /\ trig[t].thrown \subseteq trig'[t].thrown
  BY StepAlone DEF Alone
<1>3. CASE Runs(t) /\ trig[t].op = o
  <2>1. Keeper(t, o)'
    BY <1>3 DEF Runs, Keeper, Runners
  <2>2. QED
    BY <2>1
<1>4. CASE ~(Runs(t) /\ trig[t].op = o)
  <2>1. op'[o].state = op[o].state
    BY <1>1, <1>4 DEF Takes, Runs, EndsIt, Leaves, GoesOn, SameStates
  <2>2. CASE s # t
    BY <1>2, <2>1, <2>2 DEF Keeper
  <2>3. CASE s = t
    <3>1. trig[t].op = o /\ ~Takes(t) /\ ~Runs(t)
      BY <1>0, <1>4, <2>3 DEF Keeper, Takes, HoldsInv
    <3>2. trig'[t].op = o
      BY <1>1, <3>1 DEF EndsIt, Leaves, GoesOn
    <3>3. CASE "release" \in trig'[t].thrown
      BY <3>2, <3>3 DEF Keeper
    <3>4. CASE "release" \notin trig'[t].thrown
      <4>1. \/ op[o].state = "running" /\ trig[t].pc \in Runners
            \/ op[o].state = "reserved" /\ trig[t].seen = "reserved" /\ trig[t].pc = "held"
        BY <1>1, <1>2, <2>3, <3>4 DEF Keeper, Over
      <4>2. ~EndsIt(t)
        BY <3>1 DEF EndsIt
      <4>3. ~Leaves(t)
        BY <1>0, <3>1, <3>4, <4>1 DEF Leaves, Runners
      <4>4. GoesOn(t)
        BY <1>1, <3>1, <4>2, <4>3
      <4>5. Keeper(t, o)'
        BY <1>0, <2>1, <3>1, <3>2, <4>1, <4>4 DEF GoesOn, Keeper
      <4>6. QED
        BY <4>5
    <3>5. QED
      BY <3>3, <3>4
  <2>4. QED
    BY <2>2, <2>3
<1>5. QED
  BY <1>3, <1>4

LEMMA HoldsStep ==
  ASSUME AnaTypeOK, TriggerInv, HoldsInv, HoldsCanReturn, [AnaNext]_anaVars
  PROVE  HoldsInv'
<1>0. NULL \notin Ops /\ \A o \in Ops : Owner[o] \in Accounts
  BY AnalysisAssumption, CreditAssumption
<1>1. ASSUME NEW t \in Triggers, Step(t) \/ Crash(t) PROVE HoldsInv'
  <2>1. /\ UNCHANGED <<now, periodEnd>>
        /\ Takes(t) \/ Runs(t) \/ EndsIt(t) \/ Leaves(t) \/ GoesOn(t)
    BY <1>1, StepEffect
  <2>2. \A s \in Triggers : s # t => trig'[s] = trig[s]
    BY <1>1, StepAlone DEF Alone
  <2>3. \A o \in Ops : IsActive(o)' => op'[o].state \in {"reserved", "running"}
    BY <2>1 DEF HoldsInv, IsActive, Active, SameStates, Takes, Runs, EndsIt, Leaves, GoesOn
  <2>4. ASSUME NEW o \in Ops, IsActive(o)', ValidPeriod(Owner[o])'
        PROVE  \E r \in Triggers : Keeper(r, o)'
    <3>1. ValidPeriod(Owner[o]) /\ op'[o].state \in {"reserved", "running"}
      BY <2>1, <2>3, <2>4 DEF ValidPeriod
    <3>2. CASE IsActive(o)
      <4>1. op[o].state \in {"reserved", "running"}
        BY <3>2 DEF HoldsInv
      <4>2. PICK s \in Triggers : Keeper(s, o)
        BY <3>1, <3>2 DEF HoldsInv
      <4>3. QED
        BY <1>1, <3>1, <4>1, <4>2, KeeperStays
    <3>3. CASE ~IsActive(o)
      <4>1. Takes(t) /\ trig'[t].op = o /\ op'[o].state = "reserved" /\ trig'[t].seen = "reserved"
        BY <2>1, <3>1, <3>3 DEF IsActive, Active, SameStates, Takes, Runs, EndsIt, Leaves, GoesOn
      <4>2. Keeper(t, o)'
        BY <4>1 DEF Takes, Keeper
      <4>3. QED
        BY <4>2
    <3>4. QED
      BY <3>2, <3>3
  <2>5. ASSUME NEW s \in Triggers, trig'[s].pc \in {"start", "decided"}
        PROVE  trig'[s].op = NULL
    <3>1. CASE s # t
      BY <2>2, <2>5, <3>1 DEF HoldsInv
    <3>2. CASE s = t
      BY <2>1, <2>5, <3>2 DEF Takes, Runs, EndsIt, Leaves, GoesOn, Runners
    <3>3. QED
      BY <3>1, <3>2
  <2>6. QED
    BY <2>3, <2>4, <2>5 DEF HoldsInv
<1>2. ASSUME op' = op, trig' = trig PROVE HoldsInv'
  <2>1. [CreditNext]_creditVars
    BY AnaCreditPart
  <2>2. \A o \in Ops : ValidPeriod(Owner[o])' => ValidPeriod(Owner[o])
    BY <1>0, <2>1, CreditKeepsPeriods DEF AnaTypeOK
  <2>3. QED
    BY <1>2, <2>2 DEF HoldsInv, IsActive, Keeper
<1>3. ASSUME NEW u \in Uploads,
             PassExpiry(u) \/ ExpireOnRead(u) \/ ExpireOnPoll(u) \/ Revoke(u)
      PROVE  HoldsInv'
  BY <1>2, <1>3 DEF PassExpiry, ExpireOnRead, ExpireOnPoll, Revoke, Change, creditVars
<1>4. QED
  BY <1>1, <1>2, <1>3 DEF AnaNext, Tick, anaVars, creditVars

(* Whatever fails, a trigger that has ended leaves an operation on hold    *)
(* only when its period is over, when another trigger that shares it is    *)
(* still to settle or return it or crashed, or when a release of it met an *)
(* error.                                                                  *)
THEOREM EndedTheorem == AnaSpec => []EndedHoldsNothing
<1>1. AnaInit => HoldsInv
  <2> SUFFICES ASSUME AnaInit PROVE HoldsInv
    OBVIOUS
  <2>1. /\ \A o \in Ops : op[o].state = "none"
        /\ \A t \in Triggers : trig[t].op = NULL /\ trig[t].pc = "start"
    BY DEF AnaInit, Init, NoRow
  <2>2. QED
    BY <2>1 DEF HoldsInv, IsActive, Active
<1>2. AnaSpec => []HoldsCanReturn
  BY AnalysisUsesCredit, ReturnTheorem, PTL
<1>3. AnaInv /\ HoldsInv /\ HoldsCanReturn /\ [AnaNext]_anaVars => HoldsInv'
  BY HoldsStep DEF AnaInv
<1>4. AnaInv /\ HoldsInv => EndedHoldsNothing
  <2> SUFFICES ASSUME AnaInv, HoldsInv, NEW t \in Triggers, At(t, "ended"),
                      trig[t].op # NULL, IsActive(trig[t].op), ValidPeriod(Owner[trig[t].op])
               PROVE  \E s \in Triggers : /\ trig[s].op = trig[t].op
                                          /\ ~At(s, "ended") \/ "release" \in trig[s].thrown
    BY DEF EndedHoldsNothing
  <2>1. trig[t].op \in Ops
    BY DEF AnaInv, AnaTypeOK
  <2>2. QED
    BY <2>1 DEF HoldsInv, Keeper, Runners, At
<1>5. QED
  BY <1>1, <1>2, <1>3, <1>4, AnaInvAlways, PTL DEF AnaSpec
=============================================================================
