---------------------------- MODULE CodebaseAnalysis ----------------------------
(***************************************************************************)
(* Analysis of an uploaded snapshot (routes/api/v1/projects/$id/codebase/  *)
(* analysis.ts and lib/codebase-analysis.server.ts).  A trigger decides    *)
(* from the rows it reads whether to analyse, reserves credit, claims the  *)
(* analysis, asks the model, writes the result and settles.  A project of  *)
(* a codebase claims by a pending row under an advisory lock; a project    *)
(* that owns its upload (a legacy row) claims the sync session.  The       *)
(* session expires, or is revoked, and the billing period may end, while   *)
(* all this goes on.  The credit transactions are those of CreditService.  *)
(***************************************************************************)
EXTENDS CreditService

CONSTANTS
  Projects,  \* projects that analyse an upload
  Uploads,   \* uploaded snapshots, each with its sync session
  UploadOf,  \* the upload a project is bound to
  Triggers,  \* POSTs of the analysis
  KeyOf,     \* the idempotency key of a project's n-th analysis
  Fresh,     \* the keys freshRetryKey makes up
  Faults,    \* what may go wrong besides a failed generation
  MaxErrors  \* bound on the errors of the database that are recorded

ASSUME AnalysisAssumption ==
  /\ IsFiniteSet(Triggers)
  /\ UploadOf \in [Projects -> Uploads]
  /\ KeyOf \in [Projects -> [1 .. Cardinality(Triggers) -> Ops \ Fresh]]
  /\ Fresh \subseteq Ops
  /\ NULL \in Expiries /\ NULL \notin Ops
  /\ Faults \subseteq {"crash", "error"}
  /\ MaxErrors \in Nat

VARIABLES
  legacy,    \* projects without a codebase, whose upload is their own
  session,   \* the sync session of an upload
  analysis,  \* codebase_analyses: the status of the row a trigger inserted
  trig       \* local state of each trigger

anaVars == <<creditVars, legacy, session, analysis, trig>>

Over == {"ended", "crashed"}
PCs == {"start", "decided", "held", "running", "checked", "generating", "analysed",
        "failed", "rolling", "releasing"} \cup Over
Statements == {"release", "fail", "roll"}

(* The rows and the triggers hold values of the code.                      *)
AnaTypeOK ==
  /\ TypeOK
  /\ legacy \subseteq Projects
  /\ session \in [Uploads -> [status : {"uploaded", "analyzing", "ready", "expired"},
                              late : BOOLEAN, consumed : BOOLEAN]]
  /\ analysis \in [Triggers -> {"none", "pending", "ready", "failed"}]
  /\ trig \in [Triggers -> [p : Projects, pc : PCs, n : 0 .. Cardinality(Triggers),
                            op : Ops \cup {NULL}, seen : States \cup {NULL},
                            thrown : SUBSET Statements]]

AnaInit ==
  /\ Init
  /\ legacy \in SUBSET {p \in Projects : \A q \in Projects \ {p} : UploadOf[p] # UploadOf[q]}
  /\ session = [u \in Uploads |-> [status |-> "uploaded", late |-> FALSE, consumed |-> FALSE]]
  /\ analysis = [t \in Triggers |-> "none"]
  /\ trig \in [Triggers -> [p : Projects, pc : {"start"}, n : {0}, op : {NULL}, seen : {NULL},
                      thrown : {{}}]]

(* A trigger is for the project trig[t].p all its life.                    *)
Upload(t) == UploadOf[trig[t].p]
Scoped(t) == trig[t].p \notin legacy
Rows(p) == {t \in Triggers : trig[t].p = p /\ analysis[t] # "none"}
RowsIn(p, statuses) == {t \in Rows(p) : analysis[t] \in statuses}
At(t, pc) == trig[t].pc = pc
Goto(t, pc) == trig' = [trig EXCEPT ![t].pc = pc]

(* A statement of the trigger meets an error of the database, as in        *)
(* Generation.                                                             *)
Thrown == {e \in Triggers \X Statements : e[2] \in trig[e[1]].thrown}

Throws(t, statement, pc) ==
  /\ "error" \in Faults /\ Cardinality(Thrown) < MaxErrors
  /\ trig' = [trig EXCEPT ![t].pc = pc, ![t].thrown = @ \cup {statement}]

SetStatus(t, status) == session' = [session EXCEPT ![Upload(t)].status = status]

-----------------------------------------------------------------------------
(* The decision: a pending or ready row is answered as it is, otherwise    *)
(* the rows are counted for the key.                                       *)

Reuse(t) ==
  /\ At(t, "start")
  /\ RowsIn(trig[t].p, {"pending", "ready"}) # {}
  /\ Goto(t, "ended")
  /\ UNCHANGED <<creditVars, legacy, session, analysis>>

Decide(t) ==
  /\ At(t, "start")
  /\ RowsIn(trig[t].p, {"pending", "ready"}) = {}
  /\ trig' = [trig EXCEPT ![t].pc = "decided", ![t].n = Cardinality(Rows(trig[t].p)) + 1]
  /\ UNCHANGED <<creditVars, legacy, session, analysis>>

(* reserveActiveCreditOperation.                                           *)
Key(t) == KeyOf[trig[t].p][trig[t].n]
NewKeys(t) ==
  IF op[Key(t)].state = "none" THEN {Key(t)}
  ELSE IF IsActive(Key(t)) THEN {}
  ELSE {o \in Fresh : op[o].state = "none"}

Holding(t, o, state) ==
  trig' = [trig EXCEPT ![t] = [@ EXCEPT !.pc = "held", !.op = o, !.seen = state]]

ReserveNew(t) ==
  /\ At(t, "decided")
  /\ \E o \in NewKeys(t) : Reserve(o, NULL) /\ Holding(t, o, "reserved")
  /\ UNCHANGED <<legacy, session, analysis>>

Join(t) ==
  /\ At(t, "decided")
  /\ IsActive(Key(t))
  /\ Holding(t, Key(t), op[Key(t)].state)
  /\ UNCHANGED <<creditVars, legacy, session, analysis>>

(* The credit does not reach, the period is over or the reservation throws *)
(* another error: 403.                                                     *)
ReserveRejected(t) ==
  /\ At(t, "decided")
  /\ \/ \E o \in NewKeys(t) : ~ValidPeriod(Owner[o]) \/ Available(Owner[o]) < MaxCharge[o]
     \/ "error" \in Faults
  /\ Goto(t, "ended")
  /\ UNCHANGED <<creditVars, legacy, session, analysis>>

(* releaseCreditOperation with its errors swallowed; the request ends.     *)
TryRelease(t) ==
  LET o == trig[t].op IN
  \/ CanRelease(o) /\ Release(o) /\ Goto(t, "ended")
  \/ ~CanRelease(o) /\ Goto(t, "ended") /\ UNCHANGED creditVars
  \/ Throws(t, "release", "ended") /\ UNCHANGED creditVars

Run(t) ==
  /\ At(t, "held")
  /\ MarkRunning(trig[t].op)
  /\ Goto(t, "running")
  /\ UNCHANGED <<legacy, session, analysis>>

(* Not ours to run, or any other error: released if this trigger saw it    *)
(* reserved, 409.                                                          *)
RunRefused(t) ==
  /\ At(t, "held")
  /\ "error" \in Faults \/ op[trig[t].op].state # "reserved"
  /\ \/ trig[t].seen = "reserved" /\ TryRelease(t)
     \/ trig[t].seen # "reserved" /\ Goto(t, "ended") /\ UNCHANGED creditVars
  /\ UNCHANGED <<legacy, session, analysis>>

(* Faulty: 409 with the reservation left behind.                           *)
ThrowHolding(t) ==
  /\ At(t, "releasing")
  /\ Goto(t, "ended")
  /\ UNCHANGED <<creditVars, legacy, session, analysis>>

-----------------------------------------------------------------------------
(* requestCodebaseAnalysis.  A statement before the claim that meets an    *)
(* error, the claim included, ends in the handler's catch.                 *)

AskThrows(t) ==
  /\ "error" \in Faults
  /\ trig[t].pc \in {"running", "checked"}
  /\ Goto(t, "releasing")
  /\ UNCHANGED <<creditVars, legacy, session, analysis>>

(* Snapshot and session are read; the session must be "uploaded".          *)
CheckUpload(t) ==
  /\ At(t, "running")
  /\ Goto(t, IF session[Upload(t)].status = "uploaded" THEN "checked" ELSE "releasing")
  /\ UNCHANGED <<creditVars, legacy, session, analysis>>

(* Faulty: inserts without looking for a pending row.                      *)
ClaimBlindly(t) ==
  /\ At(t, "checked") /\ Scoped(t)
  /\ analysis' = [analysis EXCEPT ![t] = "pending"]
  /\ Goto(t, "generating")
  /\ UNCHANGED <<creditVars, legacy, session>>

(* A project of a codebase: no pending row of the project and snapshot,    *)
(* looked for and inserted under the advisory lock.                        *)
ClaimRow(t) ==
  /\ At(t, "checked") /\ Scoped(t)
  /\ IF RowsIn(trig[t].p, {"pending"}) = {}
     THEN /\ analysis' = [analysis EXCEPT ![t] = "pending"]
          /\ Goto(t, "generating")
     ELSE Goto(t, "releasing") /\ UNCHANGED analysis
  /\ UNCHANGED <<creditVars, legacy, session>>

(* A legacy project: the session from "uploaded" to "analyzing", by one    *)
(* conditional update.                                                     *)
ClaimSession(t) ==
  /\ At(t, "checked") /\ ~Scoped(t)
  /\ IF session[Upload(t)].status = "uploaded"
     THEN /\ analysis' = [analysis EXCEPT ![t] = "pending"]
          /\ SetStatus(t, "analyzing")
          /\ Goto(t, "generating")
     ELSE Goto(t, "releasing") /\ UNCHANGED <<analysis, session>>
  /\ UNCHANGED <<creditVars, legacy>>

(* The result; a legacy session becomes "ready" with it, whatever it is.   *)
Finish(t) ==
  /\ At(t, "generating")
  /\ analysis' = [analysis EXCEPT ![t] = "ready"]
  /\ IF Scoped(t) THEN UNCHANGED session ELSE SetStatus(t, "ready")
  /\ Goto(t, "analysed")
  /\ UNCHANGED <<creditVars, legacy>>

(* Faulty: the failed path leaves the row pending.                         *)
FailRowForgotten(t) ==
  /\ At(t, "generating")
  /\ Goto(t, IF Scoped(t) THEN "releasing" ELSE "failed")
  /\ UNCHANGED <<creditVars, legacy, session, analysis>>

(* The model failed or its output is not valid: the row first.             *)
FailRow(t) ==
  /\ At(t, "generating")
  /\ analysis' = [analysis EXCEPT ![t] = "failed"]
  /\ Goto(t, IF Scoped(t) THEN "releasing" ELSE "failed")
  /\ UNCHANGED <<creditVars, legacy, session>>

(* An error of that statement leaves the row pending and the session of a  *)
(* legacy project as it is.                                                *)
FailRowThrows(t) ==
  /\ At(t, "generating")
  /\ Throws(t, "fail", "releasing")
  /\ UNCHANGED <<creditVars, legacy, session, analysis>>

(* Then the session of a legacy project is read again ...                  *)
RollbackRead(t) ==
  /\ At(t, "failed")
  /\ Goto(t, IF session[Upload(t)].status = "analyzing" THEN "rolling" ELSE "releasing")
  /\ UNCHANGED <<creditVars, legacy, session, analysis>>

(* Faulty: the failed path leaves the session as it is.                    *)
RollbackForgotten(t) ==
  /\ At(t, "rolling")
  /\ Goto(t, "releasing")
  /\ UNCHANGED <<creditVars, legacy, session, analysis>>

(* ... and set back, by a statement of its own.                            *)
RollbackWrite(t) ==
  /\ At(t, "rolling")
  /\ SetStatus(t, "uploaded")
  /\ Goto(t, "releasing")
  /\ UNCHANGED <<creditVars, legacy, analysis>>

(* An error of either statement leaves the session "analyzing".            *)
RollbackThrows(t) ==
  /\ trig[t].pc \in {"failed", "rolling"}
  /\ Throws(t, "roll", "releasing")
  /\ UNCHANGED <<creditVars, legacy, session, analysis>>

(* Faulty: charges before the analysis is there.                           *)
SettleEarly(t) ==
  /\ trig[t].pc \in {"running", "analysed"}
  /\ \E charge \in 0 .. MaxCharge[trig[t].op] : Settle(trig[t].op, charge)
  /\ Goto(t, IF At(t, "running") THEN "checked" ELSE "ended")
  /\ UNCHANGED <<legacy, session, analysis>>

SettleAnalysis(t) ==
  /\ At(t, "analysed")
  /\ \E charge \in 0 .. MaxCharge[trig[t].op] : Settle(trig[t].op, charge)
  /\ Goto(t, "ended")
  /\ UNCHANGED <<legacy, session, analysis>>

(* The settlement throws, or the row cannot be read back, and the handler  *)
(* takes it for a failed analysis.                                         *)
SettleThrows(t) ==
  /\ At(t, "analysed")
  /\ "error" \in Faults \/ ~CanSettle(trig[t].op, 0)
  /\ Goto(t, "releasing")
  /\ UNCHANGED <<creditVars, legacy, session, analysis>>

(* The catch of the handler releases whatever the operation has become.    *)
ReleaseFailed(t) ==
  /\ At(t, "releasing")
  /\ TryRelease(t)
  /\ UNCHANGED <<legacy, session, analysis>>

Crash(t) ==
  /\ "crash" \in Faults
  /\ ~At(t, "start") /\ trig[t].pc \notin Over
  /\ Goto(t, "crashed")
  /\ UNCHANGED <<creditVars, legacy, session, analysis>>

-----------------------------------------------------------------------------
(* The session meanwhile.                                                  *)

Change(u, row) ==
  /\ session' = [session EXCEPT ![u] = row]
  /\ UNCHANGED <<creditVars, legacy, analysis, trig>>

PassExpiry(u) == ~session[u].late /\ Change(u, [session[u] EXCEPT !.late = TRUE])

(* GET of the session, or an upload request: no condition on the status.   *)
ExpireOnRead(u) ==
  /\ session[u].late /\ ~session[u].consumed /\ session[u].status # "expired"
  /\ Change(u, [session[u] EXCEPT !.status = "expired"])

(* The status poll: only a session that is not over.                       *)
ExpireOnPoll(u) ==
  /\ session[u].late /\ ~session[u].consumed
  /\ session[u].status \notin {"ready", "expired"}
  /\ Change(u, [session[u] EXCEPT !.status = "expired"])

(* DELETE revokes a session whose upload has long arrived, too.            *)
Revoke(u) ==
  /\ ~session[u].late /\ ~session[u].consumed
  /\ session[u].status \notin {"ready", "expired"}
  /\ Change(u, [session[u] EXCEPT !.status = "expired", !.consumed = TRUE])

-----------------------------------------------------------------------------
Step(t) ==
  \/ Reuse(t) \/ Decide(t) \/ ReserveNew(t) \/ Join(t) \/ ReserveRejected(t)
  \/ Run(t) \/ RunRefused(t) \/ CheckUpload(t) \/ ClaimRow(t) \/ ClaimSession(t)
  \/ AskThrows(t) \/ Finish(t) \/ FailRow(t) \/ FailRowThrows(t)
  \/ RollbackRead(t) \/ RollbackWrite(t) \/ RollbackThrows(t)
  \/ SettleAnalysis(t) \/ SettleThrows(t) \/ ReleaseFailed(t)

AnaNext ==
  \/ \E t \in Triggers : Step(t) \/ Crash(t)
  \/ \E u \in Uploads : PassExpiry(u) \/ ExpireOnRead(u) \/ ExpireOnPoll(u) \/ Revoke(u)
  \/ Tick /\ UNCHANGED <<legacy, session, analysis, trig>>

AnaSpec == AnaInit /\ [][AnaNext]_anaVars

(* A trigger that started goes on: the model answers or times out.         *)
FairAnaSpec == AnaSpec /\ \A t \in Triggers : WF_anaVars(trig[t].pc # "start" /\ Step(t))

-----------------------------------------------------------------------------
(* Properties.                                                             *)

(* One analysis of a project is under way at a time, across triggers,      *)
(* failures, rollbacks and expiry (the claim of requestCodebaseAnalysis).  *)
OnePending == \A p \in Projects : Cardinality(RowsIn(p, {"pending"})) <= 1

(* A charge is for a result: the operation of a settled analysis belongs   *)
(* to a trigger whose row is ready, though others may have joined it.      *)
ChargeHasResult ==
  \A o \in Ops : op[o].state = "settled" =>
    \E t \in Triggers : trig[t].op = o /\ analysis[t] = "ready"

(* A trigger that has ended leaves nothing on hold while the period lasts, *)
(* unless the operation is one that another trigger is still to run or     *)
(* that crashed, or the release of one of them met an error.               *)
EndedHoldsNothing ==
  \A t \in Triggers :
    LET o == trig[t].op IN
    At(t, "ended") /\ o # NULL /\ IsActive(o) /\ ValidPeriod(Owner[o]) =>
      \E s \in Triggers :
        trig[s].op = o /\ (~At(s, "ended") \/ "release" \in trig[s].thrown)

(* A legacy upload is analysed successfully at most once: the session is   *)
(* claimed from "uploaded", and never set back once a result is there.     *)
LegacyResultIsFinal ==
  \A p \in legacy : Cardinality(RowsIn(p, {"ready"})) <= 1

(* A session is held as "analyzing" only by a trigger that will let go of  *)
(* it, by one whose server stopped, or by one whose failure could not be   *)
(* written down: not by a failure, an expiry or a rollback that came at    *)
(* the wrong moment.                                                       *)
AnalyzingHasOwner ==
  \A u \in Uploads : session[u].status = "analyzing" =>
    \E t \in Triggers :
      /\ Upload(t) = u
      /\ \/ trig[t].pc \in {"generating", "failed", "rolling", "crashed"}
         \/ trig[t].thrown \cap {"fail", "roll"} # {}

(* A claim ends: the pending row that refuses every other trigger of the   *)
(* project goes away, unless the server stopped in the middle or the       *)
(* failure of an analysis could not be written to its row.                 *)
ClaimEnds ==
  \A p \in Projects :
    RowsIn(p, {"pending"}) # {} ~>
      \/ RowsIn(p, {"pending"}) = {}
      \/ \E t \in Triggers :
           trig[t].p = p /\ (At(t, "crashed") \/ "fail" \in trig[t].thrown)

(* Statements of the comments that the code does not keep in every case.   *)

(* analysis.ts: "a pending or ready record is reused; only a failed (or    *)
(* missing) record mints a fresh attempt".                                 *)
OneResult == \A p \in Projects : Cardinality(RowsIn(p, {"ready"})) <= 1

(* schema.ts: raw source "is retained for the project lifetime so analysis *)
(* can be regenerated": a session whose upload arrived stays good for it.  *)
UploadStaysAnalysable == \A u \in Uploads : session[u].status # "expired"
=============================================================================
