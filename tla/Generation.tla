------------------------------ MODULE Generation ------------------------------
(***************************************************************************)
(* Task generation (src/routes/api/task/generate.ts): requests of one user *)
(* for one project, each of which reserves credit (or joins the operation  *)
(* of an earlier request with the same idempotency key), claims the        *)
(* project by setting task_status, generates, saves the task tree and      *)
(* settles.  Requests run concurrently; the credit transactions are those  *)
(* of CreditService.  Nothing in the application calls the reconciler and  *)
(* no caller gives an expiry, so neither appears in Next.                  *)
(***************************************************************************)
EXTENDS CreditService, Sequences

CONSTANTS
  Requests,   \* HTTP requests to generate the tasks of the project
  CallerKey,  \* the idempotency key each of them sends
  Fresh,      \* the keys freshRetryKey makes up
  Faults,     \* what may go wrong besides a failed generation
  MaxErrors   \* bound on the errors of the database that are recorded

ASSUME GenerationAssumption ==
  /\ CallerKey \in [Requests -> Ops \ Fresh]
  /\ Fresh \subseteq Ops
  /\ NULL \in Expiries
  /\ NULL \notin Ops
  /\ Faults \subseteq {"abort", "crash", "error"}
  /\ MaxErrors \in Nat

VARIABLES
  taskStatus,  \* projects.task_status, the claim on the project
  created,     \* the operations in the order of their createdAt
  req          \* local state of each request

genVars == <<creditVars, taskStatus, created, req>>

Over == {"ended", "crashed"}
PCs == {"start", "waiting", "claimed", "generating", "saved", "unsettled",
        "unlocking", "resetting"} \cup Over
Statements == {"claim", "run", "settle", "release", "owner"}

\* The project, the requests and the order of creation have their types, and
\* exactly the operations that have a row were created.
GenTypeOK ==
  /\ TypeOK
  /\ taskStatus \in {"pending", "generating", "completed"}
  /\ created \in Seq(Ops)
  /\ req \in [Requests -> [pc : PCs, op : Ops \cup {NULL},
                           seen : States \cup {NULL}, saved : BOOLEAN,
                           thrown : SUBSET Statements]]
  /\ \A o \in Ops : (\E i \in DOMAIN created : created[i] = o) <=> op[o].state # "none"

GenInit ==
  /\ Init
  /\ taskStatus = "pending"
  /\ created = <<>>
  /\ req = [r \in Requests |-> [pc |-> "start", op |-> NULL, seen |-> NULL,
                                saved |-> FALSE, thrown |-> {}]]

At(r, pc) == req[r].pc = pc
Goto(r, pc) == req' = [req EXCEPT ![r].pc = pc]

(* A statement of the request meets an error of the database: it leaves    *)
(* nothing behind, and the request goes where its handler goes.  "thrown"  *)
(* is history that only the properties read.                               *)
Thrown == {e \in Requests \X Statements : e[2] \in req[e[1]].thrown}

Throws(r, statement, pc) ==
  /\ "error" \in Faults /\ Cardinality(Thrown) < MaxErrors
  /\ req' = [req EXCEPT ![r].pc = pc, ![r].thrown = @ \cup {statement}]

-----------------------------------------------------------------------------
(* reserveActiveCreditOperation.  A key whose operation is over gets a     *)
(* fresh one; a key whose operation is live is joined, and the request     *)
(* keeps the state it saw then.                                            *)

Affordable(o) ==
  /\ wallet[Owner[o]].credits > wallet[Owner[o]].used
  /\ ValidPeriod(Owner[o])
  /\ Available(Owner[o]) >= MaxCharge[o]

NewKeys(r) ==
  IF op[CallerKey[r]].state = "none" THEN {CallerKey[r]}
  ELSE IF IsActive(CallerKey[r]) THEN {}
  ELSE {o \in Fresh : op[o].state = "none"}

Holding(r, o, state) ==
  req' = [req EXCEPT ![r] = [@ EXCEPT !.pc = "waiting", !.op = o, !.seen = state]]

ReserveNew(r) ==
  /\ At(r, "start")
  /\ \E o \in NewKeys(r) : /\ Reserve(o, NULL)
                           /\ created' = Append(created, o)
                           /\ Holding(r, o, "reserved")
  /\ UNCHANGED taskStatus

Join(r) ==
  /\ At(r, "start")
  /\ IsActive(CallerKey[r])
  /\ Holding(r, CallerKey[r], op[CallerKey[r]].state)
  /\ UNCHANGED <<creditVars, taskStatus, created>>

ReserveRejected(r) ==
  /\ At(r, "start")
  /\ "error" \in Faults \/ \E o \in NewKeys(r) : ~Affordable(o)
  /\ Goto(r, "ended")
  /\ UNCHANGED <<creditVars, taskStatus, created>>

-----------------------------------------------------------------------------
(* The claim, polled for CLAIM_RETRY_MS.                                   *)

(* Faulty: takes a claimed project.                                        *)
ClaimAnyway(r) ==
  /\ At(r, "waiting")
  /\ taskStatus' = "generating"
  /\ Goto(r, "claimed")
  /\ UNCHANGED <<creditVars, created>>

Claim(r) ==
  /\ At(r, "waiting")
  /\ taskStatus # "generating"
  /\ taskStatus' = "generating"
  /\ Goto(r, "claimed")
  /\ UNCHANGED <<creditVars, created>>

(* The claim is outside every try: the answer is a 500, the hold stays.    *)
ClaimThrows(r) ==
  /\ At(r, "waiting")
  /\ Throws(r, "claim", "ended")
  /\ UNCHANGED <<creditVars, taskStatus, created>>

(* releaseCreditOperation with its errors swallowed.                       *)
TryRelease(r, pc) ==
  LET o == req[r].op IN
  \/ CanRelease(o) /\ Release(o) /\ Goto(r, pc)
  \/ ~CanRelease(o) /\ Goto(r, pc) /\ UNCHANGED creditVars
  \/ Throws(r, "release", pc) /\ UNCHANGED creditVars

(* safeRelease: once, and only what this request saw reserved.             *)
SafeRelease(r, pc) ==
  \/ req[r].seen = "reserved" /\ TryRelease(r, pc)
  \/ req[r].seen # "reserved" /\ Goto(r, pc) /\ UNCHANGED creditVars

(* Faulty: answers 409 and forgets the reservation.                        *)
GiveUpHolding(r) ==
  /\ At(r, "waiting")
  /\ taskStatus = "generating"
  /\ Goto(r, "ended")
  /\ UNCHANGED <<creditVars, taskStatus, created>>

GiveUp(r) ==
  /\ At(r, "waiting")
  /\ taskStatus = "generating"
  /\ SafeRelease(r, "ended")
  /\ UNCHANGED <<taskStatus, created>>

-----------------------------------------------------------------------------
(* The stream.                                                             *)

Start(r) ==
  /\ At(r, "claimed")
  /\ MarkRunning(req[r].op)
  /\ Goto(r, "generating")
  /\ UNCHANGED <<taskStatus, created>>

(* The operation is not reserved, or any other error: no release.          *)
StartRefused(r) ==
  /\ At(r, "claimed")
  /\ \/ op[req[r].op].state # "reserved" /\ Goto(r, "unlocking")
     \/ Throws(r, "run", "unlocking")
  /\ UNCHANGED <<creditVars, taskStatus, created>>

(* saveTaskTree.                                                           *)
Save(r) ==
  /\ At(r, "generating")
  /\ taskStatus' = "completed"
  /\ req' = [req EXCEPT ![r].pc = "saved", ![r].saved = TRUE]
  /\ UNCHANGED <<creditVars, created>>

SettleTree(r) ==
  /\ At(r, "saved")
  /\ \E charge \in 0 .. MaxCharge[req[r].op] : Settle(req[r].op, charge)
  /\ Goto(r, "ended")
  /\ UNCHANGED <<taskStatus, created>>

(* quarantineCreditOperation with its errors swallowed.                    *)
TryQuarantine(o) ==
  \/ CanQuarantine(o) /\ Quarantine(o)
  \/ ("error" \in Faults \/ ~CanQuarantine(o)) /\ UNCHANGED creditVars

(* The settlement threw, whatever the error: quarantine.                   *)
SettleRefused(r) ==
  /\ At(r, "saved")
  /\ \/ ~CanSettle(req[r].op, 0) /\ Goto(r, "unsettled")
     \/ Throws(r, "settle", "unsettled")
  /\ TryQuarantine(req[r].op)
  /\ UNCHANGED <<taskStatus, created>>

(* Every other way to end badly releases: the model fails, the stream is   *)
(* aborted, the output is truncated, invalid or incomplete, the save       *)
(* fails; safeError after the quarantine.                                  *)
Fail(r) ==
  /\ req[r].pc \in {"generating", "unsettled"}
  /\ SafeRelease(r, "unlocking")
  /\ UNCHANGED <<taskStatus, created>>

(* The client goes away during the repair of the coverage.                 *)
AbortInRepair(r) ==
  /\ "abort" \in Faults
  /\ At(r, "generating")
  /\ SafeRelease(r, "ended")
  /\ UNCHANGED <<taskStatus, created>>

(* ownsProjectLock, which fails open, and then the reset, whose error is   *)
(* swallowed.                                                              *)
OwnsProjectLock(r) ==
  LET live == {i \in DOMAIN created : IsActive(created[i])}
  IN \A i \in live : (\A j \in live : j <= i) => created[i] = req[r].op

CheckOwner(r) ==
  /\ At(r, "unlocking")
  /\ \/ Goto(r, IF OwnsProjectLock(r) THEN "resetting" ELSE "ended")
     \/ Throws(r, "owner", "resetting")
  /\ UNCHANGED <<creditVars, taskStatus, created>>

Reset(r) ==
  /\ At(r, "resetting")
  /\ \/ taskStatus' = "pending"
     \/ "error" \in Faults /\ UNCHANGED taskStatus
  /\ Goto(r, "ended")
  /\ UNCHANGED <<creditVars, created>>

Crash(r) ==
  /\ "crash" \in Faults
  /\ ~At(r, "start") /\ req[r].pc \notin Over
  /\ Goto(r, "crashed")
  /\ UNCHANGED <<creditVars, taskStatus, created>>

-----------------------------------------------------------------------------
Step(r) ==
  \/ ReserveNew(r) \/ Join(r) \/ ReserveRejected(r)
  \/ Claim(r) \/ ClaimThrows(r) \/ GiveUp(r)
  \/ Start(r) \/ StartRefused(r)
  \/ Save(r) \/ SettleTree(r) \/ SettleRefused(r)
  \/ Fail(r) \/ CheckOwner(r) \/ Reset(r)

GenNext ==
  \/ \E r \in Requests : Step(r) \/ AbortInRepair(r) \/ Crash(r)
  \/ Tick /\ UNCHANGED <<taskStatus, created, req>>

GenSpec == GenInit /\ [][GenNext]_genVars

(* A request that is running goes on: the model and the database answer,   *)
(* or time out, which is an error.                                         *)
FairGenSpec == GenSpec /\ \A r \in Requests : WF_genVars(Step(r))

-----------------------------------------------------------------------------
(* Properties.                                                             *)

(* The claim excludes: two requests never generate the project's tasks at  *)
(* the same time, so no two trees are saved over each other, as long as    *)
(* what was saved is paid for.  A request that has saved its tree gives    *)
(* the claim up with it; when its settlement is then refused, it goes      *)
(* through the error path and may reset a claim that is not its own.       *)
OneGenerator ==
  (\A r \in Requests :
     At(r, "ended") /\ req[r].saved => op[req[r].op].state = "settled")
  => \A r, s \in Requests : At(r, "generating") /\ At(s, "generating") => r = s

(* Two requests that share an operation never both run it.                 *)
OneRunnerPerOperation ==
  \A r, s \in Requests :
    /\ req[r].pc \in {"generating", "saved"} /\ req[s].pc \in {"generating", "saved"}
    /\ req[r].op = req[s].op
    => r = s

(* An operation whose requests have all ended is over, unless its period   *)
(* was (the release is refused then) or the statement that would have      *)
(* given it back met an error; it is charged only for a tree that was      *)
(* saved; and a tree saved by a request that has the operation to itself   *)
(* is paid for, unless its period was over or the settlement met an error. *)
Leaks(r) == req[r].thrown \cap {"claim", "run", "release"} # {}

EndedIsSquare ==
  \A o \in Ops :
    LET Parties == {r \in Requests : req[r].op = o}
        Billable == ValidPeriod(Owner[o])
    IN
    Parties # {} /\ (\A r \in Parties : At(r, "ended")) =>
      /\ IsActive(o) /\ Billable => \E r \in Parties : Leaks(r)
      /\ op[o].state = "settled" => \E r \in Parties : req[r].saved
      /\ \A r \in Parties :
           Parties = {r} /\ req[r].saved /\ op[o].state # "settled" =>
             ~Billable \/ "settle" \in req[r].thrown

(* A reservation does not outlive its requests: it is eventually settled,  *)
(* returned or quarantined, unless its period is over, a server stops      *)
(* under a request that has it or the database refuses the one statement   *)
(* by which a request would give it back.  Nothing comes back for it then. *)
HoldEnds ==
  \A o \in Ops :
    IsActive(o) ~> \/ ~IsActive(o) \/ ~ValidPeriod(Owner[o])
                   \/ \E r \in Requests :
                        req[r].op = o /\ (At(r, "crashed") \/ Leaks(r))

(* The same without the exceptions.                                        *)
HoldIsReturned == \A o \in Ops : IsActive(o) ~> ~IsActive(o)

(* Statements of the documentation and comments that the code does not     *)
(* keep in every case.                                                     *)

(* A running operation is released by nobody but the request that runs it. *)
RunningIsNotCancelled ==
  [][\A o \in Ops :
       op[o].state = "running" /\ op'[o].state = "released" =>
         \E r \in Requests : /\ req[r].op = o /\ req[r] # req'[r]
                             /\ req[r].pc \in {"generating", "saved", "unsettled"}]_genVars

(* A request that has ended, aborted or not, has given the project back.   *)
ProjectIsFree ==
  (\A r \in Requests : At(r, "ended")) => taskStatus # "generating"

(* Two requests never generate at the same time, whatever was paid.        *)
NeverTwoAtOnce ==
  \A r, s \in Requests : At(r, "generating") /\ At(s, "generating") => r = s

(* An error path never resets the claim of a request that is generating.   *)
NewerClaimIsKept ==
  [][\A r \in Requests :
       At(r, "generating") /\ taskStatus = "generating" /\ taskStatus' = "pending" =>
         FALSE]_genVars
=============================================================================
