----------------------------- MODULE AccountProofs -----------------------------
(***************************************************************************)
(* Theorems about what spends and fills an account's balance and watches   *)
(* its paid time, for every number of actors, every price list, schedule   *)
(* and period.                                                             *)
(***************************************************************************)
EXTENDS Generation, Subscriptions, BillingCron, CreditServiceProofs

(***************************************************************************)
(* Generation.  A step of the route takes a step of the credit service or  *)
(* leaves it alone, so what CreditServiceProofs shows of the service holds *)
(* of the route.  Effect says what a step does to the states of the        *)
(* operations and to the claim, the money left out; the invariants are     *)
(* shown from it.                                                          *)
(***************************************************************************)

RequestRow == [pc : PCs, op : Ops \cup {NULL}, seen : States \cup {NULL},
               saved : BOOLEAN, thrown : SUBSET Statements]

(* A request past its reservation has an operation.                        *)
HasOperation ==
  \A r \in Requests : req[r].pc \notin {"start"} \cup Over => req[r].op \in Ops

RowInv == TypeOK /\ req \in [Requests -> RequestRow] /\ HasOperation

(* The credit part of a step of the route.                                 *)
LEMMA CreditPart ==
  ASSUME req \in [Requests -> RequestRow], HasOperation, [GenNext]_genVars
  PROVE  [CreditNext]_creditVars
<1> USE GenerationAssumption
<1>1. ASSUME NEW o \in Ops, TryQuarantine(o) PROVE [CreditNext]_creditVars
  BY <1>1 DEF TryQuarantine, CreditNext, OpNext
<1>2. ASSUME NEW r \in Requests, req[r].op \in Ops, NEW pc, SafeRelease(r, pc)
      PROVE  [CreditNext]_creditVars
  BY <1>2 DEF SafeRelease, TryRelease, CreditNext, OpNext
<1>3. ASSUME NEW r \in Requests, req[r].pc \notin {"start"} \cup Over
      PROVE  req[r].op \in Ops
  BY <1>3 DEF HasOperation
<1>4. ASSUME NEW r \in Requests, Step(r) PROVE [CreditNext]_creditVars
  <2>1. CASE ReserveNew(r)
    <3>1. PICK o \in NewKeys(r) : Reserve(o, NULL)
      BY <2>1 DEF ReserveNew
    <3>2. o \in Ops
      BY DEF NewKeys
    <3>3. QED
      BY <3>1, <3>2 DEF CreditNext, OpNext
  <2>2. CASE Join(r) \/ ReserveRejected(r) \/ Claim(r) \/ ClaimThrows(r)
               \/ StartRefused(r) \/ Save(r) \/ CheckOwner(r) \/ Reset(r)
    BY <2>2 DEF Join, ReserveRejected, Claim, ClaimThrows, StartRefused, Save, CheckOwner,
       Reset
  <2>3. CASE GiveUp(r)
    BY <2>3, <1>2, <1>3 DEF GiveUp, At, Over
  <2>4. CASE Fail(r)
    BY <2>4, <1>2, <1>3 DEF Fail, At, Over
  <2>5. CASE Start(r)
    BY <2>5, <1>3 DEF Start, At, Over, CreditNext, OpNext
  <2>6. CASE SettleTree(r)
    BY <2>6, <1>3 DEF SettleTree, At, Over, CreditNext, OpNext
  <2>7. CASE SettleRefused(r)
    <3>1. req[r].op \in Ops
      BY <2>7, <1>3 DEF SettleRefused, At, Over
    <3>2. TryQuarantine(req[r].op)
      BY <2>7 DEF SettleRefused
    <3>3. QED
      BY <1>1, <3>1, <3>2
  <2>8. QED
    BY <1>4, <2>1, <2>2, <2>3, <2>4, <2>5, <2>6, <2>7 DEF Step
<1>5. ASSUME NEW r \in Requests, AbortInRepair(r) PROVE [CreditNext]_creditVars
  BY <1>5, <1>2, <1>3 DEF AbortInRepair, At, Over
<1>6. ASSUME NEW r \in Requests, Crash(r) PROVE [CreditNext]_creditVars
  BY <1>6 DEF Crash
<1>7. CASE UNCHANGED genVars
  BY <1>7 DEF genVars
<1>8. QED
  BY <1>4, <1>5, <1>6, <1>7 DEF GenNext, CreditNext

(* What a step of a request does to the states of the operations.          *)
Keeps == \A o \in Ops : op'[o].state = op[o].state

Becomes(o, state) ==
  op'[o].state = state /\ \A p \in Ops \ {o} : op'[p].state = op[p].state

GivesBack(r) ==
  \/ /\ req[r].seen = "reserved" /\ CanRelease(req[r].op)
     /\ Becomes(req[r].op, "released")
  \/ /\ Keeps
     /\ \/ req[r].seen # "reserved" \/ ~CanRelease(req[r].op)
        \/ "release" \in req'[r].thrown

(* What a step of request r does to its place in the route, to its         *)
(* operation and to the claim: every step is one of these.                 *)
Reserves(r) ==
  /\ req[r].pc = "start" /\ req'[r].pc = "waiting" /\ taskStatus' = taskStatus
  /\ req'[r].op \in Ops /\ req'[r].seen = op'[req'[r].op].state
  /\ \/ op[req'[r].op].state = "none" /\ Becomes(req'[r].op, "reserved")
     \/ IsActive(req'[r].op) /\ Keeps

Claims(r) ==
  /\ req[r].pc = "waiting" /\ req'[r].pc = "claimed" /\ Keeps
  /\ taskStatus # "generating" /\ taskStatus' = "generating"

Starts(r) ==
  /\ req[r].pc = "claimed" /\ req'[r].pc = "generating" /\ taskStatus' = taskStatus
  /\ op[req[r].op].state = "reserved" /\ Becomes(req[r].op, "running")

Saves(r) ==
  /\ req[r].pc = "generating" /\ req'[r].pc = "saved" /\ Keeps
  /\ taskStatus' = "completed"

Settles(r) ==
  /\ req[r].pc = "saved" /\ req'[r].pc = "ended" /\ taskStatus' = taskStatus
  /\ Becomes(req[r].op, "settled")

LosesCharge(r) ==
  /\ req[r].pc = "saved" /\ req'[r].pc = "unsettled" /\ taskStatus' = taskStatus
  /\ ~CanSettle(req[r].op, 0) \/ "settle" \in req'[r].thrown
  /\ (CanQuarantine(req[r].op) /\ Becomes(req[r].op, "quarantined")) \/ Keeps

Returns(r) ==
  /\ \/ req[r].pc \in {"waiting", "generating"} /\ req'[r].pc = "ended"
     \/ req[r].pc \in {"generating", "unsettled"} /\ req'[r].pc = "unlocking"
  /\ GivesBack(r) /\ taskStatus' = taskStatus

GoesOn(r) ==
  /\ Keeps /\ taskStatus' = taskStatus
  /\ \/ req[r].pc = "start" /\ req'[r].pc = "ended"
     \/ req[r].pc = "waiting" /\ req'[r].pc = "ended" /\ "claim" \in req'[r].thrown
     \/ /\ req[r].pc = "claimed" /\ req'[r].pc = "unlocking"
        /\ op[req[r].op].state # "reserved" \/ "run" \in req'[r].thrown
     \/ req[r].pc = "unlocking" /\ req'[r].pc \in {"resetting", "ended"}
     \/ req[r].pc \notin {"start"} \cup Over /\ req'[r].pc = "crashed"

Resets(r) ==
  /\ req[r].pc = "resetting" /\ req'[r].pc = "ended" /\ Keeps
  /\ taskStatus' \in {"pending", taskStatus}

Effect(r) ==
  /\ \A s \in Requests \ {r} : req'[s] = req[s]
  /\ req' \in [Requests -> RequestRow]
  /\ req'[r].saved <=> req[r].saved \/ req'[r].pc = "saved"
  /\ req[r].thrown \subseteq req'[r].thrown
  /\ ~Reserves(r) => req'[r].op = req[r].op /\ req'[r].seen = req[r].seen
  /\ req[r].pc \notin {"start"} \cup Over => req[r].op \in Ops
  /\ \/ Reserves(r) \/ Claims(r) \/ Starts(r) \/ Saves(r) \/ Settles(r)
     \/ LosesCharge(r) \/ Returns(r) \/ GoesOn(r) \/ Resets(r)

LEMMA EffectTaken ==
  ASSUME RowInv, NEW r \in Requests, Step(r) \/ AbortInRepair(r) \/ Crash(r)
  PROVE  Effect(r)
<1> USE GenerationAssumption
<1> DEFINE o == req[r].op
<1>0. /\ op \in [Ops -> [state : States, reserved : Nat, charge : Nat,
                         expiresAt : Nat \cup {NULL}]]
      /\ req \in [Requests -> RequestRow] /\ req[r] \in RequestRow
      /\ req[r].pc \notin {"start"} \cup Over => o \in Ops
  BY DEF RowInv, TypeOK, HasOperation
<1>1. ASSUME NEW pc \in PCs, Goto(r, pc)
      PROVE  /\ req'[r].pc = pc /\ req'[r].op = o
             /\ req' \in [Requests -> RequestRow]
             /\ req'[r].seen = req[r].seen /\ req'[r].saved = req[r].saved
             /\ req'[r].thrown = req[r].thrown
             /\ \A s \in Requests \ {r} : req'[s] = req[s]
  <2> DEFINE row == [req[r] EXCEPT !.pc = pc]
  <2>1. /\ row \in RequestRow /\ row.pc = pc /\ row.op = o /\ row.seen = req[r].seen
        /\ row.saved = req[r].saved /\ row.thrown = req[r].thrown
    BY <1>0 DEF RequestRow
  <2>2. req' = [req EXCEPT ![r] = row]
    BY <1>0, <1>1 DEF Goto
  <2> HIDE DEF row
  <2>3. QED
    BY <1>0, <2>1, <2>2
<1>t. ASSUME NEW pc \in PCs, NEW statement \in Statements, Throws(r, statement, pc)
      PROVE  /\ req'[r].pc = pc /\ req'[r].op = o
             /\ req' \in [Requests -> RequestRow]
             /\ req'[r].seen = req[r].seen /\ req'[r].saved = req[r].saved
             /\ req'[r].thrown = req[r].thrown \cup {statement}
             /\ \A s \in Requests \ {r} : req'[s] = req[s]
  <2> DEFINE row == [req[r] EXCEPT !.pc = pc, !.thrown = @ \cup {statement}]
  <2>1. /\ row \in RequestRow /\ row.pc = pc /\ row.op = o /\ row.seen = req[r].seen
        /\ row.saved = req[r].saved /\ row.thrown = req[r].thrown \cup {statement}
    BY <1>0 DEF RequestRow
  <2>2. req' = [req EXCEPT ![r] = row]
    BY <1>0, <1>t DEF Throws
  <2> HIDE DEF row
  <2>3. QED
    BY <1>0, <2>1, <2>2
<1>2. ASSUME NEW p \in Ops, NEW state \in States,
             Holding(r, p, state)
      PROVE  /\ req'[r].pc = "waiting" /\ req'[r].op = p /\ req'[r].seen = state
             /\ req' \in [Requests -> RequestRow] /\ req'[r].saved = req[r].saved
             /\ req'[r].thrown = req[r].thrown
             /\ \A s \in Requests \ {r} : req'[s] = req[s]
  <2> DEFINE row == [req[r] EXCEPT !.pc = "waiting", !.op = p, !.seen = state]
  <2>1. /\ row \in RequestRow /\ row.pc = "waiting" /\ row.op = p /\ row.seen = state
        /\ row.saved = req[r].saved /\ row.thrown = req[r].thrown
    BY <1>0 DEF RequestRow, PCs
  <2>2. req' = [req EXCEPT ![r] = row]
    BY <1>0, <1>2 DEF Holding
  <2> HIDE DEF row
  <2>3. QED
    BY <1>0, <2>1, <2>2
<1>3. ASSUME UNCHANGED creditVars PROVE Keeps
  BY <1>3 DEF creditVars, Keeps
<1>4. ASSUME NEW p \in Ops, NEW state, NEW entry, Returned(p, state, entry)
      PROVE  Becomes(p, state)
  <2>1. op' = [op EXCEPT ![p].state = state, ![p].reserved = 0]
    BY <1>4 DEF Returned
  <2>2. QED
    BY <1>0, <2>1 DEF Becomes
<1>5. ASSUME o \in Ops, NEW pc \in PCs, SafeRelease(r, pc)
      PROVE  /\ GivesBack(r) /\ req'[r].pc = pc /\ req'[r].op = o
             /\ req' \in [Requests -> RequestRow]
             /\ req'[r].seen = req[r].seen /\ req'[r].saved = req[r].saved
             /\ req[r].thrown \subseteq req'[r].thrown
             /\ \A s \in Requests \ {r} : req'[s] = req[s]
  <2>1. CASE /\ req[r].seen = "reserved" /\ CanRelease(o) /\ Release(o) /\ Goto(r, pc)
    <3>1. Becomes(o, "released")
      BY <1>4, <1>5, <2>1 DEF Release
    <3>2. QED
      BY <1>1, <1>5, <2>1, <3>1 DEF GivesBack
  <2>2. CASE /\ req[r].seen # "reserved" \/ ~CanRelease(o)
             /\ Goto(r, pc) /\ UNCHANGED creditVars
    BY <1>1, <1>3, <2>2 DEF GivesBack
  <2>3. CASE Throws(r, "release", pc) /\ UNCHANGED creditVars
    BY <1>t, <1>3, <2>3 DEF GivesBack, Statements
  <2>4. QED
    BY <1>5, <2>1, <2>2, <2>3 DEF SafeRelease, TryRelease
<1> USE DEF At, Over, PCs
<1>6. CASE ReserveNew(r)
  <2>1. PICK p \in NewKeys(r) : Reserve(p, NULL) /\ Holding(r, p, "reserved")
    BY <1>6 DEF ReserveNew
  <2>2. p \in Ops /\ op[p].state = "none" /\ req[r].pc = "start" /\ taskStatus' = taskStatus
    BY <1>6, <2>1 DEF ReserveNew, NewKeys, Reserve
  <2>3. Becomes(p, "reserved")
    BY <1>0, <2>1, <2>2 DEF Reserve, Becomes
  <2>4. QED
    BY <1>2, <2>1, <2>2, <2>3 DEF Effect, Reserves, Becomes, States, Active
<1>7. CASE Join(r)
  <2>1. /\ CallerKey[r] \in Ops /\ Holding(r, CallerKey[r], op[CallerKey[r]].state)
        /\ op[CallerKey[r]].state \in States /\ Keeps /\ taskStatus' = taskStatus
        /\ IsActive(CallerKey[r]) /\ req[r].pc = "start"
    BY <1>0, <1>3, <1>7 DEF Join
  <2>2. QED
    BY <1>2, <2>1 DEF Effect, Reserves, Keeps
<1>8. CASE ReserveRejected(r)
  BY <1>1, <1>3, <1>8 DEF ReserveRejected, Effect, GoesOn
<1>9. CASE Claim(r)
  BY <1>0, <1>1, <1>3, <1>9 DEF Claim, Effect, Claims
<1>10. CASE GiveUp(r)
  BY <1>0, <1>5, <1>10 DEF GiveUp, Effect, Returns
<1>11. CASE Start(r)
  <2>1. o \in Ops /\ MarkRunning(o) /\ Goto(r, "generating")
    BY <1>0, <1>11 DEF Start
  <2>2. op[o].state = "reserved" /\ Becomes(o, "running")
    BY <1>0, <2>1 DEF MarkRunning, Becomes
  <2>3. QED
    BY <1>1, <1>11, <2>1, <2>2 DEF Start, Effect, Starts
<1>12. CASE StartRefused(r)
  <2>1. CASE op[o].state # "reserved" /\ Goto(r, "unlocking")
    BY <1>0, <1>1, <1>3, <1>12, <2>1 DEF StartRefused, Effect, GoesOn
  <2>2. CASE Throws(r, "run", "unlocking")
    BY <1>0, <1>t, <1>3, <1>12, <2>2 DEF StartRefused, Effect, GoesOn, Statements
  <2>3. QED
    BY <1>12, <2>1, <2>2 DEF StartRefused
<1>c. CASE ClaimThrows(r)
  BY <1>0, <1>t, <1>3, <1>c DEF ClaimThrows, Effect, GoesOn, Statements
<1>13. CASE Save(r)
  <2> DEFINE row == [req[r] EXCEPT !.pc = "saved", !.saved = TRUE]
  <2>1. /\ row \in RequestRow /\ row.pc = "saved" /\ row.op = o /\ row.seen = req[r].seen
        /\ row.saved /\ row.thrown = req[r].thrown
    BY <1>0 DEF RequestRow
  <2>2. req' = [req EXCEPT ![r] = row]
    BY <1>0, <1>13 DEF Save
  <2> HIDE DEF row
  <2>3. /\ req'[r] = row /\ req' \in [Requests -> RequestRow]
        /\ \A s \in Requests \ {r} : req'[s] = req[s]
    BY <1>0, <2>1, <2>2
  <2>4. req[r].pc = "generating" /\ Keeps /\ taskStatus' = "completed"
    BY <1>3, <1>13 DEF Save
  <2>5. QED
    BY <1>0, <2>1, <2>3, <2>4 DEF Effect, Saves
<1>14. CASE SettleTree(r)
  <2>1. o \in Ops /\ req[r].pc = "saved" /\ Goto(r, "ended") /\ taskStatus' = taskStatus
    BY <1>0, <1>14 DEF SettleTree
  <2>2. PICK charge \in 0 .. MaxCharge[o] : Settle(o, charge)
    BY <1>14 DEF SettleTree
  <2>3. Becomes(o, "settled")
    BY <1>0, <2>1, <2>2 DEF Settle, Becomes
  <2>4. QED
    BY <1>1, <2>1, <2>3 DEF Effect, Settles
<1>15. CASE SettleRefused(r)
  <2>1. o \in Ops /\ req[r].pc = "saved" /\ taskStatus' = taskStatus
    BY <1>0, <1>15 DEF SettleRefused
  <2>2. (CanQuarantine(o) /\ Becomes(o, "quarantined")) \/ Keeps
    BY <1>3, <1>4, <1>15, <2>1 DEF SettleRefused, TryQuarantine, Quarantine
  <2>3. CASE ~CanSettle(o, 0) /\ Goto(r, "unsettled")
    BY <1>1, <2>1, <2>2, <2>3 DEF Effect, LosesCharge
  <2>4. CASE Throws(r, "settle", "unsettled")
    BY <1>t, <2>1, <2>2, <2>4 DEF Effect, LosesCharge, Statements
  <2>5. QED
    BY <1>15, <2>3, <2>4 DEF SettleRefused
<1>16. CASE Fail(r)
  BY <1>0, <1>5, <1>16 DEF Fail, Effect, Returns
<1>17. CASE AbortInRepair(r)
  BY <1>0, <1>5, <1>17 DEF AbortInRepair, Effect, Returns
<1>18. CASE CheckOwner(r)
  <2>1. Keeps /\ taskStatus' = taskStatus /\ req[r].pc = "unlocking"
    BY <1>3, <1>18 DEF CheckOwner
  <2>2. CASE \E pc \in {"resetting", "ended"} : Goto(r, pc)
    BY <1>0, <1>1, <2>1, <2>2 DEF Effect, GoesOn
  <2>3. CASE Throws(r, "owner", "resetting")
    BY <1>0, <1>t, <2>1, <2>3 DEF Effect, GoesOn, Statements
  <2>4. QED
    BY <1>18, <2>2, <2>3 DEF CheckOwner
<1>19. CASE Reset(r)
  BY <1>0, <1>1, <1>3, <1>19 DEF Reset, Effect, Resets
<1>20. CASE Crash(r)
  BY <1>0, <1>1, <1>3, <1>20 DEF Crash, Effect, GoesOn
<1>21. QED
  BY <1>6, <1>7, <1>8, <1>9, <1>10, <1>11, <1>12, <1>13, <1>14, <1>15, <1>16, <1>17,
     <1>18, <1>19, <1>20, <1>c DEF Step

-----------------------------------------------------------------------------
(* A request that has run its operation.                                   *)
Ran(r) == req[r].pc \in {"generating", "saved"} \/ req[r].saved

(* One request at most has run an operation, which can then not be marked  *)
(* running again, and which only this request settles, at its end.         *)
RunInv ==
  /\ RowInv
  /\ \A r \in Requests :
       /\ req[r].pc \in {"start", "waiting", "claimed", "generating"} => ~req[r].saved
       /\ req[r].pc \in {"saved", "unsettled"} => req[r].saved
       /\ Ran(r) =>
            /\ req[r].op \in Ops /\ op[req[r].op].state \notin {"none", "reserved"}
            /\ op[req[r].op].state = "settled" => req[r].saved /\ req[r].pc = "ended"
            /\ \A s \in Requests : Ran(s) /\ req[s].op = req[r].op => s = r

LEMMA RunInvInit == GenInit => RunInv
<1> SUFFICES ASSUME GenInit PROVE RunInv
  OBVIOUS
<1>1. TypeOK
  BY InitType DEF GenInit
<1>2. req \in [Requests -> RequestRow]
  BY DEF GenInit, RequestRow, PCs
<1>3. \A r \in Requests : req[r].pc = "start" /\ ~req[r].saved
  BY DEF GenInit
<1>4. QED
  BY <1>1, <1>2, <1>3 DEF RunInv, RowInv, HasOperation, Ran

LEMMA RowInvStep ==
  ASSUME RowInv, [GenNext]_genVars
  PROVE  /\ RowInv' /\ [CreditNext]_creditVars
         /\ \/ \E r \in Requests : Effect(r)
            \/ op' = op /\ req' = req /\ taskStatus' = taskStatus
<1>1. [CreditNext]_creditVars
  BY CreditPart DEF RowInv
<1>2. TypeOK'
  BY <1>1, TypeStep DEF RowInv
<1>3. CASE \E r \in Requests : Effect(r)
  <2>1. PICK r \in Requests : Effect(r)
    BY <1>3
  <2>2. req' \in [Requests -> RequestRow]
    BY <2>1 DEF Effect
  <2>3. HasOperation'
    BY <2>1 DEF Effect, RowInv, HasOperation, Reserves, Claims, Starts, Saves, Settles,
       LosesCharge, Returns, GoesOn, Resets, Over
  <2>4. QED
    BY <1>1, <1>2, <1>3, <2>2, <2>3 DEF RowInv
<1>4. CASE op' = op /\ req' = req /\ taskStatus' = taskStatus
  BY <1>1, <1>2, <1>4 DEF RowInv, HasOperation
<1>5. QED
  BY <1>3, <1>4, EffectTaken DEF GenNext, Tick, genVars, creditVars

LEMMA RunInvStep == RunInv /\ [GenNext]_genVars => RunInv'
<1> SUFFICES ASSUME RunInv, [GenNext]_genVars PROVE RunInv'
  OBVIOUS
<1>1. RowInv' /\ [CreditNext]_creditVars
  BY RowInvStep DEF RunInv
<1>2. ASSUME NEW t \in Requests, Effect(t) PROVE RunInv'
  <2>1. \A s \in Requests \ {t} : req'[s] = req[s]
    BY <1>2 DEF Effect
  <2>2. ASSUME NEW o \in Ops, op'[o].state = "settled", op[o].state # "settled"
        PROVE  Settles(t) /\ o = req[t].op
    BY <1>2, <2>2 DEF Effect, Reserves, Claims, Starts, Saves, LosesCharge, Returns,
       GoesOn, Resets, Settles, Becomes, Keeps, GivesBack
  <2>3. ASSUME NEW o \in Ops, op[o].state \notin {"none", "reserved"}
        PROVE  op'[o].state \notin {"none", "reserved"}
    BY <1>1, <2>3, StatesMoveOn DEF RunInv, RowInv
  <2>4. ASSUME Ran(t)'
        PROVE  /\ req'[t].op = req[t].op /\ req[t].op \in Ops
               /\ \/ Ran(t)
                  \/ op[req[t].op].state = "reserved" /\ op'[req[t].op].state = "running"
    BY <1>2, <2>4 DEF Effect, RunInv, Ran, Reserves, Claims, Starts, Saves, Settles,
       LosesCharge, Returns, GoesOn, Resets, Becomes, Over
  <2>5. /\ req'[t].pc \in {"start", "waiting", "claimed", "generating"} => ~req'[t].saved
        /\ req'[t].pc \in {"saved", "unsettled"} => req'[t].saved
    BY <1>2 DEF Effect, RunInv, Reserves, Claims, Starts, Saves, Settles,
       LosesCharge, Returns, GoesOn, Resets
  <2>6. ASSUME NEW r \in Requests, Ran(r)'
        PROVE  /\ req'[r].op \in Ops /\ op'[req'[r].op].state \notin {"none", "reserved"}
               /\ req'[r].op = req[r].op
    BY <2>1, <2>3, <2>4, <2>6 DEF RunInv, Ran
  <2>7. ASSUME NEW r \in Requests, Ran(r)', op'[req'[r].op].state = "settled"
        PROVE  req'[r].saved /\ req'[r].pc = "ended"
    <3>1. CASE op[req[r].op].state = "settled"
      <4>1. r # t
        <5> SUFFICES ASSUME r = t PROVE FALSE
          OBVIOUS
        <5>1. Ran(t)
          BY <2>4, <2>7, <3>1
        <5>2. req[t].pc = "ended"
          BY <3>1, <5>1 DEF RunInv
        <5>3. QED
          BY <1>2, <5>2 DEF Effect, Reserves, Claims, Starts, Saves, Settles, LosesCharge,
             Returns, GoesOn, Resets, Over
      <4>2. QED
        BY <2>1, <2>7, <3>1, <4>1 DEF RunInv, Ran
    <3>2. CASE op[req[r].op].state # "settled"
      <4>1. Settles(t) /\ req[r].op = req[t].op
        BY <2>2, <2>6, <2>7, <3>2
      <4>2. Ran(t) /\ (r # t => Ran(r))
        BY <2>1, <2>7, <4>1 DEF Settles, Ran
      <4>3. r = t
        BY <4>1, <4>2 DEF RunInv
      <4>4. QED
        BY <1>2, <4>1, <4>3 DEF Effect, RunInv, Settles
    <3>3. QED
      BY <3>1, <3>2
  <2>8. ASSUME NEW r \in Requests, Ran(r)', NEW s \in Requests, Ran(s)',
               req'[s].op = req'[r].op, s # r
        PROVE  FALSE
    <3>1. ASSUME NEW u \in Requests, u # t, Ran(u)', Ran(t)', req'[u].op = req'[t].op
          PROVE  FALSE
      BY <2>1, <2>4, <3>1 DEF RunInv, Ran
    <3>2. QED
      BY <2>1, <2>8, <3>1 DEF RunInv, Ran
  <2>9. \A r \in Requests \ {t} :
          /\ req'[r].pc \in {"start", "waiting", "claimed", "generating"} => ~req'[r].saved
          /\ req'[r].pc \in {"saved", "unsettled"} => req'[r].saved
    BY <2>1 DEF RunInv
  <2>10. QED
    BY <1>1, <2>5, <2>6, <2>7, <2>8, <2>9 DEF RunInv
<1>3. CASE op' = op /\ req' = req
  BY <1>1, <1>3 DEF RunInv, Ran
<1>4. QED
  BY <1>2, <1>3, RowInvStep DEF RunInv

LEMMA RunInvAlways == GenSpec => []RunInv
BY RunInvInit, RunInvStep, PTL DEF GenSpec

(* Requests that share an operation, because one of them was sent twice,   *)
(* never both generate against it or settle it (task/generate.ts, the      *)
(* mark-running transaction decides).                                      *)
THEOREM RunnerTheorem == GenSpec => []OneRunnerPerOperation
<1>1. RunInv => OneRunnerPerOperation
  BY DEF RunInv, Ran, OneRunnerPerOperation
<1>2. QED
  BY <1>1, RunInvAlways, PTL

(* Whatever requests, aborts and crashes do, the route drives the credit   *)
(* service only through its transactions.                                  *)
THEOREM UsesCredit == GenSpec => Spec
<1>1. RunInv /\ [GenNext]_genVars => [CreditNext]_creditVars
  BY CreditPart DEF RunInv, RowInv
<1>2. GenInit => Init
  BY DEF GenInit
<1>3. QED
  BY <1>1, <1>2, RunInvAlways, PTL DEF GenSpec, Spec

(* Hence the CHECK on credits_reserved never refuses the return of a live  *)
(* hold of a generation (a release may still be refused, once its period   *)
(* is over), and the ledger explains every operation the route starts.     *)
THEOREM GenReturnTheorem == GenSpec => []HoldsCanReturn
BY UsesCredit, ReturnTheorem, PTL

THEOREM GenLedgerTheorem == GenSpec => []LedgerExplains
BY UsesCredit, LedgerTheorem, PTL

-----------------------------------------------------------------------------
(* The claim on the project.                                               *)

(* Every saved tree has been paid for, as far as its request has ended.    *)
SavedIsPaid ==
  \A r \in Requests :
    req[r].pc = "ended" /\ req[r].saved => op[req[r].op].state = "settled"

(* A request that has the claim: one that has saved its tree has given it  *)
(* back with that, though it may still come to the reset.                  *)
HasClaim(r) ==
  req[r].pc \in {"claimed", "generating", "unlocking", "resetting"} /\ ~req[r].saved

(* One request at most has the claim, and while it does the project is     *)
(* marked as generating, until a request ends with a saved tree unpaid:    *)
(* only such a one may have reset what it had not claimed.                 *)
ClaimInv ==
  SavedIsPaid =>
    \A r \in Requests : HasClaim(r) =>
      taskStatus = "generating" /\ \A s \in Requests : HasClaim(s) => s = r

LEMMA ClaimInvStep ==
  ASSUME RunInv, ClaimInv, [GenNext]_genVars
  PROVE  ClaimInv'
<1>1. ASSUME NEW t \in Requests, Effect(t), SavedIsPaid'
      PROVE  \A r \in Requests : HasClaim(r)' =>
               taskStatus' = "generating" /\ \A s \in Requests : HasClaim(s)' => s = r
  <2>1. \A s \in Requests \ {t} : req'[s] = req[s] /\ HasClaim(s)' = HasClaim(s)
    BY <1>1 DEF Effect, HasClaim
  <2>2. ASSUME NEW r \in Requests, req[r].pc = "ended", req[r].saved,
               op[req[r].op].state # "settled"
        PROVE  FALSE
    <3>1. r # t
      BY <1>1, <2>2 DEF Effect, Reserves, Claims, Starts, Saves, Settles, LosesCharge,
         Returns, GoesOn, Resets, Over
    <3>2. op'[req[r].op].state = "settled"
      BY <1>1, <2>1, <2>2, <3>1 DEF SavedIsPaid
    <3>3. Settles(t) /\ req[t].op = req[r].op
      BY <1>1, <2>2, <3>2 DEF Effect, RunInv, Ran, Reserves, Claims, Starts, Saves, LosesCharge,
         Returns, GoesOn, Resets, Settles, Becomes, Keeps, GivesBack
    <3>4. QED
      BY <2>2, <3>1, <3>3 DEF RunInv, Ran, Settles
  <2>3. \A r \in Requests : HasClaim(r) =>
          taskStatus = "generating" /\ \A s \in Requests : HasClaim(s) => s = r
    BY <2>2 DEF ClaimInv, SavedIsPaid
  <2>4. CASE Claims(t)
    BY <2>1, <2>3, <2>4 DEF Claims
  <2>5. CASE Saves(t)
    <3>1. HasClaim(t) /\ ~HasClaim(t)'
      BY <2>5 DEF Saves, HasClaim, RunInv
    <3>2. QED
      BY <2>1, <2>3, <3>1
  <2>6. CASE Resets(t)
    <3>1. ~req[t].saved
      <4> SUFFICES ASSUME req[t].saved PROVE FALSE
        OBVIOUS
      <4>1. /\ req[t].op \in Ops /\ op[req[t].op].state # "settled"
            /\ op'[req[t].op].state = op[req[t].op].state
        BY <2>6 DEF RunInv, Ran, Resets, Keeps
      <4>2. req'[t].saved /\ req'[t].pc = "ended" /\ req'[t].op = req[t].op
        BY <1>1, <2>6 DEF Effect, Resets, Reserves
      <4>3. QED
        BY <1>1, <4>1, <4>2 DEF SavedIsPaid
    <3>2. HasClaim(t) /\ ~HasClaim(t)'
      BY <2>6, <3>1 DEF Resets, HasClaim
    <3>3. QED
      BY <2>1, <2>3, <3>2
  <2>7. CASE taskStatus' = taskStatus /\ (HasClaim(t)' => HasClaim(t))
    BY <2>1, <2>3, <2>7
  <2>8. \/ taskStatus' = taskStatus /\ (HasClaim(t)' => HasClaim(t))
        \/ Claims(t) \/ Saves(t) \/ Resets(t)
    BY <1>1 DEF Effect, RunInv, HasClaim, Reserves, Starts, Settles, LosesCharge, Returns,
       GoesOn, Over
  <2>9. QED
    BY <2>4, <2>5, <2>6, <2>7, <2>8
<1>2. CASE op' = op /\ req' = req /\ taskStatus' = taskStatus
  BY <1>2 DEF ClaimInv, HasClaim, SavedIsPaid
<1>3. QED
  BY <1>1, <1>2, RowInvStep DEF RunInv, ClaimInv

(* Two requests never generate at the same time, and no tree is saved over *)
(* another that is being generated, whoever fails, is aborted or crashes,  *)
(* whatever keys are shared and whenever periods end, as long as the trees *)
(* that were saved were paid for.                                          *)
THEOREM OneGeneratorTheorem == GenSpec => []OneGenerator
<1>1. GenInit => ClaimInv
  BY DEF GenInit, ClaimInv, HasClaim
<1>2. ClaimInv /\ RunInv => OneGenerator
  BY DEF ClaimInv, RunInv, HasClaim, OneGenerator, SavedIsPaid, At
<1>3. RunInv /\ ClaimInv /\ [GenNext]_genVars => ClaimInv'
  BY ClaimInvStep
<1>4. QED
  BY <1>1, <1>2, <1>3, RunInvAlways, PTL DEF GenSpec

-----------------------------------------------------------------------------
(* Who answers for an operation.                                           *)

Party(r, o) == r \in Requests /\ req[r].op = o

(* A request that still has to settle the operation or to give it back; a  *)
(* crashed one never will.                                                 *)
Holder(r, o) ==
  /\ Party(r, o) /\ req[r].seen = "reserved"
  /\ \/ op[o].state = "reserved" /\ req[r].pc \in {"waiting", "claimed", "crashed"}
     \/ op[o].state = "running"
        /\ req[r].pc \in {"generating", "saved", "unsettled", "crashed"}

(* A live operation whose period runs has a holder, or a party that met an *)
(* error where it would have given it back; a settled one has a saved tree.*)
Answered(o) ==
  /\ op[o].state \in {"none", "reserved", "running", "settled", "released", "quarantined"}
  /\ op[o].state = "none" => \A r : ~Party(r, o)
  /\ op[o].state \in {"reserved", "running"} /\ ValidPeriod(Owner[o]) =>
       \E r : Holder(r, o) \/ (Party(r, o) /\ Leaks(r))
  /\ op[o].state = "settled" => \E r : Party(r, o) /\ req[r].saved

(* A request gives back what it runs, for it saw it reserved.              *)
SeenInv ==
  \A r \in Requests :
    /\ req[r].pc = "start" => req[r].op = NULL
    /\ req[r].pc \in {"waiting", "claimed"} /\ req[r].seen # "reserved" =>
         op[req[r].op].state \notin {"none", "reserved"}
    /\ req[r].pc \in {"generating", "saved", "unsettled"} => req[r].seen = "reserved"

(* Nobody disturbs a request that has its operation to itself.             *)
Alone(r) == \A s : Party(s, req[r].op) => s = r

Unbillable(r) == ~ValidPeriod(Owner[req[r].op]) \/ "settle" \in req[r].thrown

AloneInv ==
  \A r \in Requests : req[r].pc # "start" /\ Alone(r) =>
    /\ req[r].pc \in {"generating", "saved"} => op[req[r].op].state = "running"
    /\ req[r].saved /\ req[r].pc \notin {"saved", "crashed"} =>
         op[req[r].op].state = "settled" \/ Unbillable(r)

PartyInv == SeenInv /\ AloneInv /\ \A o \in Ops : Answered(o)

-----------------------------------------------------------------------------
(* A party stays one and keeps what it saw, saved and met.                 *)
LEMMA PartyStays ==
  ASSUME RunInv, SeenInv, NEW t \in Requests, Effect(t), NEW r, NEW o \in Ops, Party(r, o)
  PROVE  /\ Party(r, o)' /\ req'[r].seen = req[r].seen
         /\ req[r].saved => req'[r].saved
         /\ Leaks(r) => Leaks(r)'
         /\ r # t => req'[r] = req[r]
<1>1. r \in Requests /\ req[r].pc # "start"
  BY GenerationAssumption DEF Party, SeenInv
<1>2. CASE r # t
  BY <1>1, <1>2 DEF Effect, Party, Leaks
<1>3. CASE r = t
  <2>1. ~Reserves(t)
    BY <1>1, <1>3 DEF Reserves
  <2>2. QED
    BY <1>1, <1>3, <2>1 DEF Effect, Party, Leaks
<1>4. QED
  BY <1>2, <1>3

LEMMA SeenInvStep ==
  ASSUME RunInv, SeenInv, [CreditNext]_creditVars, NEW t \in Requests, Effect(t)
  PROVE  SeenInv'
<1> USE GenerationAssumption
<1>1. ASSUME NEW o \in Ops, op[o].state \notin {"none", "reserved"}
      PROVE  op'[o].state \notin {"none", "reserved"}
  BY <1>1, StatesMoveOn DEF RunInv, RowInv
<1>2. ASSUME NEW r \in Requests, r # t
      PROVE  /\ req'[r].pc = "start" => req'[r].op = NULL
             /\ req'[r].pc \in {"waiting", "claimed"} /\ req'[r].seen # "reserved" =>
                  op'[req'[r].op].state \notin {"none", "reserved"}
             /\ req'[r].pc \in {"generating", "saved", "unsettled"} => req'[r].seen = "reserved"
  <2>1. req'[r] = req[r]
    BY <1>2 DEF Effect
  <2>2. req[r].pc \notin {"start"} \cup Over => req[r].op \in Ops
    BY DEF RunInv, RowInv, HasOperation
  <2>3. QED
    BY <1>1, <2>1, <2>2 DEF SeenInv, Over
<1>3. req'[t].pc # "start"
  BY DEF Effect, Reserves, Claims, Starts, Saves, Settles, LosesCharge, Returns, GoesOn, Resets
<1>4. ASSUME req'[t].pc \in {"waiting", "claimed"}, req'[t].seen # "reserved"
      PROVE  op'[req'[t].op].state \notin {"none", "reserved"}
  <2>1. CASE Reserves(t)
    BY <1>4, <2>1 DEF Reserves, IsActive, Active, Keeps, Becomes
  <2>2. CASE Claims(t)
    BY <1>1, <1>4, <2>2 DEF Claims, Effect, Reserves, SeenInv, Over
  <2>3. QED
    BY <1>4, <2>1, <2>2 DEF Effect, Starts, Saves, Settles, LosesCharge, Returns, GoesOn, Resets
<1>5. ASSUME req'[t].pc \in {"generating", "saved", "unsettled"}
      PROVE  req'[t].seen = "reserved"
  <2>1. CASE Starts(t)
    BY <2>1 DEF Starts, Effect, Reserves, SeenInv
  <2>2. CASE Saves(t) \/ LosesCharge(t)
    BY <2>2 DEF Saves, LosesCharge, Effect, Reserves, SeenInv
  <2>3. QED
    BY <1>5, <2>1, <2>2 DEF Effect, Reserves, Claims, Settles, Returns, GoesOn, Resets
<1>6. QED
  BY <1>2, <1>3, <1>4, <1>5 DEF SeenInv

(* A holder goes on holding, gives the operation back, or meets an error.  *)
LEMMA HolderStep ==
  ASSUME RunInv, SeenInv, HoldsCanReturn, NEW t \in Requests, Effect(t),
         NEW o \in Ops, ValidPeriod(Owner[o]), Holder(t, o),
         op'[o].state \in {"reserved", "running"}
  PROVE  Holder(t, o)' \/ Leaks(t)'
<1> USE GenerationAssumption
<1>1. /\ Party(t, o)' /\ req'[t].seen = "reserved" /\ req[t].op = o /\ req[t].seen = "reserved"
      /\ op[o].state \in {"reserved", "running"} /\ req[t].pc # "start"
  BY PartyStays DEF Holder, Party
<1>2. CanRelease(o)
  BY <1>1, NotRefused DEF RunInv, RowInv, IsActive, Active
<1>3. CASE Claims(t) \/ Saves(t)
  BY <1>1, <1>3 DEF Claims, Saves, Keeps, Holder
<1>4. CASE Starts(t)
  BY <1>1, <1>4 DEF Starts, Becomes, Holder
<1>5. CASE Settles(t)
  BY <1>1, <1>5 DEF Settles, Becomes
<1>6. CASE LosesCharge(t)
  BY <1>1, <1>6 DEF LosesCharge, Becomes, Keeps, Holder
<1>7. CASE Returns(t)
  BY <1>1, <1>2, <1>7 DEF Returns, GivesBack, Becomes, Leaks
<1>8. CASE GoesOn(t)
  <2>1. op'[o].state = op[o].state
    BY <1>8 DEF GoesOn, Keeps
  <2>2. CASE req'[t].pc = "crashed"
    BY <1>1, <2>1, <2>2 DEF Holder
  <2>3. CASE req'[t].pc # "crashed"
    BY <1>1, <1>8, <2>3 DEF GoesOn, Holder, Leaks
  <2>4. QED
    BY <2>2, <2>3
<1>9. CASE Resets(t)
  BY <1>9 DEF Resets, Holder
<1>10. QED
  BY <1>1, <1>3, <1>4, <1>5, <1>6, <1>7, <1>8, <1>9 DEF Effect, Reserves

LEMMA AnsweredStep ==
  ASSUME RunInv, SeenInv, HoldsCanReturn, [CreditNext]_creditVars,
         NEW t \in Requests, Effect(t), NEW o \in Ops, Answered(o)
  PROVE  Answered(o)'
<1> USE GenerationAssumption
<1>1. Owner[o] \in Accounts
  BY CreditAssumption
<1>2. ValidPeriod(Owner[o])' => ValidPeriod(Owner[o])
  BY <1>1, CreditKeepsPeriods DEF RunInv, RowInv
<1>3. ASSUME NEW r, Party(r, o)
      PROVE  /\ Party(r, o)' /\ req'[r].seen = req[r].seen
             /\ req[r].saved => req'[r].saved
             /\ Leaks(r) => Leaks(r)'
             /\ r # t => req'[r] = req[r]
  BY <1>3, PartyStays
<1>4. CASE Reserves(t) /\ req'[t].op = o
  <2>1. CASE op[o].state = "none" /\ Becomes(o, "reserved")
    <3>1. op'[o].state = "reserved" /\ Holder(t, o)'
      BY <1>4, <2>1 DEF Reserves, Becomes, Holder, Party
    <3>2. QED
      BY <3>1 DEF Answered
  <2>2. CASE IsActive(o) /\ Keeps
    <3>1. op'[o].state = op[o].state /\ op[o].state \in {"reserved", "running"}
      BY <2>2 DEF Answered, IsActive, Active, Keeps
    <3>2. ASSUME ValidPeriod(Owner[o])'
          PROVE  \E r : Holder(r, o)' \/ (Party(r, o)' /\ Leaks(r)')
      <4>1. PICK w : Holder(w, o) \/ (Party(w, o) /\ Leaks(w))
        BY <1>2, <3>1, <3>2 DEF Answered
      <4>2. Party(w, o) /\ w # t
        BY <1>4, <4>1 DEF Holder, Party, Reserves, SeenInv
      <4>3. QED
        BY <1>3, <3>1, <4>1, <4>2 DEF Holder
    <3>3. QED
      BY <3>1, <3>2 DEF Answered
  <2>3. QED
    BY <1>4, <2>1, <2>2 DEF Reserves
<1>5. CASE ~(Reserves(t) /\ req'[t].op = o)
  <2>1. op'[o].state \in {"none", "reserved", "running", "settled", "released", "quarantined"}
    BY DEF Answered, Effect, Reserves, Claims, Starts, Saves, Settles, LosesCharge, Returns,
       GoesOn, Resets, GivesBack, Becomes, Keeps
  <2>2. ASSUME op'[o].state = "none", NEW r, Party(r, o)' PROVE FALSE
    <3>1. op[o].state = "none"
      BY <2>2, StatesMoveOn DEF RunInv, RowInv, Answered, Effect, Reserves, Claims, Starts,
         Saves, Settles, LosesCharge, Returns, GoesOn, Resets, GivesBack, Becomes, Keeps
    <3>2. ~Party(r, o) /\ r \in Requests
      BY <2>2, <3>1 DEF Answered, Party
    <3>3. QED
      BY <1>5, <2>2, <3>2 DEF Effect, Party
  <2>3. ASSUME op'[o].state \in {"reserved", "running"}, ValidPeriod(Owner[o])'
        PROVE  \E r : Holder(r, o)' \/ (Party(r, o)' /\ Leaks(r)')
    <3>1. op[o].state \in {"reserved", "running"}
      BY <1>5, <2>3 DEF Answered, Effect, Reserves, Claims, Starts, Saves, Settles, LosesCharge,
         Returns, GoesOn, Resets, GivesBack, Becomes, Keeps
    <3>2. PICK w : Holder(w, o) \/ (Party(w, o) /\ Leaks(w))
      BY <1>2, <2>3, <3>1 DEF Answered
    <3>3. CASE Party(w, o) /\ Leaks(w)
      BY <1>3, <3>3
    <3>4. CASE Holder(w, o) /\ w = t
      BY <1>2, <1>3, <2>3, <3>4, HolderStep DEF Holder
    <3>5. CASE Holder(w, o) /\ w # t
      <4>1. Party(w, o)' /\ req'[w] = req[w]
        BY <1>3, <3>5 DEF Holder
      <4>2. CASE op'[o].state = op[o].state
        BY <3>5, <4>1, <4>2 DEF Holder
      <4>3. CASE op'[o].state # op[o].state
        <5>1. Starts(t) /\ req[t].op = o /\ req'[t].op = o
          BY <1>5, <2>3, <4>3 DEF Effect, Reserves, Claims, Starts, Saves, Settles, LosesCharge,
             Returns, GoesOn, Resets, GivesBack, Becomes, Keeps
        <5>2. req[t].seen = "reserved" /\ req'[t].seen = "reserved"
          BY <5>1 DEF Starts, SeenInv, Effect, Reserves
        <5>3. Holder(t, o)'
          BY <5>1, <5>2 DEF Holder, Party, Starts, Becomes
        <5>4. QED
          BY <5>3
      <4>4. QED
        BY <4>2, <4>3
    <3>6. QED
      BY <3>2, <3>3, <3>4, <3>5
  <2>4. ASSUME op'[o].state = "settled" PROVE \E r : Party(r, o)' /\ req'[r].saved
    <3>1. CASE op[o].state = "settled"
      BY <1>3, <3>1 DEF Answered
    <3>2. CASE op[o].state # "settled"
      <4>1. Settles(t) /\ req[t].op = o /\ req'[t].op = o /\ req'[t].saved
        BY <2>4, <3>2 DEF Effect, RunInv, Reserves, Claims, Starts, Saves, Settles, LosesCharge,
           Returns, GoesOn, Resets, GivesBack, Becomes, Keeps
      <4>2. QED
        BY <4>1 DEF Party
    <3>3. QED
      BY <3>1, <3>2
  <2>5. QED
    BY <2>1, <2>2, <2>3, <2>4 DEF Answered
<1>6. QED
  BY <1>4, <1>5

LEMMA AloneInvStep ==
  ASSUME RunInv, SeenInv, AloneInv, HoldsCanReturn, [CreditNext]_creditVars,
         NEW t \in Requests, Effect(t)
  PROVE  AloneInv'
<1> USE GenerationAssumption
<1> SUFFICES ASSUME NEW r \in Requests, req'[r].pc # "start", Alone(r)'
             PROVE  /\ req'[r].pc \in {"generating", "saved"} =>
                          op'[req'[r].op].state = "running"
                    /\ req'[r].saved /\ req'[r].pc \notin {"saved", "crashed"} =>
                         op'[req'[r].op].state = "settled" \/ Unbillable(r)'
  BY DEF AloneInv
<1>1. CASE Ran(r)' /\ Ran(r)
  <2>0. PICK o \in Ops : o = req[r].op
    BY <1>1 DEF RunInv
  <2>1. /\ Party(r, o) /\ req[r].pc # "start" /\ Owner[o] \in Accounts /\ req[r].op = o
    BY <1>1, <2>0, CreditAssumption DEF RunInv, Ran, Party, SeenInv
  <2>2. req'[r].op = o /\ req[r].thrown \subseteq req'[r].thrown
    BY <2>1, PartyStays DEF Party, Effect
  <2>3. Alone(r)
    <3>1. ASSUME NEW s, Party(s, o) PROVE s = r
      <4>1. Party(s, o)'
        BY <2>1, <3>1, PartyStays
      <4>2. QED
        BY <2>2, <4>1 DEF Alone
    <3>2. QED
      BY <2>1, <3>1 DEF Alone
  <2>4. ValidPeriod(Owner[o])' => ValidPeriod(Owner[o])
    BY <2>1, CreditKeepsPeriods DEF RunInv, RowInv
  <2>5. Unbillable(r) => Unbillable(r)'
    BY <2>1, <2>2, <2>4 DEF Unbillable
  <2>6. CASE r # t
    <3>1. req'[r] = req[r]
      BY <2>6 DEF Effect
    <3>2. req[t].op # o /\ req'[t].op # o
      BY <2>1, <2>2, <2>3, <2>6 DEF Alone, Party
    <3>3. op'[o].state = op[o].state
      BY <2>1, <3>2 DEF Effect, Reserves, Claims, Starts, Saves, Settles, LosesCharge, Returns,
         GoesOn, Resets, GivesBack, Becomes, Keeps
    <3>4. QED
      BY <2>1, <2>3, <2>5, <3>1, <3>3 DEF AloneInv
  <2>7. CASE r = t
    <3>1. CASE Saves(t)
      BY <2>1, <2>2, <2>3, <2>7, <3>1 DEF AloneInv, Saves, Keeps
    <3>2. CASE Settles(t)
      BY <2>1, <2>2, <2>7, <3>2 DEF Settles, Becomes
    <3>3. CASE LosesCharge(t)
      <4>1. IsActive(o)
        BY <2>1, <2>3, <2>7, <3>3 DEF AloneInv, LosesCharge, IsActive, Active
      <4>2. CanSettle(o, 0) \/ ~ValidPeriod(Owner[o])
        BY <2>1, <4>1, NotRefused DEF RunInv, RowInv
      <4>3. ~ValidPeriod(Owner[o])' \/ "settle" \in req'[r].thrown
        BY <2>1, <2>4, <2>7, <3>3, <4>2 DEF LosesCharge
      <4>4. Unbillable(r)'
        BY <2>2, <4>3 DEF Unbillable
      <4>5. QED
        BY <2>7, <3>3, <4>4 DEF LosesCharge
    <3>4. CASE Returns(t) \/ GoesOn(t) \/ Resets(t)
      <4>1. (req'[t].saved <=> req[t].saved) /\ req'[t].pc \notin {"generating", "saved"}
        BY <3>4 DEF Effect, Returns, GoesOn, Resets
      <4>2. op[o].state = "settled" => op'[o].state = "settled"
        BY <2>1, <2>7, <3>4
        DEF Returns, GoesOn, Resets, GivesBack, Becomes, Keeps, CanRelease, IsActive, Active
      <4>3. req[t].saved /\ req'[t].pc \notin {"saved", "crashed"} =>
              req[t].pc \notin {"saved", "crashed"}
        BY <3>4 DEF Returns, GoesOn, Resets, Over
      <4>4. QED
        BY <2>1, <2>2, <2>3, <2>5, <2>7, <4>1, <4>2, <4>3 DEF AloneInv
    <3>5. QED
      BY <1>1, <2>1, <2>7, <3>1, <3>2, <3>3, <3>4
      DEF Effect, RunInv, Ran, Reserves, Claims, Starts
  <2>8. QED
    BY <2>6, <2>7
<1>2. CASE Ran(r)' /\ ~Ran(r)
  <2>1. r = t
    BY <1>2 DEF Effect, Ran
  <2>2. Starts(t)
    BY <1>2, <2>1 DEF Effect, Ran, Reserves, Claims, Saves, Settles, LosesCharge, Returns,
       GoesOn, Resets
  <2>3. req'[t].pc = "generating" /\ op'[req'[t].op].state = "running" /\ ~req'[t].saved
    BY <2>2 DEF Starts, Effect, Reserves, Becomes, RunInv
  <2>4. QED
    BY <2>1, <2>3
<1>3. CASE ~Ran(r)'
  BY <1>3 DEF Ran
<1>4. QED
  BY <1>1, <1>2, <1>3

LEMMA PartyInvAlways == GenSpec => []PartyInv
<1> USE GenerationAssumption
<1>1. GenInit => PartyInv
  <2> SUFFICES ASSUME GenInit PROVE PartyInv
    OBVIOUS
  <2>1. \A r \in Requests : req[r].pc = "start" /\ req[r].op = NULL
    BY DEF GenInit
  <2>2. \A o \in Ops : op[o].state = "none"
    BY DEF GenInit, Init, NoRow
  <2>3. QED
    BY <2>1, <2>2 DEF PartyInv, SeenInv, AloneInv, Answered, Party
<1>2. RunInv /\ PartyInv /\ HoldsCanReturn /\ [GenNext]_genVars => PartyInv'
  <2> SUFFICES ASSUME RunInv, PartyInv, HoldsCanReturn, [GenNext]_genVars PROVE PartyInv'
    OBVIOUS
  <2>1. [CreditNext]_creditVars /\ TypeOK
    BY RowInvStep DEF RunInv, RowInv
  <2>2. CASE \E t \in Requests : Effect(t)
    BY <2>1, <2>2, SeenInvStep, AloneInvStep, AnsweredStep DEF PartyInv
  <2>3. CASE op' = op /\ req' = req
    <3>1. \A o \in Ops : ValidPeriod(Owner[o])' => ValidPeriod(Owner[o])
      BY <2>1, CreditAssumption, CreditKeepsPeriods
    <3>2. SeenInv' /\ \A o \in Ops : Answered(o)'
      BY <2>3, <3>1 DEF PartyInv, SeenInv, Answered, Holder, Party, Leaks
    <3>3. ASSUME NEW r \in Requests, req[r].saved, Unbillable(r) PROVE Unbillable(r)'
      BY <2>3, <3>1, <3>3 DEF Unbillable, RunInv, Ran
    <3>4. AloneInv'
      BY <2>3, <3>3 DEF PartyInv, AloneInv, Alone, Party
    <3>5. QED
      BY <3>2, <3>4 DEF PartyInv
  <2>4. QED
    BY <2>2, <2>3, RowInvStep DEF RunInv
<1>3. QED
  BY <1>1, <1>2, RunInvAlways, GenReturnTheorem, PTL DEF GenSpec

(* When all requests of an operation have ended, aborted or not and however *)
(* many share it, it is over, unless its period was or a statement by which *)
(* one of them would have given it back met an error; it is charged only    *)
(* for a saved tree; and a tree whose request has the operation to itself   *)
(* is paid for, unless the period was over or the settlement met an error.  *)
THEOREM SquareTheorem == GenSpec => []EndedIsSquare
<1>1. ASSUME RunInv, PartyInv, NEW o \in Ops,
             {r \in Requests : req[r].op = o} # {},
             \A r \in {s \in Requests : req[s].op = o} : At(r, "ended")
      PROVE  /\ IsActive(o) /\ ValidPeriod(Owner[o]) =>
                  \E r \in {s \in Requests : req[s].op = o} : Leaks(r)
             /\ op[o].state = "settled" =>
                  \E r \in {s \in Requests : req[s].op = o} : req[r].saved
             /\ \A r \in {s \in Requests : req[s].op = o} :
                  {s \in Requests : req[s].op = o} = {r} /\ req[r].saved
                     /\ op[o].state # "settled" =>
                    ~ValidPeriod(Owner[o]) \/ "settle" \in req[r].thrown
  <2>1. Answered(o) /\ \A r : Party(r, o) => req[r].pc = "ended"
    BY <1>1 DEF PartyInv, Party, At
  <2>2. IsActive(o) /\ ValidPeriod(Owner[o]) => \E r : Party(r, o) /\ Leaks(r)
    BY <2>1 DEF Answered, Holder, IsActive, Active
  <2>3. op[o].state = "settled" => \E r : Party(r, o) /\ req[r].saved
    BY <2>1 DEF Answered
  <2>4. ASSUME NEW r \in Requests, {s \in Requests : req[s].op = o} = {r}, req[r].saved,
               op[o].state # "settled"
        PROVE  ~ValidPeriod(Owner[o]) \/ "settle" \in req[r].thrown
    <3>1. req[r].op = o /\ Alone(r) /\ req[r].pc = "ended"
      BY <2>1, <2>4 DEF Alone, Party
    <3>2. QED
      BY <1>1, <2>4, <3>1 DEF PartyInv, AloneInv, Unbillable
  <2>5. QED
    BY <2>2, <2>3, <2>4 DEF Party
<1>2. RunInv /\ PartyInv => EndedIsSquare
  BY <1>1 DEF EndedIsSquare
<1>3. QED
  BY <1>2, RunInvAlways, PartyInvAlways, PTL

-----------------------------------------------------------------------------
(***************************************************************************)
(* Subscriptions.  An order is granted once and only if it was paid, a     *)
(* success is final, paid time adds up, and free allowances do not pile    *)
(* up.                                                                     *)
(***************************************************************************)

Paid == {"paid", "reversed"}

(* What ties an order's row to the order at Midtrans: nothing is open      *)
(* there before the request that checks it out is done with its row, and   *)
(* only a settled order succeeds or is being granted.                      *)
OrderInv ==
  \A p \in Orders :
    /\ checkout[p] \in {"new", "checked", "created"} => gateway[p] = "none"
    /\ payment[p].status = "success" => gateway[p] \in Paid
    /\ p \in granting => /\ IsTopUp(p) /\ gateway[p] \in Paid
                         /\ payment[p].status \in {"pending", "failed"}

GrantInv == SubTypeOK /\ OrderInv /\ GrantedOnce

-----------------------------------------------------------------------------
(* Types.                                                                  *)

LEMMA SubInitType == SubInit => SubTypeOK
<1> SUFFICES ASSUME SubInit PROVE SubTypeOK
  OBVIOUS
<1> USE CreditAssumption, SubscriptionAssumption
<1>1. TypeOK
  BY InitType DEF SubInit
<1>2. periodStart \in [Accounts -> Times]
  BY DEF SubInit, Times
<1>3. payment \in [Orders -> [status : Statuses, createdAt : Nat]]
  BY DEF SubInit, Statuses
<1>4. plan \in [Accounts -> Plans]
  BY DEF SubInit
<1>5. QED
  BY <1>1, <1>2, <1>3, <1>4 DEF SubInit, SubTypeOK

(* A credit transaction leaves the period alone and the clock runs on.     *)
LEMMA CreditKeepsPeriod ==
  ASSUME TypeOK, CreditNext
  PROVE  periodEnd' = periodEnd /\ now' >= now /\ now \in Nat /\ now' \in Nat
<1>1. now \in Nat
  BY CreditAssumption DEF TypeOK
<1>2. ASSUME NEW o \in Ops, OpNext(o) PROVE UNCHANGED <<now, periodEnd>>
  BY <1>2 DEF OpNext, Reserve, MarkRunning, Settle, Release, Quarantine, Refund
<1>3. ASSUME NEW s \in Sweepers, SweepNext(s) PROVE UNCHANGED <<now, periodEnd>>
  BY <1>3 DEF SweepNext, SweepClaim, SweepTryRelease, SweepTryQuarantine, SweepRelease,
     SweepReleaseFails, SweepQuarantine, SweepThrows, SweepCrash
<1>4. CASE Tick
  BY <1>1, <1>4 DEF Tick
<1>5. QED
  BY <1>1, <1>2, <1>3, <1>4 DEF CreditNext

(* The end of the period a purchase pays for.                              *)
LEMMA PurchaseEndIsLater ==
  ASSUME SubTypeOK, NEW a \in Accounts
  PROVE  /\ PurchaseEnd(a) \in Nat
         /\ PurchaseEnd(a) >= now + Period
         /\ periodEnd[a] # NULL => PurchaseEnd(a) >= periodEnd[a] + Period
<1>1. now \in Nat /\ Period \in Nat /\ periodEnd[a] \in Nat \cup {NULL}
  BY CreditAssumption, SubscriptionAssumption DEF SubTypeOK, TypeOK
<1>2. QED
  BY <1>1 DEF PurchaseEnd, ValidPeriod

(* How an order's row, its request and its order at Midtrans change.       *)
OrderTypes ==
  /\ payment \in [Orders -> [status : Statuses, createdAt : Nat]]
  /\ checkout \in [Orders -> {"new", "checked", "created", "done", "refused"}]
  /\ gateway \in [Orders -> {"none", "open", "paid", "closed", "reversed"}]
  /\ granting \in SUBSET Orders
  /\ grants \in [Orders -> Nat]
  /\ \A p \in Orders :
       payment[p].status = "none" <=> checkout[p] \in {"new", "checked"}

AccountTypes ==
  /\ plan \in [Accounts -> Plans]
  /\ periodStart \in [Accounts -> Times]
  /\ reader \in [Readers -> [account : Accounts, at : Nat] \cup {NULL}]
  /\ term \in [Accounts -> SUBSET Orders]
  /\ rollovers \in [Accounts -> Nat]

LEMMA SubTypeParts == SubTypeOK <=> TypeOK /\ OrderTypes /\ AccountTypes
BY DEF SubTypeOK, OrderTypes, AccountTypes

LEMMA OrderTypesStep ==
  ASSUME TypeOK, OrderTypes, OrderInv, NEW p \in Orders, OrderNext(p)
  PROVE  OrderTypes'
<1> USE DEF OrderTypes, Statuses
<1>0. now \in Nat
  BY CreditAssumption DEF TypeOK
<1>1. CASE CheckoutStart(p)
  <2>1. \A q \in StaleOrders(Buyer[p]) : q \in Orders /\ payment[q].status = "pending"
    BY DEF StaleOrders
  <2>2. payment' \in [Orders -> [status : Statuses, createdAt : Nat]]
    BY <1>1 DEF CheckoutStart
  <2>3. \A q \in Orders : payment'[q].status = "none" <=> payment[q].status = "none"
    BY <1>1, <2>1 DEF CheckoutStart
  <2>4. QED
    BY <1>1, <2>2, <2>3 DEF CheckoutStart
<1>2. CASE CheckoutInsert(p)
  BY <1>0, <1>2 DEF CheckoutInsert
<1>3. CASE CheckoutDone(p)
  BY <1>3 DEF CheckoutDone
<1>4. CASE CheckoutRefused(p)
  BY <1>4 DEF CheckoutRefused
<1>5. CASE GatewayMoves(p)
  BY <1>5 DEF GatewayMoves
<1>6. CASE ApplyPayment(p)
  BY <1>6 DEF ApplyPayment, Grant
<1>7. CASE TopUpRead(p)
  BY <1>7 DEF TopUpRead
<1>8. CASE TopUpWrite(p)
  <2>1. payment[p].status # "none"
    BY <1>8 DEF TopUpWrite, OrderInv
  <2>2. QED
    BY <1>8, <2>1 DEF TopUpWrite, Grant
<1>9. CASE TopUpLost(p)
  BY <1>9 DEF TopUpLost
<1>10. CASE NotifyClosed(p)
  BY <1>10 DEF NotifyClosed
<1>11. QED
  BY <1>1, <1>2, <1>3, <1>4, <1>5, <1>6, <1>7, <1>8, <1>9, <1>10 DEF OrderNext

(* What an order's step does to the account.                               *)
LEMMA OrderAccountStep ==
  ASSUME TypeOK, OrderTypes, OrderInv, AccountTypes, NEW p \in Orders, OrderNext(p)
  PROVE  TypeOK' /\ AccountTypes'
<1> USE CreditAssumption, SubscriptionAssumption
<1> DEFINE a == Buyer[p]
<1>0. a \in Accounts /\ now \in Nat
  BY DEF TypeOK
<1>1. CASE ApplyPayment(p)
  <2>1. Sku[p] \in PaidPlans /\ PlanCredits[Sku[p]] \in Nat
    BY <1>1 DEF ApplyPayment, IsTopUp, Plans
  <2>2. PurchaseEnd(a) \in Nat
    BY <1>0, SubTypeParts, PurchaseEndIsLater
  <2>3. wallet' \in [Accounts -> [credits : Nat, used : Int, reserved : Nat]]
    BY <1>0, <1>1, <2>1 DEF ApplyPayment, TypeOK
  <2>4. periodEnd' \in [Accounts -> Nat \cup {NULL}]
    BY <1>0, <1>1, <2>2 DEF ApplyPayment, TypeOK
  <2>5. periodStart' \in [Accounts -> Times]
    BY <1>0, <1>1 DEF ApplyPayment, AccountTypes, Times
  <2>6. plan' \in [Accounts -> Plans]
    BY <1>0, <1>1, <2>1 DEF ApplyPayment, AccountTypes, Plans
  <2>7. term' \in [Accounts -> SUBSET Orders]
    BY <1>0, <1>1 DEF ApplyPayment, AccountTypes
  <2>8. TypeOK'
    BY <1>1, <2>3, <2>4 DEF ApplyPayment, TypeOK
  <2>9. QED
    BY <1>1, <2>5, <2>6, <2>7, <2>8 DEF ApplyPayment, AccountTypes
<1>2. CASE TopUpWrite(p)
  <2>1. wallet' \in [Accounts -> [credits : Nat, used : Int, reserved : Nat]]
    <3>1. wallet[a].credits + PackCredits[Sku[p]] \in Nat
      <4>1. Sku[p] \in Packs
        BY <1>2 DEF TopUpWrite, OrderInv, IsTopUp
      <4>2. QED
        BY <1>0, <4>1 DEF TypeOK
    <3>2. QED
      BY <1>0, <1>2, <3>1 DEF TopUpWrite, TypeOK
  <2>2. QED
    BY <1>2, <2>1 DEF TopUpWrite, TypeOK, AccountTypes
<1>3. CASE UNCHANGED <<creditVars, plan, periodStart, reader, term, rollovers>>
  BY <1>3 DEF creditVars, TypeOK, AccountTypes
<1>4. QED
  BY <1>1, <1>2, <1>3 DEF OrderNext, CheckoutStart, CheckoutInsert, CheckoutDone,
     CheckoutRefused, GatewayMoves, TopUpRead, TopUpLost, NotifyClosed

LEMMA AccountStep ==
  ASSUME TypeOK, AccountTypes, AccountNext
  PROVE  /\ TypeOK' /\ AccountTypes'
         /\ UNCHANGED <<now, payment, checkout, gateway, granting, grants>>
<1> USE CreditAssumption, SubscriptionAssumption
<1>0. now \in Nat /\ PlanCredits["free"] \in Nat
  BY DEF TypeOK, Plans
<1>1. ASSUME NEW a \in Accounts, NEW at \in Nat, Refreshed(a, at)
      PROVE  /\ periodEnd' \in [Accounts -> Nat \cup {NULL}]
             /\ periodStart' \in [Accounts -> Times]
  BY <1>1 DEF Refreshed, TypeOK, AccountTypes, Times
<1>2. ASSUME NEW a \in Accounts, CancelSubscription(a)
      PROVE  /\ TypeOK' /\ AccountTypes'
             /\ UNCHANGED <<now, payment, checkout, gateway, granting, grants>>
  <2>1. wallet' \in [Accounts -> [credits : Nat, used : Int, reserved : Nat]]
    <3> DEFINE rich == [wallet EXCEPT ![a].credits = PlanCredits["free"]]
    <3>1. rich \in [Accounts -> [credits : Nat, used : Int, reserved : Nat]]
      BY <1>0 DEF TypeOK
    <3>2. wallet' = [rich EXCEPT ![a].used = 0]
      BY <1>2 DEF CancelSubscription, TypeOK
    <3> HIDE DEF rich
    <3>3. QED
      BY <3>1, <3>2
  <2>2. TypeOK'
    BY <1>0, <1>1, <1>2, <2>1 DEF CancelSubscription, TypeOK
  <2>3. plan' \in [Accounts -> Plans] /\ term' \in [Accounts -> SUBSET Orders]
    BY <1>2 DEF CancelSubscription, AccountTypes, Plans
  <2>4. QED
    BY <1>0, <1>1, <1>2, <2>2, <2>3 DEF CancelSubscription, AccountTypes
<1>3. ASSUME NEW r \in Readers, NEW a \in Accounts, RolloverRead(r, a)
      PROVE  /\ TypeOK' /\ AccountTypes'
             /\ UNCHANGED <<now, payment, checkout, gateway, granting, grants>>
  <2>1. reader' \in [Readers -> [account : Accounts, at : Nat] \cup {NULL}]
    BY <1>0, <1>3 DEF RolloverRead, AccountTypes
  <2>2. QED
    BY <1>3, <2>1 DEF RolloverRead, TypeOK, AccountTypes, creditVars
<1>4. ASSUME NEW r \in Readers, RolloverWrite(r)
      PROVE  /\ TypeOK' /\ AccountTypes'
             /\ UNCHANGED <<now, payment, checkout, gateway, granting, grants>>
  <2> DEFINE a == reader[r].account
             at == reader[r].at
  <2>1. a \in Accounts /\ at \in Nat
    BY <1>4 DEF RolloverWrite, AccountTypes
  <2>2. reader' \in [Readers -> [account : Accounts, at : Nat] \cup {NULL}]
    BY <1>4 DEF RolloverWrite, AccountTypes
  <2>3. CASE RolloverDue(a, at)
    <3>1. wallet' \in [Accounts -> [credits : Nat, used : Int, reserved : Nat]]
      BY SMTT(30), <1>0, <1>4, <2>1, <2>3 DEF RolloverWrite, TypeOK
    <3>2. rollovers' \in [Accounts -> Nat]
      BY <1>4, <2>1, <2>3 DEF RolloverWrite, AccountTypes
    <3>3. Refreshed(a, at)
      BY <1>4, <2>3 DEF RolloverWrite
    <3>4. TypeOK'
      BY <1>1, <1>4, <2>1, <3>1, <3>3 DEF RolloverWrite, TypeOK
    <3>5. QED
      BY <1>1, <1>4, <2>1, <2>2, <3>2, <3>3, <3>4 DEF RolloverWrite, AccountTypes
  <2>4. CASE ~RolloverDue(a, at)
    BY <1>4, <2>2, <2>4 DEF RolloverWrite, TypeOK, AccountTypes
  <2>5. QED
    BY <2>3, <2>4
<1>5. QED
  BY <1>2, <1>3, <1>4 DEF AccountNext

-----------------------------------------------------------------------------
(* Orders.                                                                 *)

(* No step of an order lets a row succeed, or a grant begin, without a     *)
(* settlement, and the entries of the ledger follow the success mark.      *)
LEMMA OrderStep ==
  ASSUME GrantInv, NEW p \in Orders, OrderNext(p)
  PROVE  OrderInv' /\ GrantedOnce'
<1> USE DEF GrantInv, OrderInv, GrantedOnce, OrderTypes, Statuses, IsTopUp, Paid
<1>0. OrderTypes
  BY SubTypeParts
<1>1. CASE CheckoutStart(p)
  <2>1. \A q \in Orders : payment'[q].status \in {payment[q].status, "failed"}
    BY <1>0, <1>1 DEF CheckoutStart
  <2>2. \A q \in Orders : payment[q].status = "success" => payment'[q].status = "success"
    BY <1>0, <1>1 DEF CheckoutStart, StaleOrders
  <2>3. \A q \in Orders : q \in granting => payment'[q] = payment[q]
    BY <1>0, <1>1 DEF CheckoutStart
  <2>4. \A q \in Orders : checkout'[q] \in {checkout[q], "checked"}
                       /\ (checkout'[q] # checkout[q] => checkout[q] = "new")
    BY <1>0, <1>1 DEF CheckoutStart
  <2>5. OrderInv'
    BY <1>0, <1>1, <2>1, <2>3, <2>4 DEF CheckoutStart
  <2>6. GrantedOnce'
    BY <1>0, <1>1, <2>1, <2>2 DEF CheckoutStart
  <2>7. QED
    BY <2>5, <2>6
<1>2. CASE CheckoutInsert(p)
  BY <1>0, <1>2 DEF CheckoutInsert
<1>3. CASE CheckoutDone(p)
  BY <1>0, <1>3 DEF CheckoutDone
<1>4. CASE CheckoutRefused(p)
  BY <1>0, <1>4 DEF CheckoutRefused
<1>5. CASE GatewayMoves(p)
  BY <1>0, <1>5 DEF GatewayMoves
<1>6. CASE ApplyPayment(p)
  BY <1>0, <1>6 DEF ApplyPayment, Grant, Settled
<1>7. CASE TopUpRead(p)
  BY <1>0, <1>7 DEF TopUpRead, Settled
<1>8. CASE TopUpWrite(p)
  BY <1>0, <1>8 DEF TopUpWrite, Grant
<1>9. CASE TopUpLost(p)
  BY <1>0, <1>9 DEF TopUpLost
<1>10. CASE NotifyClosed(p)
  BY <1>0, <1>10 DEF NotifyClosed
<1>11. QED
  BY <1>1, <1>2, <1>3, <1>4, <1>5, <1>6, <1>7, <1>8, <1>9, <1>10 DEF OrderNext

LEMMA GrantInit == SubInit => GrantInv
<1> SUFFICES ASSUME SubInit PROVE GrantInv
  OBVIOUS
<1>1. SubTypeOK
  BY SubInitType
<1>2. OrderInv /\ GrantedOnce
  BY DEF SubInit, OrderInv, GrantedOnce
<1>3. QED
  BY <1>1, <1>2 DEF GrantInv

LEMMA GrantStep ==
  ASSUME GrantInv, [SubNext]_allVars
  PROVE  GrantInv'
<1>0. TypeOK /\ OrderTypes /\ AccountTypes /\ OrderInv /\ GrantedOnce
  BY SubTypeParts DEF GrantInv
<1>1. CASE CreditNext /\ UNCHANGED subVars
  <2>1. TypeOK'
    BY <1>0, <1>1, TypeStep
  <2>2. SubTypeOK'
    BY <1>0, <1>1, <2>1 DEF subVars, SubTypeOK, OrderTypes, AccountTypes
  <2>3. QED
    BY <1>0, <1>1, <2>2 DEF subVars, GrantInv, OrderInv, GrantedOnce
<1>2. ASSUME NEW p \in Orders, OrderNext(p) PROVE GrantInv'
  <2>1. OrderTypes'
    BY <1>0, <1>2, OrderTypesStep
  <2>2. TypeOK' /\ AccountTypes'
    BY <1>0, <1>2, OrderAccountStep
  <2>3. SubTypeOK'
    BY <2>1, <2>2 DEF SubTypeOK, OrderTypes, AccountTypes
  <2>4. QED
    BY <1>2, <2>3, OrderStep DEF GrantInv
<1>3. CASE AccountNext
  <2>1. /\ TypeOK' /\ AccountTypes'
        /\ UNCHANGED <<now, payment, checkout, gateway, granting, grants>>
    BY <1>0, <1>3, AccountStep
  <2>2. SubTypeOK'
    BY <1>0, <2>1 DEF SubTypeOK, OrderTypes, AccountTypes
  <2>3. QED
    BY <1>0, <2>1, <2>2 DEF GrantInv, OrderInv, GrantedOnce
<1>4. CASE UNCHANGED allVars
  <2>1. TypeOK'
    BY <1>0, <1>4 DEF allVars, creditVars, TypeOK
  <2>2. SubTypeOK'
    BY <1>0, <1>4, <2>1 DEF allVars, subVars, SubTypeOK, OrderTypes, AccountTypes
  <2>3. QED
    BY <1>0, <1>4, <2>2 DEF allVars, subVars, GrantInv, OrderInv, GrantedOnce
<1>5. QED
  BY <1>1, <1>2, <1>3, <1>4 DEF SubNext

(* Types, for the record of the columns and of the requests.               *)
THEOREM SubTypeTheorem == SubSpec => []SubTypeOK
<1>1. GrantInv => SubTypeOK
  BY DEF GrantInv
<1>2. QED
  BY <1>1, GrantInit, GrantStep, PTL DEF SubSpec

(* An order is granted once, and marked success when it is.                *)
THEOREM GrantedOnceTheorem == SubSpec => []GrantedOnce
<1>1. GrantInv => GrantedOnce
  BY DEF GrantInv
<1>2. QED
  BY <1>1, GrantInit, GrantStep, PTL DEF SubSpec

(* Nothing is granted that Midtrans has not reported settled.              *)
THEOREM PaidTheorem == SubSpec => []GrantedOnlyIfPaid
<1>1. GrantInv => GrantedOnlyIfPaid
  BY DEF GrantInv, OrderInv, GrantedOnce, GrantedOnlyIfPaid, Paid
<1>2. QED
  BY <1>1, GrantInit, GrantStep, PTL DEF SubSpec

-----------------------------------------------------------------------------
(* A success is final.                                                     *)

LEMMA FinalStep ==
  ASSUME GrantInv, [SubNext]_allVars,
         NEW p \in Orders, payment[p].status = "success"
  PROVE  payment'[p] = payment[p]
<1>0. TypeOK /\ OrderTypes /\ AccountTypes /\ OrderInv /\ GrantedOnce
  BY SubTypeParts DEF GrantInv
<1> USE DEF OrderInv, OrderTypes, Paid
<1>1. ASSUME NEW q \in Orders, OrderNext(q) PROVE payment'[p] = payment[p]
  <2>1. CASE CheckoutStart(q)
    BY <1>0, <2>1 DEF CheckoutStart, StaleOrders
  <2>2. CASE CheckoutInsert(q)
    BY <1>0, <2>2 DEF CheckoutInsert
  <2>3. CASE CheckoutRefused(q)
    BY <1>0, <2>3 DEF CheckoutRefused
  <2>4. CASE ApplyPayment(q)
    BY <1>0, <2>4 DEF ApplyPayment, Grant
  <2>5. CASE TopUpRead(q)
    BY <1>0, <2>5 DEF TopUpRead
  <2>6. CASE TopUpWrite(q)
    BY <1>0, <2>6 DEF TopUpWrite, Grant
  <2>7. CASE NotifyClosed(q)
    BY <1>0, <2>7 DEF NotifyClosed
  <2>8. CASE UNCHANGED payment
    BY <2>8
  <2>9. QED
    BY <1>1, <2>1, <2>2, <2>3, <2>4, <2>5, <2>6, <2>7, <2>8
    DEF OrderNext, CheckoutDone, GatewayMoves, TopUpLost
<1>2. CASE AccountNext
  BY <1>0, <1>2, AccountStep
<1>3. CASE UNCHANGED payment
  BY <1>3
<1>4. QED
  BY <1>1, <1>2, <1>3 DEF SubNext, allVars, subVars

(* No later notification, checkout or error takes a success back.          *)
THEOREM FinalTheorem == SubSpec => SuccessIsFinal
<1>1. GrantInv /\ [SubNext]_allVars =>
        [\A p \in Orders :
           payment[p].status = "success" => payment'[p] = payment[p]]_allVars
  BY FinalStep
<1>2. QED
  BY <1>1, GrantInit, GrantStep, PTL DEF SubSpec, SuccessIsFinal

-----------------------------------------------------------------------------
(* Paid time.                                                              *)

(* The orders of a term were granted, and it ends late enough for them.    *)
TermInv ==
  \A a \in Accounts :
    /\ \A p \in term[a] : payment[p].status = "success"
    /\ IsFiniteSet(term[a])
    /\ term[a] # {} => periodEnd[a] # NULL
    /\ term[a] # {} => periodEnd[a] >= Period * Cardinality(term[a])

(* A term is not touched, and its period does not get shorter.             *)
TermKept(a) ==
  /\ term'[a] = term[a]
  /\ periodEnd'[a] = periodEnd[a] \/ (periodEnd'[a] \in Nat /\
       (periodEnd[a] # NULL => periodEnd'[a] >= periodEnd[a]))

LEMMA TermKeptStep ==
  ASSUME GrantInv, TermInv, [SubNext]_allVars, NEW a \in Accounts, TermKept(a)
  PROVE  /\ \A p \in term'[a] : payment'[p].status = "success"
         /\ IsFiniteSet(term'[a])
         /\ term'[a] # {} => periodEnd'[a] # NULL
         /\ term'[a] # {} => periodEnd'[a] >= Period * Cardinality(term'[a])
<1>1. \A p \in term[a] : p \in Orders
  BY SubTypeParts DEF GrantInv, AccountTypes
<1>2. \A p \in term[a] : payment'[p].status = "success"
  BY <1>1, FinalStep DEF TermInv
<1>3. periodEnd[a] \in Nat \cup {NULL} /\ NULL \notin Int /\ Period \in Nat
  BY CreditAssumption, SubscriptionAssumption, SubTypeParts DEF GrantInv, TypeOK
<1>4. Cardinality(term[a]) \in Nat
  BY FS_CardinalityType DEF TermInv
<1>5. Period * Cardinality(term[a]) \in Nat
  BY <1>3, <1>4
<1> DEFINE bound == Period * Cardinality(term[a])
<1>6. term[a] # {} => periodEnd[a] # NULL /\ periodEnd[a] >= bound
  BY DEF TermInv
<1> HIDE DEF bound
<1>7. term[a] # {} => periodEnd'[a] # NULL /\ periodEnd'[a] >= bound
  BY <1>3, <1>5, <1>6 DEF TermKept, bound
<1>8. QED
  BY <1>2, <1>7 DEF TermInv, TermKept, bound

LEMMA TermStep ==
  ASSUME GrantInv, TermInv, [SubNext]_allVars
  PROVE  TermInv'
<1>0. TypeOK /\ OrderTypes /\ AccountTypes /\ OrderInv
  BY SubTypeParts DEF GrantInv
<1>p. Period \in Nat \ {0} /\ NULL \notin Int /\ now \in Nat
  BY <1>0, CreditAssumption, SubscriptionAssumption DEF TypeOK
<1> SUFFICES ASSUME NEW a \in Accounts
             PROVE  /\ \A p \in term'[a] : payment'[p].status = "success"
                    /\ IsFiniteSet(term'[a])
                    /\ term'[a] # {} => periodEnd'[a] # NULL
                    /\ term'[a] # {} => periodEnd'[a] >= Period * Cardinality(term'[a])
  BY DEF TermInv
<1> DEFINE Goal == /\ \A p \in term'[a] : payment'[p].status = "success"
                   /\ IsFiniteSet(term'[a])
                   /\ term'[a] # {} => periodEnd'[a] # NULL
                   /\ term'[a] # {} => periodEnd'[a] >= Period * Cardinality(term'[a])
<1>1. CASE TermKept(a)
  BY <1>1, TermKeptStep
<1>2. ASSUME NEW p \in Orders, ApplyPayment(p), Buyer[p] = a PROVE Goal
  <2> DEFINE old == Cardinality(term[a])
             end == PurchaseEnd(a)
  <2>1. p \notin term[a] /\ term'[a] = term[a] \cup {p} /\ periodEnd'[a] = end
    BY <1>0, <1>2 DEF ApplyPayment, TermInv, AccountTypes, TypeOK
  <2>2. IsFiniteSet(term'[a]) /\ Cardinality(term'[a]) = old + 1 /\ old \in Nat
    BY <2>1, FS_AddElement, FS_CardinalityType DEF TermInv
  <2>3. /\ end \in Nat /\ end >= now + Period
        /\ periodEnd[a] # NULL => end >= periodEnd[a] + Period
    BY PurchaseEndIsLater DEF GrantInv
  <2>4. term[a] = {} => old = 0
    BY FS_EmptySet
  <2>5. \A q \in term'[a] : payment'[q].status = "success"
    <3>1. payment'[p].status = "success"
      BY <1>0, <1>2 DEF ApplyPayment, Grant, OrderTypes
    <3>2. \A q \in term[a] : q \in Orders
      BY <1>0 DEF AccountTypes
    <3>3. \A q \in term[a] : payment'[q].status = "success"
      BY <3>2, FinalStep DEF TermInv
    <3>4. QED
      BY <2>1, <3>1, <3>3
  <2>6. Period * (old + 1) = Period * old + Period /\ Period * old \in Nat
    BY <1>p, <2>2
  <2>7. end >= Period * old + Period
    <3>1. CASE term[a] = {}
      BY <1>p, <2>3, <2>4, <3>1
    <3>2. CASE term[a] # {}
      <4>1. periodEnd[a] # NULL /\ periodEnd[a] >= Period * old
        BY <3>2 DEF TermInv
      <4>2. periodEnd[a] \in Nat
        BY <1>0, <4>1 DEF TypeOK
      <4> HIDE DEF old, end
      <4>3. QED
        BY <1>p, <2>3, <2>6, <4>1, <4>2
    <3>3. QED
      BY <3>1, <3>2
  <2>8. QED
    BY <1>p, <2>1, <2>2, <2>3, <2>5, <2>6, <2>7
<1>3. CASE CancelSubscription(a)
  <2>1. term'[a] = {}
    BY <1>0, <1>3 DEF CancelSubscription, AccountTypes
  <2>2. QED
    BY <2>1, FS_EmptySet
<1>4. CASE CreditNext /\ UNCHANGED subVars
  BY <1>0, <1>1, <1>4, CreditKeepsPeriod DEF subVars, TermKept
<1>5. CASE UNCHANGED allVars
  BY <1>1, <1>5 DEF allVars, creditVars, subVars, TermKept
<1>6. ASSUME NEW p \in Orders, OrderNext(p) PROVE Goal
  <2>1. CASE ApplyPayment(p)
    <3>1. CASE Buyer[p] = a
      BY <1>2, <2>1, <3>1
    <3>2. CASE Buyer[p] # a
      <4>1. term'[a] = term[a] /\ periodEnd'[a] = periodEnd[a]
        BY <1>0, <2>1, <3>2 DEF ApplyPayment, AccountTypes, TypeOK
      <4>2. QED
        BY <1>1, <4>1 DEF TermKept
    <3>3. QED
      BY <3>1, <3>2
  <2>2. CASE UNCHANGED <<periodEnd, term>>
    BY <1>1, <2>2 DEF TermKept
  <2>3. QED
    BY <1>6, <2>1, <2>2 DEF OrderNext, CheckoutStart, CheckoutInsert, CheckoutDone,
       CheckoutRefused, GatewayMoves, TopUpRead, TopUpWrite, TopUpLost, NotifyClosed,
       creditVars
<1>7. ASSUME NEW b \in Accounts, CancelSubscription(b) PROVE Goal
  <2>1. CASE b = a
    BY <1>3, <1>7, <2>1
  <2>2. CASE b # a
    <3>1. term'[a] = term[a] /\ periodEnd'[a] = periodEnd[a]
      BY <1>0, <1>7, <2>2 DEF CancelSubscription, Refreshed, AccountTypes, TypeOK
    <3>2. QED
      BY <1>1, <3>1 DEF TermKept
  <2>3. QED
    BY <2>1, <2>2
<1>8. ASSUME NEW r \in Readers, RolloverWrite(r) PROVE Goal
  <2>1. /\ reader[r].account \in Accounts /\ reader[r].at \in Nat
        /\ periodEnd[a] \in Nat \cup {NULL}
    BY <1>0, <1>8 DEF RolloverWrite, AccountTypes, TypeOK
  <2>2. term'[a] = term[a]
    BY <1>8 DEF RolloverWrite
  <2>3. CASE RolloverDue(reader[r].account, reader[r].at) /\ reader[r].account = a
    <3>1. periodEnd'[a] = reader[r].at + Period
      BY <1>0, <1>8, <2>1, <2>3 DEF RolloverWrite, Refreshed, TypeOK
    <3>2. periodEnd[a] # NULL => periodEnd[a] < reader[r].at
      BY <2>3 DEF RolloverDue
    <3>3. TermKept(a)
      BY <1>p, <2>1, <2>2, <3>1, <3>2 DEF TermKept
    <3>4. QED
      BY <1>1, <3>3
  <2>4. CASE ~RolloverDue(reader[r].account, reader[r].at) \/ reader[r].account # a
    <3>1. periodEnd'[a] = periodEnd[a]
      BY <1>0, <1>8, <2>1, <2>4 DEF RolloverWrite, Refreshed, TypeOK
    <3>2. QED
      BY <1>1, <2>2, <3>1 DEF TermKept
  <2>5. QED
    BY <2>3, <2>4
<1>9. ASSUME NEW r \in Readers, NEW b \in Accounts, RolloverRead(r, b) PROVE Goal
  BY <1>1, <1>9 DEF RolloverRead, creditVars, TermKept
<1>10. QED
  BY <1>4, <1>5, <1>6, <1>7, <1>8, <1>9 DEF SubNext, AccountNext

(* Orders granted one after another add up to the time that was paid for.  *)
THEOREM PaidTimeTheorem == SubSpec => []PaidTimeAddsUp
<1>1. SubInit => TermInv
  BY FS_EmptySet DEF SubInit, TermInv
<1>2. TermInv => PaidTimeAddsUp
  BY DEF TermInv, PaidTimeAddsUp
<1>3. QED
  BY <1>1, <1>2, GrantInit, GrantStep, TermStep, PTL DEF SubSpec

-----------------------------------------------------------------------------
(* Free allowances.                                                        *)

(* Refreshes so far fit in the time up to now and in the running period,   *)
(* and a caller of getCreditBalance took its time before now.              *)
Spent(a) == rollovers[a] * (Period + 1)

RollInv ==
  /\ \A a \in Accounts :
       /\ Spent(a) <= now + Period + 1
       /\ rollovers[a] # 0 => periodEnd[a] # NULL /\ Spent(a) <= periodEnd[a] + 1
  /\ \A r \in Readers : reader[r] # NULL => reader[r].at <= now

(* A step that refreshes nothing and makes no period end too early.        *)
Calm(a) ==
  /\ rollovers'[a] = rollovers[a]
  /\ \/ periodEnd'[a] = periodEnd[a]
     \/ periodEnd'[a] \in Nat /\ periodEnd'[a] >= now + Period

LEMMA CalmStep ==
  ASSUME TypeOK, AccountTypes, RollInv, NEW a \in Accounts,
         now' \in Nat, now' >= now, Calm(a)
  PROVE  /\ Spent(a)' <= now' + Period + 1
         /\ rollovers'[a] # 0 => periodEnd'[a] # NULL /\ Spent(a)' <= periodEnd'[a] + 1
<1>1. /\ Period \in Nat /\ NULL \notin Int /\ now \in Nat
      /\ periodEnd[a] \in Nat \cup {NULL} /\ rollovers[a] \in Nat
  BY CreditAssumption, SubscriptionAssumption DEF TypeOK, AccountTypes
<1>2. PICK s \in Nat : s = rollovers[a] * (Period + 1)
  BY <1>1
<1>3. Spent(a) = s /\ Spent(a)' = s
  BY <1>2 DEF Spent, Calm
<1>4. s <= now + Period + 1 /\ (rollovers[a] # 0 => periodEnd[a] # NULL /\ s <= periodEnd[a] + 1)
  BY <1>3 DEF RollInv
<1>5. s <= now' + Period + 1
  BY <1>1, <1>4
<1>6. CASE periodEnd'[a] = periodEnd[a]
  BY <1>3, <1>4, <1>5, <1>6 DEF Calm
<1>7. CASE periodEnd'[a] \in Nat /\ periodEnd'[a] >= now + Period
  <2>1. s <= periodEnd'[a] + 1
    BY <1>1, <1>4, <1>7
  <2>2. periodEnd'[a] # NULL
    BY <1>1, <1>7
  <2>3. QED
    BY <1>3, <1>5, <2>1, <2>2
<1>8. QED
  BY <1>6, <1>7 DEF Calm

LEMMA RollStep ==
  ASSUME GrantInv, RollInv, [SubNext]_allVars
  PROVE  RollInv'
<1>0. TypeOK /\ OrderTypes /\ AccountTypes /\ OrderInv
  BY SubTypeParts DEF GrantInv
<1>p. Period \in Nat \ {0} /\ NULL \notin Int /\ now \in Nat
  BY <1>0, CreditAssumption, SubscriptionAssumption DEF TypeOK
<1>t. now' \in Nat /\ now' >= now
  <2>1. CASE CreditNext /\ UNCHANGED subVars
    BY <1>0, <2>1, CreditKeepsPeriod
  <2>2. ASSUME NEW p \in Orders, OrderNext(p) PROVE now' = now
    BY <2>2 DEF OrderNext, CheckoutStart, CheckoutInsert, CheckoutDone, CheckoutRefused,
       GatewayMoves, ApplyPayment, TopUpRead, TopUpWrite, TopUpLost, NotifyClosed, creditVars
  <2>3. CASE AccountNext
    BY <1>0, <1>p, <2>3, AccountStep
  <2>4. CASE UNCHANGED allVars
    BY <1>p, <2>4 DEF allVars, creditVars
  <2>5. QED
    BY <1>p, <2>1, <2>2, <2>3, <2>4 DEF SubNext
<1> DEFINE Room(a) ==
      /\ Spent(a)' <= now' + Period + 1
      /\ rollovers'[a] # 0 => periodEnd'[a] # NULL /\ Spent(a)' <= periodEnd'[a] + 1
    Early == \A r \in Readers : reader'[r] # NULL => reader'[r].at <= now'
<1>c. ASSUME NEW a \in Accounts, Calm(a) PROVE Room(a)
  BY <1>0, <1>t, <1>c, CalmStep
<1>e. ASSUME \A r \in Readers : reader'[r] \in {reader[r], NULL} PROVE Early
  BY <1>0, <1>p, <1>t, <1>e DEF RollInv, AccountTypes
<1>1. CASE CreditNext /\ UNCHANGED subVars
  <2>1. periodEnd' = periodEnd
    BY <1>0, <1>1, CreditKeepsPeriod
  <2>2. QED
    BY <1>c, <1>e, <1>1, <2>1 DEF subVars, RollInv, Calm
<1>2. CASE UNCHANGED allVars
  BY <1>c, <1>e, <1>2 DEF allVars, creditVars, subVars, RollInv, Calm
<1>3. ASSUME NEW p \in Orders, OrderNext(p) PROVE RollInv'
  <2>1. rollovers' = rollovers /\ reader' = reader
    BY <1>3 DEF OrderNext, CheckoutStart, CheckoutInsert, CheckoutDone, CheckoutRefused,
       GatewayMoves, ApplyPayment, TopUpRead, TopUpWrite, TopUpLost, NotifyClosed
  <2>2. ASSUME NEW a \in Accounts
        PROVE  \/ periodEnd'[a] = periodEnd[a]
               \/ periodEnd'[a] \in Nat /\ periodEnd'[a] >= now + Period
    <3>1. CASE ApplyPayment(p)
      <4>1. PurchaseEnd(Buyer[p]) \in Nat /\ PurchaseEnd(Buyer[p]) >= now + Period
        BY SubscriptionAssumption, PurchaseEndIsLater DEF GrantInv
      <4>2. QED
        BY <1>0, <3>1, <4>1 DEF ApplyPayment, TypeOK
    <3>2. CASE UNCHANGED periodEnd
      BY <3>2
    <3>3. QED
      BY <1>3, <3>1, <3>2 DEF OrderNext, CheckoutStart, CheckoutInsert, CheckoutDone,
         CheckoutRefused, GatewayMoves, TopUpRead, TopUpWrite, TopUpLost, NotifyClosed,
         creditVars
  <2>3. QED
    BY <1>c, <1>e, <2>1, <2>2 DEF RollInv, Calm
<1>4. ASSUME NEW b \in Accounts, CancelSubscription(b) PROVE RollInv'
  <2>1. ASSUME NEW a \in Accounts PROVE Calm(a)
    BY <1>0, <1>p, <1>4 DEF CancelSubscription, Refreshed, TypeOK, Calm
  <2>2. reader' = reader
    BY <1>4 DEF CancelSubscription
  <2>3. QED
    BY <1>c, <1>e, <2>1, <2>2 DEF RollInv
<1>5. ASSUME NEW r \in Readers, NEW b \in Accounts, RolloverRead(r, b) PROVE RollInv'
  <2>1. ASSUME NEW a \in Accounts PROVE Calm(a)
    BY <1>5 DEF RolloverRead, creditVars, Calm
  <2>2. Early
    BY <1>0, <1>p, <1>5 DEF RolloverRead, creditVars, RollInv, AccountTypes
  <2>3. QED
    BY <1>c, <2>1, <2>2 DEF RollInv
<1>6. ASSUME NEW r \in Readers, RolloverWrite(r) PROVE RollInv'
  <2> DEFINE at == reader[r].at
  <2>0. PICK b \in Accounts : b = reader[r].account
    BY <1>0, <1>6 DEF RolloverWrite, AccountTypes
  <2>1. at \in Nat /\ at <= now
    BY <1>0, <1>6 DEF RolloverWrite, AccountTypes, RollInv
  <2>2. Early
    BY <1>e, <1>0, <1>6 DEF RolloverWrite, AccountTypes
  <2>3. ASSUME NEW a \in Accounts, a # b \/ ~RolloverDue(b, at) PROVE Room(a)
    <3>1. Calm(a)
      BY <1>0, <1>6, <2>0, <2>1, <2>3 DEF RolloverWrite, Refreshed, TypeOK, AccountTypes, Calm
    <3>2. QED
      BY <1>c, <3>1
  <2>4. ASSUME RolloverDue(b, at) PROVE Room(b)
    <3> DEFINE k == rollovers[b]
    <3>1. k \in Nat /\ rollovers'[b] = k + 1 /\ periodEnd'[b] = at + Period
      BY <1>0, <1>6, <2>0, <2>1, <2>4 DEF RolloverWrite, Refreshed, TypeOK, AccountTypes
    <3>2. periodEnd[b] # NULL => periodEnd[b] \in Nat /\ periodEnd[b] < at
      BY <1>0, <2>1, <2>4 DEF RolloverDue, TypeOK
    <3> DEFINE s == k * (Period + 1)
    <3>3. s \in Nat /\ (k = 0 => s = 0) /\ (k + 1) * (Period + 1) = s + Period + 1
      BY <1>p, <3>1
    <3>4. k # 0 => periodEnd[b] # NULL /\ s <= periodEnd[b] + 1
      BY <2>1 DEF RollInv, Spent
    <3>5. Spent(b)' = s + Period + 1
      BY <3>1, <3>3 DEF Spent
    <3> HIDE DEF s, k
    <3>6. s <= at
      BY <2>1, <3>1, <3>2, <3>3, <3>4
    <3>7. now' = now
      BY <1>6 DEF RolloverWrite
    <3>8. at + Period # NULL
      BY <1>p, <2>1
    <3>9. QED
      BY <1>p, <2>1, <3>1, <3>3, <3>5, <3>6, <3>7, <3>8
  <2>5. \A a \in Accounts : Room(a)
    BY <2>3, <2>4
  <2>6. QED
    BY <2>2, <2>5 DEF RollInv
<1>7. QED
  BY <1>1, <1>2, <1>3, <1>4, <1>5, <1>6 DEF SubNext, AccountNext

(* However many callers race and however long nobody calls, free           *)
(* allowances come once per period.                                        *)
THEOREM RolloverTheorem == SubSpec => []RolloversDoNotStack
<1>1. SubInit => RollInv
  <2> SUFFICES ASSUME SubInit PROVE RollInv
    OBVIOUS
  <2>1. now \in Nat /\ Period \in Nat
    BY InitType, CreditAssumption, SubscriptionAssumption DEF SubInit, TypeOK
  <2>2. \A a \in Accounts : rollovers[a] = 0
    BY DEF SubInit
  <2>3. \A r \in Readers : reader[r] = NULL
    BY DEF SubInit
  <2>4. QED
    BY <2>1, <2>2, <2>3 DEF RollInv, Spent
<1>2. RollInv => RolloversDoNotStack
  BY DEF RollInv, Spent, RolloversDoNotStack
<1>3. QED
  BY <1>1, <1>2, GrantInit, GrantStep, RollStep, PTL DEF SubSpec

-----------------------------------------------------------------------------
(* Counters reset under operations in flight.                              *)

Affords(a) == Available(a)' >= 0 \/ Available(a)' >= Available(a)

(* Only a reservation lowers the available credits of the service, and it  *)
(* tests them; a settlement charges no more than the hold it returns, and  *)
(* the CHECK sees to it that the aggregate has that hold to return.        *)
LEMMA CoveredStep ==
  ASSUME TypeOK, [CreditNext]_creditVars
  PROVE  \A a \in Accounts : Affords(a)
<1> USE DEF Affords, Available
<1>0. wallet \in [Accounts -> [credits : Nat, used : Int, reserved : Nat]]
  BY DEF TypeOK
<1>1. ASSUME NEW o \in Ops, NEW e \in Expiries, Reserve(o, e)
      PROVE  \A a \in Accounts : Affords(a)
  <2>1. MaxCharge[o] \in Nat /\ Owner[o] \in Accounts
    BY CreditAssumption
  <2>2. QED
    BY <1>0, <1>1, <2>1 DEF Reserve
<1>2. ASSUME NEW o \in Ops, NEW c \in 0 .. MaxCharge[o], Settle(o, c)
      PROVE  \A a \in Accounts : Affords(a)
  <2>1. c \in Nat /\ op[o].reserved \in Nat /\ c <= op[o].reserved
    BY <1>2, CreditAssumption DEF Settle, CanSettle, TypeOK
  <2>2. QED
    BY <1>0, <1>2, <2>1 DEF Settle
<1>3. ASSUME NEW o \in Ops, NEW state, NEW e, Returned(o, state, e)
      PROVE  \A a \in Accounts : Affords(a)
  <2>1. op[o].reserved \in Nat
    BY DEF TypeOK
  <2>2. QED
    BY <1>0, <1>3, <2>1 DEF Returned
<1>4. ASSUME NEW o \in Ops, Refund(o) PROVE \A a \in Accounts : Affords(a)
  <2>1. op[o].charge \in Nat
    BY DEF TypeOK
  <2>2. QED
    BY <1>0, <1>4, <2>1 DEF Refund
<1>5. CASE UNCHANGED wallet
  BY <1>0, <1>5
<1>6. QED
  BY <1>1, <1>2, <1>3, <1>4, <1>5
     DEF CreditNext, OpNext, MarkRunning, SweepNext, SweepClaim, SweepTryRelease,
         SweepTryQuarantine, Release, Quarantine, SweepRelease,
         SweepReleaseFails, SweepQuarantine, SweepThrows, SweepCrash, Tick,
         creditVars

(* A purchase or a rollover starts the account afresh, a top-up adds to    *)
(* it; what is left is the cancellation.                                   *)
LEMMA ResetStep ==
  ASSUME TypeOK, AccountTypes, OrderInv,
         AccountNext \/ \E p \in Orders : OrderNext(p),
         NEW a \in Accounts
  PROVE  Affords(a) \/ CancelSubscription(a)
<1> USE SubscriptionAssumption DEF Affords, Available
<1>0. wallet \in [Accounts -> [credits : Nat, used : Int, reserved : Nat]]
  BY DEF TypeOK
<1>1. ASSUME NEW p \in Orders, OrderNext(p) PROVE Affords(a)
  <2>1. CASE ApplyPayment(p)
    <3>1. Buyer[p] \in Accounts /\ PlanCredits[Sku[p]] \in Nat
      BY <2>1 DEF ApplyPayment, IsTopUp, Plans
    <3>2. QED
      BY <1>0, <2>1, <3>1 DEF ApplyPayment
  <2>2. CASE TopUpWrite(p)
    <3>1. Buyer[p] \in Accounts /\ PackCredits[Sku[p]] \in Nat
      BY <1>1, <2>2 DEF TopUpWrite, OrderInv, IsTopUp
    <3>2. QED
      BY <1>0, <2>2, <3>1 DEF TopUpWrite
  <2>3. CASE UNCHANGED creditVars
    BY <1>0, <2>3 DEF creditVars
  <2>4. QED
    BY <1>1, <2>1, <2>2, <2>3
    DEF OrderNext, CheckoutStart, CheckoutInsert, CheckoutDone, CheckoutRefused,
        GatewayMoves, TopUpRead, TopUpLost, NotifyClosed
<1>2. ASSUME NEW b \in Accounts, CancelSubscription(b), a # b PROVE Affords(a)
  BY <1>0, <1>2 DEF CancelSubscription
<1>3. ASSUME NEW r \in Readers, RolloverWrite(r) PROVE Affords(a)
  <2>1. reader[r].account \in Accounts /\ PlanCredits["free"] \in Nat
    BY <1>3 DEF RolloverWrite, AccountTypes, Plans
  <2>2. QED
    BY <1>0, <1>3, <2>1 DEF RolloverWrite
<1>4. ASSUME NEW r \in Readers, NEW b \in Accounts, RolloverRead(r, b) PROVE Affords(a)
  BY <1>0, <1>4 DEF RolloverRead, creditVars
<1>5. QED
  BY <1>1, <1>2, <1>3, <1>4 DEF AccountNext

(* Purchases, rollovers and cancellations reset the counters under live    *)
(* operations, and yet no late settlement charges the refilled account for *)
(* more than it has: only a cancellation takes it below zero.              *)
THEOREM OverdrawnTheorem == SubSpec => OverdrawnOnlyByCancel
<1>1. GrantInv /\ [SubNext]_allVars =>
        [\A a \in Accounts : Available(a)' < 0 =>
           Available(a)' >= Available(a) \/ CancelSubscription(a)]_allVars
  <2> SUFFICES ASSUME GrantInv, [SubNext]_allVars, NEW a \in Accounts, Available(a)' < 0
               PROVE  Available(a)' >= Available(a) \/ CancelSubscription(a)
    OBVIOUS
  <2>1. TypeOK /\ AccountTypes /\ OrderInv /\ TypeOK'
    BY SubTypeParts, GrantStep DEF GrantInv, SubTypeOK
  <2>2. Available(a)' \in Int
    BY <2>1 DEF TypeOK, Available
  <2>3. CASE [CreditNext]_creditVars
    BY <2>1, <2>2, <2>3, CoveredStep DEF Affords
  <2>4. CASE AccountNext \/ \E p \in Orders : OrderNext(p)
    BY <2>1, <2>2, <2>4, ResetStep DEF Affords
  <2>5. QED
    BY <2>3, <2>4 DEF SubNext, allVars
<1>2. QED
  BY <1>1, GrantInit, GrantStep, PTL DEF SubSpec, OverdrawnOnlyByCancel

-----------------------------------------------------------------------------
(***************************************************************************)
(* BillingCron.  One mail per value of the counter in a paid period.       *)
(***************************************************************************)

Mail == [stage : 0 .. Last, count : 0 .. Last, grants : 0 .. MaxGrants,
         paused : BOOLEAN]

(* A mail belongs to a paid period that has begun, and one of the running  *)
(* period was selected for a value the counter is past.                    *)
CountedInv ==
  /\ CronTypeOK
  /\ mails \in Seq(Mail)
  /\ \A i \in DOMAIN mails :
       /\ mails[i].grants <= sub.grants
       /\ mails[i].grants = sub.grants => mails[i].count < sub.count
  /\ OneMailPerCount

LEMMA LastType == Last \in Nat
BY CronAssumption DEF Last

LEMMA CountedInit == CronInit => CountedInv
<1> SUFFICES ASSUME CronInit PROVE CountedInv
  OBVIOUS
<1> USE CronAssumption, LastType
<1>1. sub \in [paid : BOOLEAN, end : Nat, count : 0 .. Last + 1, grants : 0 .. MaxGrants]
  BY DEF CronInit
<1>2. job \in [Jobs -> [pc : {"idle", "selected", "claimed"}, count : 0 .. Last,
                        stage : 0 .. Last]]
  BY DEF CronInit, NoRun
<1>3. mails \in Seq(Mail) /\ DOMAIN mails = {} /\ day \in 0 .. MaxDay
  BY DEF CronInit
<1>4. QED
  BY <1>1, <1>2, <1>3 DEF CountedInv, CronTypeOK, OneMailPerCount

(* A run that selects the row takes a count within the schedule.           *)
LEMMA SelectStep ==
  ASSUME CountedInv, NEW j \in Jobs, Select(j)
  PROVE  CountedInv'
<1> USE CronAssumption, LastType
<1>1. PICK n \in DueStage :
        job' = [job EXCEPT ![j] = [pc |-> "selected", count |-> sub.count, stage |-> n]]
  BY DEF Select
<1>2. n \in 0 .. Last /\ sub.count \in 0 .. Last
  <2>1. sub.count \in 0 .. Last + 1
    BY DEF CountedInv, CronTypeOK
  <2>2. CASE day <= sub.end
    BY <1>1, <2>1, <2>2 DEF DueStage
  <2>3. CASE ~(day <= sub.end)
    BY <1>1, <2>1, <2>3 DEF DueStage, Reminded
  <2>4. QED
    BY <2>2, <2>3
<1>3. job' \in [Jobs -> [pc : {"idle", "selected", "claimed"}, count : 0 .. Last,
                         stage : 0 .. Last]]
  BY <1>1, <1>2 DEF CountedInv, CronTypeOK
<1>4. QED
  BY <1>3 DEF Select, CountedInv, CronTypeOK, OneMailPerCount

(* The claim appends a mail whose count is the counter's, and moves the    *)
(* counter past it.                                                        *)
LEMMA ClaimStep ==
  ASSUME CountedInv, NEW j \in Jobs, ClaimNotice(j)
  PROVE  CountedInv'
<1> USE CronAssumption, LastType
<1> DEFINE m == [stage |-> job[j].stage, count |-> job[j].count,
                 grants |-> sub.grants, paused |-> day > sub.end]
           row == [paid : BOOLEAN, end : Nat, count : 0 .. Last + 1, grants : 0 .. MaxGrants]
<1>1. /\ sub \in row /\ mails \in Seq(Mail) /\ job[j].count \in 0 .. Last
      /\ job[j].stage \in 0 .. Last /\ day \in 0 .. MaxDay
  BY DEF CountedInv, CronTypeOK
<1>2. m \in Mail
  BY <1>1 DEF Mail
<1>3. mails' = Append(mails, m) /\ sub.count = job[j].count
  BY DEF ClaimNotice
<1> DEFINE len == Len(mails)
<1>4. len \in Nat /\ DOMAIN mails = 1 .. len
  BY <1>1
<1>5. /\ mails' \in Seq(Mail) /\ DOMAIN mails' = 1 .. len + 1
      /\ \A i \in 1 .. len : mails'[i] = mails[i]
      /\ mails'[len + 1] = m
  BY <1>1, <1>2, <1>3, <1>4
<1> HIDE DEF len
<1>6. /\ sub' \in row /\ sub'.count = sub.count + 1 /\ sub'.grants = sub.grants
  <2>1. sub' = [paid |-> sub.paid, end |-> sub.end, count |-> sub.count + 1,
                grants |-> sub.grants]
    BY <1>1 DEF ClaimNotice
  <2>2. sub.count + 1 \in 0 .. Last + 1
    BY <1>1, <1>3
  <2>3. QED
    BY <1>1, <2>1, <2>2
<1>7. job' \in [Jobs -> [pc : {"idle", "selected", "claimed"}, count : 0 .. Last,
                         stage : 0 .. Last]]
  BY DEF ClaimNotice, CountedInv, CronTypeOK
<1>8. ASSUME NEW i \in 1 .. len
      PROVE  /\ mails[i] \in Mail /\ mails[i].grants <= sub.grants
             /\ mails[i].grants = sub.grants => mails[i].count < sub.count
  <2>1. i \in DOMAIN mails
    BY <1>4
  <2>2. /\ mails[i].grants <= sub.grants
        /\ mails[i].grants = sub.grants => mails[i].count < sub.count
    BY <2>1 DEF CountedInv
  <2>3. mails[i] \in Mail
    BY <1>1, <2>1
  <2>4. QED
    BY <2>2, <2>3
<1>9. \A i \in DOMAIN mails' :
        /\ mails'[i] \in Mail
        /\ mails'[i].grants <= sub'.grants
        /\ mails'[i].grants = sub'.grants => mails'[i].count < sub'.count
  <2>1. ASSUME NEW i \in 1 .. len
        PROVE  /\ mails[i] \in Mail /\ mails[i].grants <= sub'.grants
               /\ mails[i].grants = sub'.grants => mails[i].count < sub'.count
    <3>1. mails[i].count \in Int /\ sub.count \in Int
      BY <1>1, <1>8 DEF Mail
    <3>2. mails[i].grants = sub.grants => mails[i].count < sub.count + 1
      BY <1>8, <3>1
    <3>3. QED
      BY <1>6, <1>8, <3>2
  <2>2. /\ m.grants <= sub'.grants /\ m.count < sub'.count
    <3>1. m.grants = sub.grants /\ m.count = sub.count
      BY <1>3
    <3>2. sub.grants \in Int /\ sub.count \in Int
      BY <1>1
    <3> HIDE DEF m
    <3>3. QED
      BY <1>6, <3>1, <3>2
  <2>3. QED
    BY SMTT(30), <1>2, <1>4, <1>5, <2>1, <2>2
<1>10. ASSUME NEW i \in DOMAIN mails', NEW k \in DOMAIN mails', i < k,
              mails'[i].grants = mails'[k].grants
       PROVE  mails'[i].count < mails'[k].count
  <2>1. i \in 1 .. len
    BY <1>4, <1>5, <1>10
  <2>2. CASE k \in 1 .. len
    BY <1>4, <1>5, <1>10, <2>1, <2>2 DEF CountedInv, OneMailPerCount
  <2>3. CASE k = len + 1
    BY <1>3, <1>5, <1>8, <1>10, <2>1, <2>3
  <2>4. QED
    BY <1>4, <1>5, <2>2, <2>3
<1>11. CronTypeOK'
  BY <1>1, <1>6, <1>7, <1>9 DEF ClaimNotice, CronTypeOK, Mail
<1>12. QED
  BY <1>5, <1>9, <1>10, <1>11 DEF CountedInv, OneMailPerCount

(* A renewal begins a period no mail belongs to; a cancellation keeps the  *)
(* counter.                                                                *)
LEMMA RowStep ==
  ASSUME CountedInv, Purchase \/ Cancel
  PROVE  CountedInv'
<1> USE CronAssumption, LastType
<1> DEFINE row == [paid : BOOLEAN, end : Nat, count : 0 .. Last + 1, grants : 0 .. MaxGrants]
<1>1. sub \in row /\ day \in 0 .. MaxDay /\ mails \in Seq(Mail)
  BY DEF CountedInv, CronTypeOK
<1>2. ASSUME Purchase
      PROVE  sub' \in row /\ sub'.grants = sub.grants + 1
  <2>1. PICK end \in Nat : sub' = [paid |-> TRUE, count |-> 0, grants |-> sub.grants + 1,
                                   end |-> end + PeriodDays]
    <3>1. sub.end \in Nat /\ day \in Nat
      BY <1>1
    <3>2. QED
      BY <1>2, <3>1 DEF Purchase
  <2>2. sub.grants + 1 \in 0 .. MaxGrants /\ end + PeriodDays \in Nat
    BY <1>1, <1>2 DEF Purchase
  <2>3. QED
    BY <2>1, <2>2
<1>c. ASSUME Cancel
      PROVE  sub' \in row /\ sub'.grants = sub.grants /\ sub'.count = sub.count
  <2>1. sub' = [paid |-> FALSE, end |-> day + PeriodDays, count |-> sub.count,
                grants |-> sub.grants]
    BY <1>1, <1>c DEF Cancel
  <2>2. day + PeriodDays \in Nat
    BY <1>1
  <2>3. QED
    BY <1>1, <2>1, <2>2
<1>3. \A i \in DOMAIN mails : mails[i].grants \in 0 .. MaxGrants /\ mails[i].grants <= sub.grants
  BY <1>1 DEF CountedInv, CronTypeOK
<1>4. \/ sub'.grants = sub.grants + 1
      \/ sub'.grants = sub.grants /\ sub'.count = sub.count
  BY <1>2, <1>c
<1>5. \A i \in DOMAIN mails :
        /\ mails[i].grants <= sub'.grants
        /\ mails[i].grants = sub'.grants => mails[i].count < sub'.count
  BY <1>1, <1>3, <1>4 DEF CountedInv
<1>6. UNCHANGED <<day, job, mails>>
  BY DEF Purchase, Cancel
<1>7. QED
  BY <1>2, <1>c, <1>5, <1>6 DEF CountedInv, CronTypeOK, OneMailPerCount

LEMMA CountedStep == CountedInv /\ [CronNext]_cronVars => CountedInv'
<1> SUFFICES ASSUME CountedInv, [CronNext]_cronVars PROVE CountedInv'
  OBVIOUS
<1> USE CronAssumption, LastType
<1>1. ASSUME NEW j \in Jobs, Skip(j) \/ Finish(j) PROVE CountedInv'
  <2> DEFINE row == [pc : {"idle", "selected", "claimed"}, count : 0 .. Last,
                     stage : 0 .. Last]
  <2>0. NoRun \in row /\ job \in [Jobs -> row]
    BY DEF NoRun, CountedInv, CronTypeOK
  <2>a. job' = [job EXCEPT ![j] = NoRun]
    BY <1>1 DEF Skip, Finish
  <2> HIDE DEF row
  <2>b. job' \in [Jobs -> row]
    BY <2>0, <2>a
  <2>1. job' \in [Jobs -> [pc : {"idle", "selected", "claimed"}, count : 0 .. Last,
                           stage : 0 .. Last]]
    BY <2>b DEF row
  <2>2. QED
    BY <1>1, <2>1 DEF Skip, Finish, CountedInv, CronTypeOK, OneMailPerCount
<1>2. CASE NextDay
  BY <1>2 DEF NextDay, CountedInv, CronTypeOK, OneMailPerCount
<1>3. CASE UNCHANGED cronVars
  BY <1>3 DEF cronVars, CountedInv, CronTypeOK, OneMailPerCount
<1>4. QED
  BY <1>1, <1>2, <1>3, SelectStep, ClaimStep, RowStep DEF CronNext, JobStep

(* The columns and the runs hold values of the code; in particular no run  *)
(* selects a stage outside the schedule.                                   *)
THEOREM CronTypeTheorem == CronSpec => []CronTypeOK
<1>1. CountedInv => CronTypeOK
  BY DEF CountedInv
<1>2. QED
  BY <1>1, CountedInit, CountedStep, PTL DEF CronSpec

(* However many runs overlap, renewals come in between and servers stop,   *)
(* a value of the counter is mailed once in a paid period.                 *)
THEOREM OneMailTheorem == CronSpec => []OneMailPerCount
<1>1. CountedInv => OneMailPerCount
  BY DEF CountedInv
<1>2. QED
  BY <1>1, CountedInit, CountedStep, PTL DEF CronSpec
=============================================================================
