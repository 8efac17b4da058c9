-------------------------- MODULE CodebaseSyncProofs --------------------------
(***************************************************************************)
(* Theorems about CodebaseSync, for every plan, number of sessions, runs   *)
(* and requests, retries and faults, when no live request outlasts the     *)
(* stale limit of its key: requests of one session never work at the same  *)
(* time, what a run was told is stored is stored, and an uploaded snapshot *)
(* is whole.                                                               *)
(***************************************************************************)
EXTENDS CodebaseSync, FiniteSetTheorems, WellFoundedInduction, TLAPS

NoStall == ~MayStall

-----------------------------------------------------------------------------
(* The plan and the client.                                                *)

LEMMA PlanFacts ==
  /\ Len(Plan) \in Nat \ {0} /\ Steps = 1 .. Len(Plan)
  /\ \A n \in Steps : /\ Kind(n) \in {"manifest", "file", "complete"}
                      /\ Kind(n) = "complete" <=> n = Len(Plan)
                      /\ Kind(n) = "manifest" => Plan[n].files \subseteq File
                      /\ Kind(n) = "file" => Plan[n].chunk \in Chunk
<1> DEFINE Row == [kind : {"manifest"}, files : SUBSET File]
                  \cup [kind : {"file"}, chunk : Chunk] \cup [kind : {"complete"}]
<1>1. Plan \in Seq(Row) /\ OfKind("complete") = {Len(Plan)}
  BY PlanAssumption
<1>2. Len(Plan) \in Nat /\ Steps = 1 .. Len(Plan)
  BY <1>1 DEF Steps
<1>3. \A n \in Steps : Plan[n] \in Row
  BY <1>1 DEF Steps
<1>4. Len(Plan) \in Steps
  BY <1>1 DEF OfKind
<1>5. \A n \in Steps : Kind(n) = "complete" <=> n = Len(Plan)
  BY <1>1 DEF OfKind
<1>6. \A n \in Steps : /\ Kind(n) \in {"manifest", "file", "complete"}
                       /\ Kind(n) = "manifest" => Plan[n].files \subseteq File
                       /\ Kind(n) = "file" => Plan[n].chunk \in Chunk
  BY <1>3 DEF Kind
<1>7. QED
  BY <1>2, <1>4, <1>5, <1>6

(* A repository a plan uploads is finite.                                  *)
LEMMA FileIsFinite == IsFiniteSet(File)
<1>1. IsFiniteSet(OfKind("file"))
  <2>1. IsFiniteSet(1 .. Len(Plan))
    BY PlanFacts, FS_Interval
  <2>2. OfKind("file") \subseteq 1 .. Len(Plan)
    BY PlanFacts DEF OfKind
  <2>3. QED
    BY <2>1, <2>2, FS_Subset
<1>2. {Plan[n].chunk : n \in OfKind("file")} = Chunk
  BY PlanAssumption
<1>3. IsFiniteSet(Chunk)
  <2> DEFINE f == [n \in OfKind("file") |-> Plan[n].chunk]
  <2>1. f \in Surjection(OfKind("file"), Chunk)
    BY <1>2 DEF Surjection
  <2>2. QED
    BY <1>1, <2>1, FS_Surjection DEF ExistsSurjection
<1>4. IsFiniteSet({PathOf[c] : c \in Chunk})
  <2> DEFINE f == [c \in Chunk |-> PathOf[c]]
  <2>1. f \in Surjection(Chunk, {PathOf[c] : c \in Chunk})
    BY DEF Surjection
  <2>2. QED
    BY <1>3, <2>1, FS_Surjection DEF ExistsSurjection
<1>5. QED
  BY <1>4 DEF File

(* A retry goes back, never forward.                                       *)
LEMMA LoopStartIsBefore ==
  ASSUME NEW n \in 0 .. Len(Plan)
  PROVE  LoopStart(n) \in 0 .. n
<1>1. CASE n = 0
  BY <1>1 DEF LoopStart
<1>2. CASE n # 0
  <2> DEFINE T == {m \in 1 .. n : SameLoop(m, n)}
             P(m) == /\ SameLoop(m, n)
                     /\ \A k \in 1 .. (m - 1) : ~SameLoop(k, n)
  <2>1. n \in 1 .. n /\ n \in Nat /\ 1 .. n \subseteq Nat
    BY <1>2, PlanFacts
  <2>2. T \subseteq Nat /\ T # {}
    BY <2>1 DEF SameLoop
  <2>3. PICK x \in T : \A y \in T : ~(<<y, x>> \in OpToRel(<, Nat))
    <3> HIDE DEF T
    <3>1. QED
      BY <2>2, NatLessThanWellFounded, WFMin
  <2>4. \A y \in T : ~(y < x)
    BY <2>2, <2>3 DEF OpToRel
  <2>5. ASSUME NEW k \in 1 .. (x - 1), SameLoop(k, n) PROVE FALSE
    <3>1. x \in 1 .. n /\ k \in 1 .. n /\ k < x
      BY <2>1
    <3>2. k \in T
      BY <2>5, <3>1
    <3>3. QED
      BY <2>4, <3>1, <3>2
  <2>6. x \in 1 .. n /\ P(x)
    BY <2>5
  <2>7. LoopStart(n) = CHOOSE m \in 1 .. n : P(m)
    BY <1>2 DEF LoopStart
  <2> HIDE DEF P, T
  <2>8. LoopStart(n) \in 1 .. n
    BY <2>6, <2>7
  <2>9. QED
    BY <2>1, <2>8
<1>3. QED
  BY <1>1, <1>2

RunnerRow == [state : {"off", "ready", "waiting", "done", "failed"},
              s : Session, at : 0 .. Len(Plan), tries : 1 .. MaxAttempts]

(* What a run in this state has been told is stored.                       *)
Told(run) == {n \in Steps : n < run.at \/ (run.state = "done" /\ n = run.at)}

(* An answer ends the waiting, and only "ok" tells the run anything new.   *)
LEMMA HeardFacts ==
  ASSUME NEW run \in RunnerRow, run.state = "waiting", NEW answer
  PROVE  /\ Heard(run, answer) \in RunnerRow
         /\ Heard(run, answer).s = run.s
         /\ Heard(run, answer).state \notin {"waiting", "off"}
         /\ Told(Heard(run, answer)) \subseteq
              IF answer = "ok" THEN Told(run) \cup {run.at} ELSE Told(run)
<1>0. Len(Plan) \in Nat /\ MaxAttempts \in Nat \ {0} /\ Steps = 1 .. Len(Plan)
  BY PlanFacts, PlanAssumption
<1>1. CASE answer = "ok" /\ run.at = Len(Plan)
  <2>1. Heard(run, answer) = [run EXCEPT !.state = "done"]
    BY <1>1 DEF Heard
  <2>2. QED
    BY <1>0, <1>1, <2>1 DEF RunnerRow, Told
<1>2. CASE answer = "ok" /\ run.at # Len(Plan)
  <2> DEFINE tries == IF LoopStart(run.at + 1) = run.at + 1 THEN 1 ELSE run.tries
  <2>1. Heard(run, answer) = [run EXCEPT !.state = "ready", !.at = run.at + 1, !.tries = tries]
    BY <1>2 DEF Heard, RunnerRow
  <2>2. tries \in 1 .. MaxAttempts /\ run.at + 1 \in 0 .. Len(Plan)
    BY <1>0, <1>2 DEF RunnerRow
  <2> HIDE DEF tries
  <2>3. Heard(run, answer) \in RunnerRow /\ Heard(run, answer).s = run.s
        /\ Heard(run, answer).state = "ready" /\ Heard(run, answer).at = run.at + 1
    BY <2>1, <2>2 DEF RunnerRow
  <2>4. Told(Heard(run, answer)) \subseteq Told(run) \cup {run.at}
    BY <1>0, <2>3 DEF RunnerRow, Told
  <2>5. QED
    BY <1>2, <2>3, <2>4
<1>3. CASE answer = "retry" /\ run.tries < MaxAttempts
  <2>1. Heard(run, answer) = [run EXCEPT !.state = "ready", !.tries = run.tries + 1,
                                         !.at = LoopStart(run.at)]
    BY <1>3 DEF Heard, RunnerRow
  <2>2. LoopStart(run.at) \in 0 .. Len(Plan) /\ LoopStart(run.at) <= run.at
    <3>1. run.at \in 0 .. Len(Plan)
      BY DEF RunnerRow
    <3>2. LoopStart(run.at) \in 0 .. run.at
      BY <3>1, LoopStartIsBefore
    <3>3. QED
      BY <1>0, <3>1, <3>2
  <2>3. run.tries + 1 \in 1 .. MaxAttempts
    BY <1>0, <1>3 DEF RunnerRow
  <2>4. Heard(run, answer) \in RunnerRow /\ Heard(run, answer).s = run.s
        /\ Heard(run, answer).state = "ready" /\ Heard(run, answer).at = LoopStart(run.at)
    BY <2>1, <2>2, <2>3 DEF RunnerRow
  <2>5. Told(Heard(run, answer)) \subseteq Told(run)
    BY <1>0, <2>2, <2>4 DEF RunnerRow, Told
  <2>6. QED
    BY <1>3, <2>4, <2>5
<1>4. CASE answer # "ok" /\ ~(answer = "retry" /\ run.tries < MaxAttempts)
  <2>1. Heard(run, answer) = [run EXCEPT !.state = "failed"]
    BY <1>4 DEF Heard
  <2>2. QED
    BY <1>0, <1>4, <2>1 DEF RunnerRow, Told
<1>5. QED
  BY <1>1, <1>2, <1>3, <1>4

-----------------------------------------------------------------------------
(* A run waits for one request at most, which is its own.                  *)

RequestRow ==
    [pc : {"guard", "handshake", "shaking", "bound", "claim", "check", "write", "advance",
           "commit", "finalize", "release", "throw"},
     s : Session, n : 0 .. Len(Plan), by : SUBSET Runner, status : Status,
     snap : {"none", "uploading", "uploaded"},
     manifest : SUBSET File, rows : SUBSET Chunk]

\* Only the handshake is step 0, and it has a handler of its own.
Placed(row) == row.pc # "guard" => (row.pc \in {"handshake", "shaking"} <=> row.n = 0)

WaitInv ==
    /\ \A r \in Request : request[r] # Idle => Placed(request[r])
    /\ \A r \in Request : request[r] # Idle => \A c \in request[r].by :
           /\ runner[c].state = "waiting"
           /\ runner[c].s = request[r].s /\ runner[c].at = request[r].n
    /\ \A q, r \in Request : request[q] # Idle /\ request[r] # Idle =>
           \A c \in request[q].by \cap request[r].by : q = r

BaseInv == SyncTypeOK /\ WaitInv

LEMMA RowFacts ==
  ASSUME SyncTypeOK, NEW r \in Request
  PROVE  request[r] = Idle \/ request[r] \in RequestRow
BY DEF SyncTypeOK, RequestRow

(* What the end of a request does to the requests and to the runs.         *)
LEMMA AnswerFacts ==
  ASSUME BaseInv, NEW r \in Request, request[r] # Idle, NEW answer, Answer(r, answer)
  PROVE  /\ request' = [request EXCEPT ![r] = Idle]
         /\ runner' \in [Runner -> RunnerRow]
         /\ \A c \in Runner : runner'[c].s = runner[c].s
         /\ \A c \in Runner : runner'[c].state = "off" <=> runner[c].state = "off"
         /\ \A c \in Runner \ request[r].by : runner'[c] = runner[c]
         /\ \A c \in request[r].by :
              /\ runner'[c].state # "waiting"
              /\ Told(runner'[c]) \subseteq
                   IF answer = "ok" THEN Told(runner[c]) \cup {request[r].n}
                                    ELSE Told(runner[c])
<1>1. request[r] \in RequestRow
  BY RowFacts DEF BaseInv
<1>2. runner \in [Runner -> RunnerRow]
  BY DEF BaseInv, SyncTypeOK, RunnerRow
<1>3. request[r].by \subseteq Runner
  BY <1>1 DEF RequestRow
<1>4. ASSUME NEW c \in request[r].by
      PROVE  /\ runner[c] \in RunnerRow /\ runner[c].state = "waiting"
             /\ runner[c].at = request[r].n
             /\ runner'[c] = Heard(runner[c], answer)
  BY <1>2, <1>3 DEF BaseInv, WaitInv, Answer
<1>5. ASSUME NEW c \in request[r].by
      PROVE  /\ runner'[c] \in RunnerRow
             /\ runner'[c].s = runner[c].s
             /\ runner'[c].state \notin {"waiting", "off"}
             /\ Told(runner'[c]) \subseteq
                  IF answer = "ok" THEN Told(runner[c]) \cup {request[r].n}
                                   ELSE Told(runner[c])
  BY <1>4, HeardFacts
<1>6. \A c \in Runner \ request[r].by : runner'[c] = runner[c]
  BY DEF Answer
<1>7. runner' \in [Runner -> RunnerRow]
  <2>1. \A c \in Runner : runner'[c] \in RunnerRow
    BY <1>2, <1>5, <1>6
  <2>2. QED
    BY <2>1 DEF Answer
<1>8. request' = [request EXCEPT ![r] = Idle]
  BY DEF Answer
<1>9. QED
  BY <1>3, <1>4, <1>5, <1>6, <1>7, <1>8

(* A step of the server moves a request on, for the same session and step, *)
(* or ends it.                                                             *)
Moves(r) ==
    /\ request[r] # Idle /\ runner' = runner
    /\ \E row \in RequestRow :
         /\ request' = [request EXCEPT ![r] = row]
         /\ row.s = request[r].s /\ row.n = request[r].n /\ row.by = request[r].by
         /\ Placed(row)

Ends(r) == request[r] # Idle /\ \E answer \in {"ok", "retry", "fatal"} : Answer(r, answer)

Serve(r) == Handle(r) \/ Throw(r) \/ Crash(r)

LEMMA ServedMovesOrEnds ==
  ASSUME BaseInv, NEW r \in Request, Serve(r)
  PROVE  Moves(r) \/ Ends(r)
<1>1. request[r] = Idle \/ request[r] \in RequestRow
  BY RowFacts DEF BaseInv
<1>2. Idle.pc = "idle"
  BY DEF Idle
<1>3. SyncTypeOK
  BY DEF BaseInv
<1>4. ASSUME NEW pc \in {"check", "finalize", "advance", "commit", "release", "throw"},
             request[r].pc \notin {"idle", "guard", "handshake", "shaking"},
             Goto(r, pc), runner' = runner
      PROVE  Moves(r)
  <2> DEFINE row == [request[r] EXCEPT !.pc = pc]
  <2>1. request[r] \in RequestRow
    BY <1>1, <1>2, <1>4
  <2>2. row \in RequestRow /\ row.s = request[r].s /\ row.n = request[r].n
        /\ row.by = request[r].by /\ Placed(row)
    BY <1>2, <1>4, <2>1 DEF RequestRow, Placed, BaseInv, WaitInv
  <2>3. request' = [request EXCEPT ![r] = row]
    BY <1>4 DEF Goto
  <2> HIDE DEF row
  <2>4. QED
    BY <1>2, <1>4, <2>2, <2>3 DEF Moves
<1>5. CASE Refuse(r)
  BY <1>2, <1>5 DEF Refuse, Ends
<1>6. CASE Guard(r)
  <2>1. CASE Answer(r, "fatal")
    BY <1>2, <1>6, <2>1 DEF Guard, Ends
  <2>2. CASE ~Answer(r, "fatal")
    <3> DEFINE row == [request[r] EXCEPT !.status = session[request[r].s].status,
                          !.pc = IF request[r].n = 0 THEN "handshake" ELSE "bound"]
    <3>1. request[r] \in RequestRow /\ request[r].pc = "guard"
      BY <1>1, <1>2, <1>6 DEF Guard
    <3>2. session[request[r].s].status \in Status
      BY <1>3, <3>1 DEF SyncTypeOK, RequestRow
    <3>3. row \in RequestRow /\ row.s = request[r].s /\ row.n = request[r].n
          /\ row.by = request[r].by /\ Placed(row)
      BY <1>2, <3>1, <3>2 DEF RequestRow, Placed, BaseInv, WaitInv
    <3>4. request' = [request EXCEPT ![r] = row] /\ runner' = runner
      BY <1>6, <2>2 DEF Guard
    <3> HIDE DEF row
    <3>5. QED
      BY <1>2, <3>1, <3>3, <3>4 DEF Moves
  <2>3. QED
    BY <2>1, <2>2
<1>7. CASE HandshakeRead(r)
  <2> DEFINE now == session[request[r].s].status
             row == [request[r] EXCEPT !.pc = "shaking",
                        !.status = IF now = "waiting_for_cli" THEN "connected" ELSE now]
  <2>1. request[r] \in RequestRow /\ request[r].pc = "handshake"
    BY <1>1, <1>2, <1>7 DEF HandshakeRead
  <2>2. now \in Status /\ "connected" \in Status
    BY <1>3, <2>1 DEF SyncTypeOK, RequestRow, Status
  <2>3. row \in RequestRow /\ row.s = request[r].s /\ row.n = request[r].n
        /\ row.by = request[r].by /\ Placed(row)
    BY <1>2, <2>1, <2>2 DEF RequestRow, Placed, BaseInv, WaitInv
  <2>4. request' = [request EXCEPT ![r] = row] /\ runner' = runner
    BY <1>7 DEF HandshakeRead
  <2> HIDE DEF row
  <2>5. QED
    BY <1>2, <2>1, <2>3, <2>4 DEF Moves
<1>23. CASE HandshakeWrite(r)
  BY <1>2, <1>23 DEF HandshakeWrite, Ends
<1>8. CASE ReadSnapshot(r)
  <2>1. CASE Answer(r, "fatal")
    BY <1>2, <1>8, <2>1 DEF ReadSnapshot, Ends
  <2>2. CASE ~Answer(r, "fatal")
    <3> DEFINE row == [request[r] EXCEPT !.pc = "claim",
                          !.snap = snapshot[request[r].s].status,
                          !.manifest = snapshot[request[r].s].manifest]
    <3>1. request[r] \in RequestRow /\ request[r].pc = "bound"
      BY <1>1, <1>2, <1>8 DEF ReadSnapshot
    <3>2. snapshot[request[r].s].status \in {"none", "uploading", "uploaded"}
          /\ snapshot[request[r].s].manifest \in SUBSET File
      BY <1>3, <3>1 DEF SyncTypeOK, RequestRow
    <3>3. row \in RequestRow /\ row.s = request[r].s /\ row.n = request[r].n
          /\ row.by = request[r].by /\ Placed(row)
      BY <1>2, <3>1, <3>2 DEF RequestRow, Placed, BaseInv, WaitInv
    <3>4. request' = [request EXCEPT ![r] = row] /\ runner' = runner
      BY <1>8, <2>2 DEF ReadSnapshot
    <3> HIDE DEF row
    <3>5. QED
      BY <1>2, <3>1, <3>3, <3>4 DEF Moves
  <2>3. QED
    BY <2>1, <2>2
<1>9. CASE Claim(r)
  BY <1>4, <1>9 DEF Claim
<1>10. CASE ClaimBusy(r)
  BY <1>2, <1>10 DEF ClaimBusy, Ends
<1>11. CASE Replay(r)
  BY <1>2, <1>11 DEF Replay, Ends
<1>12. CASE CheckUpload(r)
  <2>1. CASE Goto(r, "release")
    BY <1>4, <1>12, <2>1 DEF CheckUpload
  <2>2. CASE ~Goto(r, "release")
    <3> DEFINE row == [request[r] EXCEPT !.pc = "write",
                                         !.rows = snapshot[request[r].s].rows]
    <3>1. request[r] \in RequestRow /\ request[r].pc = "check"
      BY <1>1, <1>2, <1>12 DEF CheckUpload
    <3>2. snapshot[request[r].s].rows \in SUBSET Chunk
      BY <1>3, <3>1 DEF SyncTypeOK, RequestRow
    <3>3. row \in RequestRow /\ row.s = request[r].s /\ row.n = request[r].n
          /\ row.by = request[r].by /\ Placed(row)
      BY <1>2, <3>1, <3>2 DEF RequestRow, Placed, BaseInv, WaitInv
    <3>4. request' = [request EXCEPT ![r] = row] /\ runner' = runner
      BY <1>12, <2>2 DEF CheckUpload
    <3> HIDE DEF row
    <3>5. QED
      BY <1>2, <3>1, <3>3, <3>4 DEF Moves
  <2>3. QED
    BY <2>1, <2>2
<1>13. CASE WriteManifest(r)
  BY <1>4, <1>13 DEF WriteManifest
<1>14. CASE WriteChunk(r)
  BY <1>4, <1>14 DEF WriteChunk
<1>15. CASE AdvanceSession(r)
  BY <1>4, <1>15 DEF AdvanceSession
<1>16. CASE Verify(r)
  BY <1>4, <1>16 DEF Verify
<1>17. CASE Commit(r)
  BY <1>4, <1>17 DEF Commit
<1>18. CASE Finalize(r)
  BY <1>2, <1>18 DEF Finalize, Ends
<1>19. CASE Release(r)
  BY <1>2, <1>19 DEF Release, Ends
<1>20. CASE Throw(r)
  BY <1>4, <1>20 DEF Throw
<1>21. CASE Crash(r)
  BY <1>21 DEF Crash, Ends
<1>22. QED
  BY <1>5, <1>6, <1>7, <1>8, <1>9, <1>10, <1>11, <1>12, <1>13, <1>14, <1>15, <1>16,
     <1>17, <1>18, <1>19, <1>20, <1>21, <1>23 DEF Serve, Handle

SessionRow == [status : Status, consumed : BOOLEAN, late : BOOLEAN, version : BOOLEAN]
SnapshotRow == [status : {"none", "uploading", "uploaded"}, manifest : SUBSET File,
                rows : SUBSET Chunk, count : Nat]

TablesOK ==
    /\ session \in [Session -> SessionRow]
    /\ snapshot \in [Session -> SnapshotRow]
    /\ key \in [Session -> [Steps -> {"free", "pending", "old", "done"}]]
    /\ faults \in 0 .. MaxFaults

LEMMA TablesKept ==
  ASSUME BaseInv, [Next]_vars
  PROVE  TablesOK'
<1>1. TablesOK
  BY DEF BaseInv, SyncTypeOK, TablesOK, SessionRow, SnapshotRow
<1>2. MaxFaults \in Nat /\ {"waiting_for_cli", "connected", "uploading", "uploaded",
                            "expired"} \subseteq Status
  BY PlanAssumption DEF Status, Terminal
<1>3. \A r \in Request : request[r] # Idle => request[r] \in RequestRow
  BY RowFacts DEF BaseInv
<1>4. \A r \in Request : request[r] # Idle =>
        request[r].s \in Session /\ request[r].manifest \in SUBSET File
  BY <1>3 DEF RequestRow
<1>5. \A r \in Request : request[r].pc # "idle" => request[r] # Idle
  BY DEF Idle
<1>6. Cardinality(File) \in Nat
  BY FileIsFinite, FS_CardinalityType
<1>16. \A r \in Request : request[r].pc \notin {"idle", "guard", "handshake", "shaking"} =>
         request[r].n \in Steps
  BY <1>3, PlanFacts DEF Idle, BaseInv, WaitInv, Placed, RequestRow
<1>7. ASSUME NEW s \in Session, Mint(s) PROVE TablesOK'
  BY <1>1, <1>2, <1>7 DEF Mint, TablesOK, SessionRow
<1>8. ASSUME NEW s \in Session, RetryMint(s) PROVE TablesOK'
  BY <1>1, <1>2, <1>8 DEF RetryMint, TablesOK, SessionRow
<1>9. ASSUME NEW s \in Session, ExpireOnRead(s) \/ PassExpiry(s) PROVE TablesOK'
  BY ZenonT(30), <1>1, <1>2, <1>9 DEF ExpireOnRead, PassExpiry, TablesOK, SessionRow
<1>10. ASSUME Revoke PROVE TablesOK'
  BY <1>1, <1>2, <1>10 DEF Revoke, TablesOK, SessionRow
<1>11. ASSUME NEW c \in Runner,
              \/ \E s \in Session : StartRun(c, s)
              \/ \E r \in Request : Send(c, r) \/ GiveUp(c, r)
       PROVE  TablesOK'
  BY <1>1, <1>2, <1>11 DEF StartRun, Send, GiveUp, TablesOK
<1>12. ASSUME NEW s \in Session, NEW n \in Steps, Age(s, n) PROVE TablesOK'
  BY <1>1, <1>12 DEF Age, TablesOK
<1>13. ASSUME NEW r \in Request, Serve(r) PROVE TablesOK'
  <2>1. CASE Refuse(r)
    BY <1>1, <1>2, <1>4, <1>5, <2>1 DEF Refuse, TablesOK, SessionRow
  <2>2. CASE HandshakeWrite(r)
    <3> DEFINE s == request[r].s
    <3>1. s \in Session /\ request[r].status \in Status
      BY <1>3, <1>4, <1>5, <2>2 DEF HandshakeWrite, RequestRow
    <3>2. session' \in [Session -> SessionRow]
      BY <1>1, <2>2, <3>1 DEF HandshakeWrite, TablesOK, SessionRow
    <3>3. snapshot' \in [Session -> SnapshotRow]
      BY <1>1, <2>2, <3>1 DEF HandshakeWrite, TablesOK, SnapshotRow
    <3>4. QED
      BY <1>1, <2>2, <3>2, <3>3 DEF HandshakeWrite, TablesOK
  <2>3. CASE HandshakeRead(r) \/ Guard(r) \/ ReadSnapshot(r) \/ ClaimBusy(r) \/ Replay(r) \/ CheckUpload(r) \/ Verify(r)
    BY <1>1, <2>3 DEF HandshakeRead, Guard, ReadSnapshot, ClaimBusy, Replay, CheckUpload, Verify,
       TablesOK
  <2>4. CASE Claim(r)
    BY <1>1, <2>4 DEF Claim, TablesOK
  <2>5. CASE WriteManifest(r)
    <3>1. request[r].s \in Session /\ request[r].manifest \in SUBSET File
          /\ request[r].n \in Steps
      BY <1>4, <1>5, <1>16, <2>5 DEF WriteManifest
    <3>2. Plan[request[r].n].files \subseteq File
      BY <2>5, <3>1, PlanFacts DEF WriteManifest
    <3>3. QED
      BY <1>1, <2>5, <3>1, <3>2 DEF WriteManifest, TablesOK, SnapshotRow
  <2>6. CASE WriteChunk(r)
    <3>1. request[r].s \in Session /\ request[r].n \in Steps
      BY <1>4, <1>5, <1>16, <2>6 DEF WriteChunk
    <3>2. Plan[request[r].n].chunk \in Chunk
      BY <2>6, <3>1, PlanFacts DEF WriteChunk
    <3>3. snapshot[request[r].s].rows \cup {Plan[request[r].n].chunk} \in SUBSET Chunk
      BY <1>1, <3>1, <3>2 DEF TablesOK, SnapshotRow
    <3>4. snapshot' \in [Session -> SnapshotRow]
      <4>1. CASE snapshot' = snapshot
        BY <1>1, <4>1 DEF TablesOK
      <4>2. CASE snapshot' # snapshot
        <5>1. snapshot' = [snapshot EXCEPT ![request[r].s].rows =
                             snapshot[request[r].s].rows \cup {Plan[request[r].n].chunk}]
          BY <2>6, <4>2 DEF WriteChunk
        <5>2. QED
          BY ZenonT(30), <1>1, <3>1, <3>3, <5>1 DEF TablesOK, SnapshotRow
      <4>3. QED
        BY <4>1, <4>2
    <3>5. QED
      BY <1>1, <2>6, <3>4 DEF WriteChunk, TablesOK
  <2>7. CASE AdvanceSession(r)
    BY <1>1, <1>2, <1>4, <1>5, <2>7 DEF AdvanceSession, TablesOK, SessionRow
  <2>8. CASE Commit(r)
    BY ZenonT(30), <1>1, <1>2, <1>4, <1>5, <1>6, <2>8 DEF Commit, TablesOK, SessionRow, SnapshotRow
  <2>9. CASE Finalize(r) \/ Release(r)
    BY <1>1, <2>9 DEF Finalize, Release, TablesOK
  <2>10. CASE Throw(r) \/ Crash(r)
    BY <1>1, <1>2, <2>10 DEF Throw, Crash, TablesOK
  <2>11. QED
    BY <1>13, <2>1, <2>2, <2>3, <2>4, <2>5, <2>6, <2>7, <2>8, <2>9, <2>10 DEF Serve, Handle
<1>14. CASE UNCHANGED vars
  BY <1>1, <1>14 DEF vars, TablesOK
<1>15. QED
  BY <1>7, <1>8, <1>9, <1>10, <1>11, <1>12, <1>13, <1>14 DEF Next, Browser, Serve

LEMMA BaseStep ==
  ASSUME BaseInv, [Next]_vars
  PROVE  BaseInv'
<1>0. /\ request \in [Request -> {Idle} \cup RequestRow] /\ runner \in [Runner -> RunnerRow]
      /\ WaitInv /\ Idle \notin RequestRow
  BY DEF BaseInv, SyncTypeOK, RequestRow, RunnerRow, Idle
<1>1. ASSUME /\ request' \in [Request -> {Idle} \cup RequestRow]
             /\ runner' \in [Runner -> RunnerRow] /\ WaitInv'
      PROVE  BaseInv'
  BY <1>1, TablesKept DEF BaseInv, SyncTypeOK, TablesOK, SessionRow, SnapshotRow, RequestRow,
     RunnerRow
<1>2. ASSUME NEW r \in Request, Serve(r)
      PROVE  BaseInv'
  <2>1. CASE Moves(r)
    <3>1. PICK row \in RequestRow :
            /\ request' = [request EXCEPT ![r] = row]
            /\ row.s = request[r].s /\ row.n = request[r].n /\ row.by = request[r].by
            /\ Placed(row)
      BY <2>1 DEF Moves
    <3>2. request[r] # Idle /\ runner' = runner
      BY <2>1 DEF Moves
    <3>3. request' \in [Request -> {Idle} \cup RequestRow]
      BY <1>0, <3>1
    <3>4. \A q \in Request : request'[q] = IF q = r THEN row ELSE request[q]
      BY <1>0, <3>1
    <3>5. WaitInv'
      BY <1>0, <3>1, <3>2, <3>4 DEF WaitInv
    <3>6. QED
      BY <1>0, <1>1, <3>2, <3>3, <3>5
  <2>2. CASE Ends(r)
    <3>1. PICK answer \in {"ok", "retry", "fatal"} : Answer(r, answer)
      BY <2>2 DEF Ends
    <3>2. request[r] # Idle
      BY <2>2 DEF Ends
    <3>3. /\ request' = [request EXCEPT ![r] = Idle] /\ runner' \in [Runner -> RunnerRow]
          /\ \A c \in Runner \ request[r].by : runner'[c] = runner[c]
      BY <3>1, <3>2, AnswerFacts
    <3>4. \A q \in Request : request'[q] = IF q = r THEN Idle ELSE request[q]
      BY <1>0, <3>3
    <3>5. \A q \in Request : request[q] # Idle => request[q].by \subseteq Runner
      BY <1>0 DEF RequestRow
    <3>6. ASSUME NEW q \in Request, request'[q] # Idle
          PROVE  /\ request'[q] = request[q] /\ Placed(request[q])
                 /\ \A c \in request[q].by : runner'[c] = runner[c]
      BY <1>0, <3>2, <3>3, <3>4, <3>5, <3>6 DEF WaitInv
    <3>7. WaitInv'
      BY <1>0, <3>6 DEF WaitInv
    <3>8. request' \in [Request -> {Idle} \cup RequestRow]
      BY <1>0, <3>3
    <3>9. QED
      BY <1>1, <3>3, <3>7, <3>8
  <2>3. QED
    BY <1>2, <2>1, <2>2, ServedMovesOrEnds
<1>3. ASSUME NEW c \in Runner, NEW r \in Request, Send(c, r)
      PROVE  BaseInv'
  <2> DEFINE row == [pc |-> "guard", s |-> runner[c].s, n |-> runner[c].at, by |-> {c},
                     status |-> "none", snap |-> "none", manifest |-> {}, rows |-> {}]
  <2>1. row \in RequestRow /\ row.pc = "guard"
    BY <1>0 DEF RequestRow, RunnerRow, Status
  <2>2. runner' = [runner EXCEPT ![c] = [runner[c] EXCEPT !.state = "waiting"]]
        /\ runner[c].state = "ready" /\ request[r] = Idle
        /\ request' = [request EXCEPT ![r] = row]
    BY <1>3 DEF Send
  <2>3. row.s = runner[c].s /\ row.n = runner[c].at /\ row.by = {c}
    OBVIOUS
  <2> HIDE DEF row
  <2>4. request' \in [Request -> {Idle} \cup RequestRow] /\ runner' \in [Runner -> RunnerRow]
    BY <1>0, <2>1, <2>2 DEF RunnerRow
  <2>5. /\ \A q \in Request : request'[q] = IF q = r THEN row ELSE request[q]
        /\ \A d \in Runner : runner'[d] = IF d = c THEN [runner[c] EXCEPT !.state = "waiting"]
                                                   ELSE runner[d]
    BY <1>0, <2>2
  <2>6. \A q \in Request : request[q] # Idle => c \notin request[q].by
                             /\ request[q].by \subseteq Runner
    BY <1>0, <2>2 DEF WaitInv, RequestRow
  <2>7. WaitInv'
    <3>1. runner'[c].state = "waiting" /\ runner'[c].s = row.s /\ runner'[c].at = row.n
      BY <1>0, <2>3, <2>5 DEF RunnerRow
    <3>2. Placed(row)
      BY <2>1 DEF Placed
    <3>3. \A q \in Request : request[q] # Idle => \A d \in request[q].by : runner'[d] = runner[d]
      BY <2>5, <2>6
    <3>4. QED
      BY <1>0, <2>3, <2>5, <2>6, <3>1, <3>2, <3>3 DEF WaitInv
  <2>8. QED
    BY <1>1, <2>4, <2>7
<1>4. ASSUME NEW c \in Runner, NEW r \in Request, GiveUp(c, r)
      PROVE  BaseInv'
  <2>1. /\ request[r] # Idle /\ c \in request[r].by
        /\ runner' = [runner EXCEPT ![c] = Heard(runner[c], "retry")]
        /\ request' = [request EXCEPT ![r].by = {}]
    BY <1>4 DEF GiveUp, WaitsFor
  <2>2. request[r] \in RequestRow /\ runner[c] \in RunnerRow /\ runner[c].state = "waiting"
    BY <1>0, <2>1 DEF WaitInv
  <2>3. Heard(runner[c], "retry") \in RunnerRow
    BY <2>2, HeardFacts
  <2>4. request' \in [Request -> {Idle} \cup RequestRow] /\ runner' \in [Runner -> RunnerRow]
    BY <1>0, <2>1, <2>2, <2>3 DEF RequestRow
  <2>5. \A q \in Request : request[q] # Idle /\ q # r =>
           c \notin request[q].by /\ request[q].by \subseteq Runner
    BY <1>0, <2>1 DEF WaitInv, RequestRow
  <2>6. /\ request'[r].by = {} /\ request'[r].pc = request[r].pc /\ request'[r].n = request[r].n
        /\ \A q \in Request : q # r => request'[q] = request[q]
        /\ \A d \in Runner : d # c => runner'[d] = runner[d]
    BY <1>0, <2>1, <2>2 DEF RequestRow
  <2>7. WaitInv'
    BY <1>0, <2>1, <2>5, <2>6 DEF WaitInv, Placed
  <2>8. QED
    BY <1>1, <2>4, <2>7
<1>5. ASSUME NEW c \in Runner, NEW s \in Session, StartRun(c, s)
      PROVE  BaseInv'
  <2>1. runner' = [runner EXCEPT ![c] = [state |-> "ready", s |-> s, at |-> 0, tries |-> 1]]
        /\ runner[c].state # "waiting" /\ request' = request
    BY <1>5 DEF StartRun
  <2>2. runner' \in [Runner -> RunnerRow]
    BY <1>0, <2>1, PlanFacts, PlanAssumption DEF RunnerRow
  <2>3. \A d \in Runner : d # c => runner'[d] = runner[d]
    BY <1>0, <2>1
  <2>4. \A q \in Request : request[q] # Idle => c \notin request[q].by
                             /\ request[q].by \subseteq Runner
    BY <1>0, <2>1 DEF WaitInv, RequestRow
  <2>5. WaitInv'
    BY <1>0, <2>1, <2>3, <2>4 DEF WaitInv
  <2>6. QED
    BY <1>0, <1>1, <2>1, <2>2, <2>5
<1>6. ASSUME request' = request, runner' = runner PROVE BaseInv'
  BY <1>0, <1>1, <1>6 DEF WaitInv
<1>7. CASE Browser \/ \E s \in Session, n \in Steps : Age(s, n)
  BY <1>6, <1>7 DEF Browser, Mint, RetryMint, ExpireOnRead, PassExpiry, Revoke, Age
<1>8. CASE UNCHANGED vars
  BY <1>6, <1>8 DEF vars
<1>9. QED
  BY <1>2, <1>3, <1>4, <1>5, <1>7, <1>8 DEF Next, Serve

-----------------------------------------------------------------------------
(* Keys are finalized in the order of the plan, a request that works has   *)
(* its key, and what a request has read of the manifest holds everything   *)
(* the steps before its own have stored.                                   *)

Working == {"check", "write", "advance", "commit", "finalize", "release", "throw"}

DoneBefore(s, n) == \A m \in Steps : m < n => key[s][m] = "done"

Stored(s, n) ==
    /\ Kind(n) = "manifest" => Plan[n].files \subseteq snapshot[s].manifest
    /\ Kind(n) = "file" => Plan[n].chunk \in snapshot[s].rows
    /\ Kind(n) = "complete" => snapshot[s].status = "uploaded"

\* What a request in this state knows.
Knows(row) ==
    /\ session[row.s].status # "none"
    /\ DoneBefore(row.s, row.n)
    /\ row.pc \in Working => key[row.s][row.n] = "pending"
    /\ row.pc \in Working \cup {"claim"} =>
         /\ \A m \in OfKind("manifest") : m < row.n => Plan[m].files \subseteq row.manifest
         /\ row.snap = "uploaded" => snapshot[row.s].status = "uploaded"
    /\ row.pc \in {"write", "advance"} => Kind(row.n) # "complete"
    /\ row.pc = "commit" => Kind(row.n) = "complete"
    /\ row.pc = "shaking" => row.status # "none"
    /\ row.pc \in {"advance", "finalize"} => Stored(row.s, row.n)

KnowsInv == \A r \in Request : request[r] # Idle => Knows(request[r])

\* One request works for a key.
Exclusive ==
    \A q, r \in Request :
        /\ request[q].pc \in Working /\ request[r].pc \in Working
        /\ request[q].s = request[r].s /\ request[q].n = request[r].n
        => q = r

KeyInv ==
    \A s \in Session, n \in Steps :
        key[s][n] = "done" => DoneBefore(s, n) /\ Stored(s, n)

ToldInv ==
    \A c \in Runner :
        /\ \A n \in Told(runner[c]) : key[runner[c].s][n] = "done"
        /\ runner[c].state # "off" => session[runner[c].s].status # "none"

UploadInv == BaseInv /\ KnowsInv /\ Exclusive /\ KeyInv /\ ToldInv

LEMMA WorkingRow ==
  ASSUME BaseInv, NEW r \in Request, request[r].pc \notin {"idle", "guard", "handshake", "shaking"}
  PROVE  /\ request[r] # Idle /\ request[r] \in RequestRow
         /\ request[r].s \in Session /\ request[r].n \in Steps
<1>1. request[r] # Idle /\ request[r] \in RequestRow
  BY RowFacts DEF BaseInv, Idle
<1>2. request[r].n \in 0 .. Len(Plan) /\ request[r].n # 0 /\ request[r].s \in Session
  BY <1>1 DEF RequestRow, BaseInv, WaitInv, Placed
<1>3. QED
  BY <1>1, <1>2, PlanFacts

(* Two requests of one session never work at the same time: the key of the *)
(* later step is claimed only when the one of the earlier is final.        *)
LEMMA NoInterleaving ==
  ASSUME UploadInv
  PROVE  NeverInterleave
<1> SUFFICES ASSUME NEW q \in Request, NEW r \in Request, Claimed(q), Claimed(r),
                    request[q].s = request[r].s
             PROVE  q = r
  BY DEF NeverInterleave
<1>1. request[q].pc \in Working /\ request[r].pc \in Working
  BY DEF Claimed, Working
<1>2. /\ request[q].n \in Steps /\ request[r].n \in Steps
      /\ request[q] # Idle /\ request[r] # Idle
  BY <1>1, WorkingRow DEF UploadInv, Working
<1>3. Knows(request[q]) /\ Knows(request[r])
  BY <1>2 DEF UploadInv, KnowsInv
<1>4. ~(request[q].n < request[r].n) /\ ~(request[r].n < request[q].n)
  BY <1>1, <1>2, <1>3 DEF Knows, DoneBefore
<1>5. request[q].n = request[r].n
  BY <1>2, <1>4, PlanFacts
<1>6. QED
  BY <1>1, <1>5 DEF UploadInv, Exclusive

(* What no step takes back.                                                *)
Grows ==
    /\ \A s \in Session : \A n \in Steps : key[s][n] = "done" => key'[s][n] = "done"
    /\ \A s \in Session :
         /\ snapshot[s].status = "uploaded" => snapshot'[s].status = "uploaded"
         /\ snapshot[s].rows \subseteq snapshot'[s].rows
         /\ session[s].status # "none" => session'[s].status # "none"

LEMMA GrowsStep ==
  ASSUME UploadInv, [Next]_vars
  PROVE  Grows
<1>1. /\ session \in [Session -> SessionRow] /\ snapshot \in [Session -> SnapshotRow]
      /\ key \in [Session -> [Steps -> {"free", "pending", "old", "done"}]]
  BY DEF UploadInv, BaseInv, SyncTypeOK, SessionRow, SnapshotRow
<1>2. \A r \in Request : request[r].pc # "idle" => request[r].s \in Session
  BY RowFacts DEF UploadInv, BaseInv, RequestRow, Idle
<1>3. ASSUME NEW s \in Session, Mint(s) \/ RetryMint(s) \/ ExpireOnRead(s) \/ PassExpiry(s)
      PROVE  Grows
  <2>1. \A t \in Session : session[t].status # "none" => session'[t].status # "none"
    <3>1. CASE Mint(s)
      BY <1>1, <3>1 DEF Mint, SessionRow
    <3>2. CASE RetryMint(s)
      BY <1>1, <3>2 DEF RetryMint, SessionRow
    <3>3. CASE ExpireOnRead(s) \/ PassExpiry(s)
      BY <1>1, <3>3 DEF ExpireOnRead, PassExpiry, SessionRow
    <3>4. QED
      BY <1>3, <3>1, <3>2, <3>3
  <2>2. key' = key /\ snapshot' = snapshot
    BY <1>3 DEF Mint, RetryMint, ExpireOnRead, PassExpiry
  <2>3. QED
    BY <2>1, <2>2 DEF Grows
<1>4. CASE Revoke
  BY <1>1, <1>4 DEF Revoke, Grows, SessionRow
<1>5. ASSUME NEW c \in Runner,
             \/ \E s \in Session : StartRun(c, s)
             \/ \E r \in Request : Send(c, r) \/ GiveUp(c, r)
      PROVE  Grows
  BY <1>5 DEF StartRun, Send, GiveUp, Grows
<1>6. ASSUME NEW s \in Session, NEW n \in Steps, Age(s, n) PROVE Grows
  BY <1>1, <1>6 DEF Age, Grows
<1>7. ASSUME NEW r \in Request, Serve(r) PROVE Grows
  <2>1. CASE Refuse(r)
    BY <1>1, <1>2, <2>1 DEF Refuse, Grows, SessionRow
  <2>2. CASE HandshakeWrite(r)
    <3>1. request[r].s \in Session /\ request[r].pc = "shaking" /\ request[r] # Idle
      BY <1>2, <2>2 DEF HandshakeWrite, Idle
    <3>2. request[r].status # "none"
      BY <3>1 DEF UploadInv, KnowsInv, Knows
    <3>3. \A s \in Session : session[s].status # "none" => session'[s].status # "none"
      BY <1>1, <2>2, <3>1, <3>2 DEF HandshakeWrite, SessionRow
    <3>4. key' = key /\ \A s \in Session :
            /\ snapshot[s].status = "uploaded" => snapshot'[s].status = "uploaded"
            /\ snapshot[s].rows \subseteq snapshot'[s].rows
      BY <1>1, <2>2, <3>1 DEF HandshakeWrite, SnapshotRow
    <3>5. QED
      BY <3>3, <3>4 DEF Grows
  <2>3. CASE \/ HandshakeRead(r) \/ Guard(r) \/ ReadSnapshot(r) \/ ClaimBusy(r) \/ Replay(r) \/ CheckUpload(r)
             \/ Verify(r) \/ Throw(r) \/ Crash(r)
    BY <2>3 DEF HandshakeRead, Guard, ReadSnapshot, ClaimBusy, Replay, CheckUpload, Verify, Throw,
       Crash, Grows
  <2>4. CASE Claim(r)
    BY <1>1, <1>2, <2>4 DEF Claim, Grows
  <2>5. CASE WriteManifest(r)
    BY <1>1, <1>2, <2>5 DEF WriteManifest, Grows, SnapshotRow
  <2>6. CASE WriteChunk(r)
    BY <1>1, <1>2, <2>6 DEF WriteChunk, Grows, SnapshotRow
  <2>7. CASE AdvanceSession(r)
    BY <1>1, <1>2, <2>7 DEF AdvanceSession, Grows, SessionRow
  <2>8. CASE Commit(r)
    <3>1. request[r].s \in Session
      BY <1>2, <2>8 DEF Commit
    <3>2. session' = [session EXCEPT ![request[r].s].status = "uploaded"] /\ key' = key
      BY <2>8 DEF Commit
    <3>3. \A s \in Session : session[s].status # "none" => session'[s].status # "none"
      BY <1>1, <3>1, <3>2 DEF SessionRow
    <3>4. \A s \in Session :
            /\ snapshot[s].status = "uploaded" => snapshot'[s].status = "uploaded"
            /\ snapshot[s].rows \subseteq snapshot'[s].rows
      BY <1>1, <2>8, <3>1 DEF Commit, SnapshotRow
    <3>5. QED
      BY <3>2, <3>3, <3>4 DEF Grows
  <2>9. CASE Finalize(r) \/ Release(r)
    <3>1. request[r].s \in Session /\ request[r].n \in Steps
      BY <2>9, WorkingRow DEF Finalize, Release, UploadInv
    <3>2. \A s \in Session : \A n \in Steps : key[s][n] = "done" => key'[s][n] = "done"
      BY <1>1, <2>9, <3>1 DEF Finalize, Release, Pending
    <3>3. session' = session /\ snapshot' = snapshot
      BY <2>9 DEF Finalize, Release
    <3>4. QED
      BY <3>2, <3>3 DEF Grows
  <2>10. QED
    BY <1>7, <2>1, <2>2, <2>3, <2>4, <2>5, <2>6, <2>7, <2>8, <2>9 DEF Serve, Handle
<1>8. CASE UNCHANGED vars
  BY <1>8 DEF vars, Grows
<1>9. QED
  BY <1>3, <1>4, <1>5, <1>6, <1>7, <1>8 DEF Next, Browser, Serve

(* A request that works and does not end keeps its key: nobody claims it,  *)
(* finalizes or releases it, and it does not grow old.                     *)
LEMMA KeepsItsKey ==
  ASSUME NoStall, UploadInv, [Next]_vars,
         NEW q \in Request, request[q].pc \in Working, request'[q] # Idle
  PROVE  key'[request[q].s][request[q].n] = "pending"
<1> DEFINE s == request[q].s  n == request[q].n
<1>1. key \in [Session -> [Steps -> {"free", "pending", "old", "done"}]]
  BY DEF UploadInv, BaseInv, SyncTypeOK
<1>2. s \in Session /\ n \in Steps /\ request[q] # Idle /\ request[q] \in RequestRow
  BY WorkingRow DEF UploadInv, Working
<1>3. key[s][n] = "pending"
  BY <1>2 DEF UploadInv, KnowsInv, Knows
<1>4. CASE key' = key
  BY <1>3, <1>4
<1>5. ASSUME NEW t \in Session, NEW m \in Steps, Age(t, m)
      PROVE  key'[s][n] = "pending"
  <2>1. Claimed(q)
    BY DEF Claimed, Working
  <2>2. ~(t = s /\ m = n)
    BY <1>5, <2>1 DEF Age, NoStall
  <2>3. QED
    BY <1>1, <1>2, <1>3, <1>5, <2>2 DEF Age
<1>6. ASSUME NEW r \in Request, Claim(r)
      PROVE  key'[s][n] = "pending"
  <2>1. request[r].s \in Session /\ request[r].n \in Steps
    BY <1>6, WorkingRow DEF Claim, UploadInv
  <2>2. QED
    BY <1>1, <1>2, <1>3, <1>6, <2>1 DEF Claim
<1>7. ASSUME NEW r \in Request, Finalize(r) \/ Release(r)
      PROVE  key'[s][n] = "pending"
  <2>1. request[r].pc \in Working
    BY <1>7 DEF Finalize, Release, Working
  <2>2. request[r].s \in Session /\ request[r].n \in Steps /\ request[r] # Idle
    BY <2>1, WorkingRow DEF UploadInv, Working
  <2>3. request'[r] = Idle
    BY <1>7 DEF Finalize, Release, Answer, UploadInv, BaseInv, SyncTypeOK
  <2>4. q # r
    BY <2>3
  <2>5. ~(request[r].s = s /\ request[r].n = n)
    BY <2>1, <2>4 DEF UploadInv, Exclusive
  <2>6. QED
    BY <1>1, <1>2, <1>3, <1>7, <2>2, <2>5 DEF Finalize, Release
<1>8. CASE \E r \in Request : Serve(r)
  BY <1>4, <1>6, <1>7, <1>8 DEF Serve, Handle, Refuse, Guard, HandshakeRead, HandshakeWrite,
     ReadSnapshot, ClaimBusy, Replay, CheckUpload, WriteManifest, WriteChunk, AdvanceSession, Verify,
     Commit, Throw, Crash
<1>9. CASE Browser
  BY <1>4, <1>9 DEF Browser, Mint, RetryMint, ExpireOnRead, PassExpiry, Revoke
<1>10. ASSUME NEW c \in Runner,
              \/ \E t \in Session : StartRun(c, t)
              \/ \E r \in Request : Send(c, r) \/ GiveUp(c, r)
       PROVE  key' = key
  BY <1>10 DEF StartRun, Send, GiveUp
<1>11. CASE UNCHANGED vars
  BY <1>4, <1>11 DEF vars
<1>12. QED
  BY <1>4, <1>5, <1>8, <1>9, <1>10, <1>11 DEF Next, Serve

(* What is stored for a final key, or by a request that has stored it,     *)
(* stays stored.                                                           *)
LEMMA StaysStored ==
  ASSUME UploadInv, [Next]_vars, NEW s \in Session, NEW n \in Steps, Stored(s, n),
         \/ key[s][n] = "done"
         \/ \E q \in Request : /\ request[q].pc \in Working \ {"write", "commit"}
                               /\ request[q].s = s /\ request[q].n = n
  PROVE  Stored(s, n)'
<1>1. snapshot \in [Session -> SnapshotRow]
  BY DEF UploadInv, BaseInv, SyncTypeOK, SnapshotRow
<1>2. Grows
  BY GrowsStep
<1>3. SUFFICES ASSUME Kind(n) = "manifest"
               PROVE  Plan[n].files \subseteq snapshot'[s].manifest
  BY <1>2 DEF Stored, Grows
<1>4. Plan[n].files \subseteq snapshot[s].manifest
  BY <1>3 DEF Stored
<1>5. ASSUME NEW r \in Request, request[r].pc \in {"write", "commit"}, request[r].s = s
      PROVE  Plan[n].files \subseteq request[r].manifest
  <2>1. request[r].pc \in Working /\ Claimed(r)
    BY <1>5 DEF Working, Claimed
  <2>2. request[r].n \in Steps /\ request[r] # Idle
    BY <2>1, WorkingRow DEF UploadInv, Working
  <2>3. Knows(request[r])
    BY <2>2 DEF UploadInv, KnowsInv
  <2>4. ~\E q \in Request : /\ request[q].pc \in Working \ {"write", "commit"}
                            /\ request[q].s = s /\ request[q].n = n
    BY <1>5, <2>1, NoInterleaving DEF NeverInterleave, Claimed, Working
  <2>5. key[s][n] = "done"
    BY <2>4
  <2>6. key[s][request[r].n] = "pending"
    BY <1>5, <2>1, <2>3 DEF Knows
  <2>7. ~(request[r].n < n) /\ n # request[r].n
    BY <2>2, <2>5, <2>6 DEF UploadInv, KeyInv, DoneBefore
  <2>8. n < request[r].n
    BY <2>2, <2>7, PlanFacts
  <2>9. QED
    BY <1>3, <2>1, <2>3, <2>8 DEF Knows, OfKind, Kind
<1>6. ASSUME NEW r \in Request, Serve(r)
      PROVE  snapshot'[s].manifest = snapshot[s].manifest
             \/ /\ request[r].pc \in {"write", "commit"} /\ request[r].s = s
                /\ request[r].manifest \subseteq snapshot'[s].manifest
  <2>1. CASE snapshot' = snapshot
    BY <2>1
  <2>2. CASE HandshakeWrite(r)
    <3>1. request[r].s \in Session
      BY <2>2, RowFacts DEF HandshakeWrite, UploadInv, BaseInv, RequestRow, Idle
    <3>2. QED
      BY <1>1, <2>2, <3>1 DEF HandshakeWrite, SnapshotRow
  <2>3. CASE WriteManifest(r)
    BY <1>1, <2>3 DEF WriteManifest, SnapshotRow
  <2>4. CASE WriteChunk(r)
    BY <1>1, <2>4 DEF WriteChunk, SnapshotRow
  <2>5. CASE Commit(r)
    <3>1. request[r].s \in Session
      BY <2>5, WorkingRow DEF Commit, UploadInv
    <3>2. QED
      BY <1>1, <2>5, <3>1 DEF Commit, SnapshotRow
  <2>6. QED
    BY <1>6, <2>1, <2>2, <2>3, <2>4, <2>5 DEF Serve, Handle, Refuse, Guard, HandshakeRead,
       ReadSnapshot, Claim, ClaimBusy, Replay, CheckUpload, AdvanceSession, Verify, Finalize, Release,
       Throw, Crash
<1>7. CASE \E r \in Request : Serve(r)
  BY <1>4, <1>5, <1>6, <1>7
<1>8. CASE snapshot' = snapshot
  BY <1>4, <1>8
<1>9. QED
  BY <1>7, <1>8 DEF Next, Serve, Browser, Mint, RetryMint, ExpireOnRead, PassExpiry, Revoke,
     StartRun, Send, GiveUp, Age, vars

\* What the manifest and the status a request has read are good for.
Copied(row) ==
    /\ \A m \in OfKind("manifest") : m < row.n => Plan[m].files \subseteq row.manifest
    /\ row.snap = "uploaded" => snapshot[row.s].status = "uploaded"

(* A request that goes on knows what it knew.                              *)
LEMMA StillKnows ==
  ASSUME NoStall, UploadInv, [Next]_vars,
         NEW q \in Request, request[q] # Idle, request'[q] # Idle,
         request'[q].s = request[q].s, request'[q].n = request[q].n
  PROVE  /\ session'[request[q].s].status # "none"
         /\ DoneBefore(request[q].s, request[q].n)'
         /\ request[q].pc \in Working => key'[request[q].s][request[q].n] = "pending"
         /\ /\ request[q].pc \in Working \cup {"claim"}
            /\ request'[q].manifest = request[q].manifest
            /\ request'[q].snap = request[q].snap
            => Copied(request[q])'
<1>1. request[q].s \in Session /\ request[q].n \in 0 .. Len(Plan)
  BY RowFacts DEF UploadInv, BaseInv, RequestRow
<1>2. Knows(request[q]) /\ Grows
  BY GrowsStep DEF UploadInv, KnowsInv
<1>3. session'[request[q].s].status # "none"
  BY <1>1, <1>2 DEF Knows, Grows
<1>4. DoneBefore(request[q].s, request[q].n)'
  BY <1>1, <1>2 DEF Knows, Grows, DoneBefore
<1>5. request[q].pc \in Working => key'[request[q].s][request[q].n] = "pending"
  BY KeepsItsKey
<1>6. ASSUME request[q].pc \in Working \cup {"claim"},
             request'[q].manifest = request[q].manifest, request'[q].snap = request[q].snap
      PROVE  Copied(request[q])'
  BY <1>1, <1>2, <1>6 DEF Knows, Copied, Grows
<1>7. QED
  BY <1>3, <1>4, <1>5, <1>6

SameState(q) ==
    /\ request'[q].s = request[q].s /\ request'[q].n = request[q].n
    /\ request'[q].pc = request[q].pc
    /\ request'[q].manifest = request[q].manifest /\ request'[q].snap = request[q].snap
    /\ request'[q].status = request[q].status

(* A request whose state no step of its own changes.                       *)
LEMMA OthersKnow ==
  ASSUME NoStall, UploadInv, [Next]_vars,
         NEW q \in Request, request[q] # Idle, request'[q] # Idle,
         SameState(q)
  PROVE  Knows(request[q])'
<1>1. Knows(request[q])
  BY DEF UploadInv, KnowsInv
<1>2. request[q].pc \in {"advance", "finalize"} => Stored(request[q].s, request[q].n)'
  <2> SUFFICES ASSUME request[q].pc \in {"advance", "finalize"}
               PROVE  Stored(request[q].s, request[q].n)'
    OBVIOUS
  <2>1. request[q].s \in Session /\ request[q].n \in Steps
    BY WorkingRow DEF UploadInv
  <2>2. Stored(request[q].s, request[q].n)
    BY <1>1 DEF Knows
  <2>3. QED
    BY <2>1, <2>2, StaysStored DEF Working, SameState
<1>3. QED
  BY <1>1, <1>2, StillKnows DEF Knows, Copied, SameState

(* A request is started, moves on by a step of its own, or stays.          *)
LEMMA StartsMovesOrStays ==
  ASSUME BaseInv, [Next]_vars, NEW q \in Request, request'[q] # Idle
  PROVE  \/ (request[q] # Idle /\ SameState(q))
         \/ (Serve(q) /\ Moves(q))
         \/ \E c \in Runner : Send(c, q)
<1>1. /\ request \in [Request -> {Idle} \cup RequestRow]
      /\ Idle \notin RequestRow
  BY DEF BaseInv, SyncTypeOK, RequestRow, Idle
<1>2. ASSUME NEW r \in Request, Serve(r)
      PROVE  (request[q] # Idle /\ SameState(q)) \/ (Serve(q) /\ Moves(q))
  <2>1. CASE Ends(r)
    <3>1. request' = [request EXCEPT ![r] = Idle]
      BY <2>1 DEF Ends, Answer
    <3>2. QED
      BY <1>1, <3>1 DEF SameState
  <2>2. CASE Moves(r) /\ r # q
    <3>1. request'[q] = request[q]
      BY <2>2 DEF Moves
    <3>2. QED
      BY <3>1 DEF SameState
  <2>3. QED
    BY <1>2, <2>1, <2>2, ServedMovesOrEnds
<1>3. ASSUME NEW c \in Runner, NEW r \in Request, GiveUp(c, r)
      PROVE  request[q] # Idle /\ SameState(q)
  <2>1. request[r] \in RequestRow /\ request' = [request EXCEPT ![r].by = {}]
        /\ request[r] # Idle
    BY <1>1, <1>3 DEF GiveUp, WaitsFor
  <2>2. QED
    BY <1>1, <2>1 DEF SameState, RequestRow
<1>4. ASSUME NEW c \in Runner, NEW r \in Request, Send(c, r), r # q
      PROVE  request[q] # Idle /\ SameState(q)
  <2>1. request'[q] = request[q]
    BY <1>1, <1>4 DEF Send
  <2>2. QED
    BY <2>1 DEF SameState
<1>5. CASE request' = request
  BY <1>5 DEF SameState
<1>6. QED
  BY <1>2, <1>3, <1>4, <1>5 DEF Next, Serve, Browser, Mint, RetryMint, ExpireOnRead,
     PassExpiry, Revoke, StartRun, Age, vars

LEMMA KnowsStep ==
  ASSUME NoStall, UploadInv, [Next]_vars
  PROVE  KnowsInv'
<1> SUFFICES ASSUME NEW q \in Request, request'[q] # Idle
             PROVE  Knows(request[q])'
  BY DEF KnowsInv
<1>0. /\ request \in [Request -> {Idle} \cup RequestRow]
      /\ snapshot \in [Session -> SnapshotRow]
      /\ key \in [Session -> [Steps -> {"free", "pending", "old", "done"}]]
  BY DEF UploadInv, BaseInv, SyncTypeOK, RequestRow, SnapshotRow
<1>1. CASE request[q] # Idle /\ SameState(q)
  BY <1>1, OthersKnow
<1>2. ASSUME NEW c \in Runner, Send(c, q)
      PROVE  Knows(request[q])'
  <2>1. /\ request'[q].pc = "guard" /\ request'[q].s = runner[c].s
        /\ request'[q].n = runner[c].at
        /\ session' = session /\ key' = key /\ runner[c].state = "ready"
    BY <1>0, <1>2 DEF Send
  <2>2. session[runner[c].s].status # "none" /\ DoneBefore(runner[c].s, runner[c].at)
    BY <2>1 DEF UploadInv, ToldInv, DoneBefore, Told
  <2>3. QED
    BY <2>1, <2>2 DEF Knows, DoneBefore, Working
<1>3. CASE Serve(q) /\ Moves(q)
  <2> DEFINE s == request[q].s  n == request[q].n
  <2>1. PICK row \in RequestRow :
          /\ request' = [request EXCEPT ![q] = row]
          /\ row.s = s /\ row.n = n /\ row.by = request[q].by
          /\ Placed(row)
    BY <1>3 DEF Moves
  <2>2. /\ request[q] # Idle /\ request[q] \in RequestRow
        /\ request'[q] = row /\ request'[q].s = s /\ request'[q].n = n
        /\ s \in Session
    BY <1>0, <1>3, <2>1 DEF Moves, RequestRow
  <2>3. /\ session'[s].status # "none" /\ DoneBefore(s, n)'
        /\ request[q].pc \in Working => key'[s][n] = "pending"
        /\ /\ request[q].pc \in Working \cup {"claim"}
           /\ request'[q].manifest = request[q].manifest
           /\ request'[q].snap = request[q].snap
           => Copied(request[q])'
    BY <2>2, StillKnows
  <2>4. Knows(request[q])
    BY <2>2 DEF UploadInv, KnowsInv
  <2>16. ASSUME NEW answer, Answer(q, answer)
         PROVE  FALSE
    BY <1>0, <2>16 DEF Answer
  <2>5. CASE Guard(q)
    <3>1. request'[q].pc \in {"handshake", "bound"}
      BY <1>0, <2>2, <2>5, <2>16 DEF Guard, RequestRow
    <3>2. QED
      BY <2>2, <2>3, <3>1 DEF Knows, DoneBefore, Working
  <2>18. CASE HandshakeRead(q)
    <3>1. /\ request'[q].pc = "shaking"
          /\ request'[q].status = IF session[s].status = "waiting_for_cli" THEN "connected"
                                  ELSE session[s].status
      BY <1>0, <2>2, <2>18 DEF HandshakeRead, RequestRow
    <3>2. request'[q].status # "none"
      BY <2>4, <3>1 DEF Knows
    <3>3. QED
      BY <2>2, <2>3, <3>1, <3>2 DEF Knows, DoneBefore, Working
  <2>6. CASE ReadSnapshot(q)
    <3>1. /\ request'[q].pc = "claim" /\ request'[q].snap = snapshot[s].status
          /\ request'[q].manifest = snapshot[s].manifest /\ snapshot' = snapshot
      BY <1>0, <2>2, <2>6, <2>16 DEF ReadSnapshot, RequestRow
    <3>2. ASSUME NEW m \in OfKind("manifest"), m < n
          PROVE  Plan[m].files \subseteq snapshot[s].manifest
      <4>1. m \in Steps /\ Kind(m) = "manifest"
        BY DEF OfKind
      <4>2. Stored(s, m)
        BY <2>2, <2>4, <3>2, <4>1 DEF Knows, DoneBefore, UploadInv, KeyInv
      <4>3. QED
        BY <4>1, <4>2 DEF Stored
    <3>3. QED
      BY <2>2, <2>3, <3>1, <3>2 DEF Knows, DoneBefore, Working
  <2>7. ASSUME request[q].pc \in Working \cup {"claim"}, NEW pc, Goto(q, pc)
        PROVE  /\ request'[q].pc = pc /\ Copied(request[q])'
    <3>1. request'[q].manifest = request[q].manifest /\ request'[q].snap = request[q].snap
          /\ request'[q].pc = pc
      BY <1>0, <2>2, <2>7 DEF Goto, RequestRow
    <3>2. QED
      BY <2>3, <2>7, <3>1
  <2>8. CASE Claim(q)
    <3>1. request'[q].pc = "check" /\ Copied(request[q])'
      BY <2>7, <2>8 DEF Claim
    <3>2. n \in Steps
      BY <2>8, WorkingRow DEF UploadInv, Claim
    <3>3. key'[s][n] = "pending"
      BY <1>0, <2>2, <2>8, <3>2 DEF Claim
    <3>4. QED
      BY <2>2, <2>3, <3>1, <3>3 DEF Knows, DoneBefore, Copied
  <2>9. CASE CheckUpload(q)
    <3>1. request[q].pc = "check" /\ Kind(n) # "complete" /\ request[q].pc \in Working
      BY <2>9 DEF CheckUpload, Working
    <3>2. /\ request'[q].pc \in {"write", "release"}
          /\ request'[q].manifest = request[q].manifest /\ request'[q].snap = request[q].snap
      BY <1>0, <2>2, <2>9 DEF CheckUpload, Goto, RequestRow
    <3>3. QED
      BY <2>2, <2>3, <3>1, <3>2 DEF Knows, DoneBefore, Copied
  <2>10. CASE WriteManifest(q)
    <3>1. request[q].pc = "write" /\ Kind(n) = "manifest" /\ request[q].pc \in Working
      BY <2>10 DEF WriteManifest, Working
    <3>2. request'[q].pc \in {"advance", "finalize"} /\ Copied(request[q])'
      BY <2>7, <2>10, <3>1 DEF WriteManifest
    <3>3. Plan[n].files \subseteq snapshot'[s].manifest
      BY <1>0, <2>2, <2>10 DEF WriteManifest, SnapshotRow
    <3>4. Stored(s, n)'
      BY <2>2, <3>1, <3>3 DEF Stored, Kind
    <3>5. QED
      BY <2>2, <2>3, <3>1, <3>2, <3>4 DEF Knows, DoneBefore, Copied, Stored
  <2>11. CASE WriteChunk(q)
    <3>1. request[q].pc = "write" /\ Kind(n) = "file" /\ request[q].pc \in Working
      BY <2>11 DEF WriteChunk, Working
    <3>2. request'[q].pc \in {"throw", "advance", "finalize"} /\ Copied(request[q])'
      BY <2>7, <2>11, <3>1 DEF WriteChunk
    <3>3. request'[q].pc # "throw" => Plan[n].chunk \in snapshot'[s].rows
      <4>1. CASE Goto(q, "throw")
        BY <2>7, <3>1, <4>1
      <4>2. CASE ~Goto(q, "throw")
        BY <1>0, <2>2, <2>11, <4>2 DEF WriteChunk, SnapshotRow
      <4>3. QED
        BY <4>1, <4>2
    <3>4. request'[q].pc # "throw" => Stored(s, n)'
      BY <2>2, <3>1, <3>3 DEF Stored, Kind
    <3>5. QED
      BY <2>2, <2>3, <3>1, <3>2, <3>4 DEF Knows, DoneBefore, Copied, Stored
  <2>12. CASE AdvanceSession(q)
    <3>1. request[q].pc = "advance" /\ request[q].pc \in Working /\ snapshot' = snapshot
      BY <2>12 DEF AdvanceSession, Working
    <3>2. request'[q].pc = "finalize" /\ Copied(request[q])'
      BY <2>7, <2>12, <3>1 DEF AdvanceSession
    <3>3. Stored(s, n)'
      BY <2>2, <2>4, <3>1 DEF Knows, Stored
    <3>4. QED
      BY <2>2, <2>3, <3>1, <3>2, <3>3 DEF Knows, DoneBefore, Copied, Stored
  <2>13. CASE Verify(q)
    <3>1. request[q].pc = "check" /\ Kind(n) = "complete" /\ request[q].pc \in Working
          /\ snapshot' = snapshot
      BY <2>13 DEF Verify, Working
    <3>2. request'[q].pc \in {"finalize", "commit", "release"} /\ Copied(request[q])'
      BY <2>7, <2>13, <3>1 DEF Verify
    <3>3. request'[q].pc = "finalize" => request[q].snap = "uploaded"
      BY <2>7, <2>13, <3>1 DEF Verify
    <3>4. request'[q].pc = "finalize" => Stored(s, n)'
      BY <2>2, <2>4, <3>1, <3>3 DEF Knows, Stored
    <3>5. QED
      BY <2>2, <2>3, <3>1, <3>2, <3>4 DEF Knows, DoneBefore, Copied, Stored
  <2>14. CASE Commit(q)
    <3>1. request[q].pc = "commit" /\ request[q].pc \in Working
      BY <2>14 DEF Commit, Working
    <3>2. Kind(n) = "complete"
      BY <2>4, <3>1 DEF Knows
    <3>3. request'[q].pc = "finalize" /\ Copied(request[q])'
      BY <2>7, <2>14, <3>1 DEF Commit
    <3>4. snapshot'[s].status = "uploaded"
      BY <1>0, <2>2, <2>14 DEF Commit, SnapshotRow
    <3>5. Stored(s, n)'
      BY <2>2, <3>2, <3>4 DEF Stored, Kind
    <3>6. QED
      BY <2>2, <2>3, <3>1, <3>3, <3>5 DEF Knows, DoneBefore, Copied, Stored
  <2>15. CASE Throw(q)
    <3>1. request[q].pc \in Working
      BY <2>15 DEF Throw, Working
    <3>2. request'[q].pc = "throw" /\ Copied(request[q])'
      BY <2>7, <2>15, <3>1 DEF Throw
    <3>3. QED
      BY <2>2, <2>3, <3>1, <3>2 DEF Knows, DoneBefore, Copied
  <2>17. QED
    BY <1>3, <2>5, <2>6, <2>8, <2>9, <2>10, <2>11, <2>12, <2>13, <2>14, <2>15, <2>16, <2>18
       DEF Serve, Handle, Refuse, HandshakeWrite, ClaimBusy, Replay, Finalize, Release, Crash
<1>4. QED
  BY <1>1, <1>2, <1>3, StartsMovesOrStays DEF UploadInv

(* A request begins to work by claiming its key.                           *)
LEMMA WorksByClaim ==
  ASSUME BaseInv, [Next]_vars, NEW q \in Request, request'[q].pc \in Working
  PROVE  /\ request'[q].s = request[q].s /\ request'[q].n = request[q].n
         /\ request[q].pc \in Working \/ Claim(q)
<1>1. request'[q] # Idle
  BY DEF Idle, Working
<1>2. request \in [Request -> {Idle} \cup RequestRow]
  BY DEF BaseInv, SyncTypeOK, RequestRow
<1>3. ASSUME NEW c \in Runner, Send(c, q) PROVE FALSE
  BY <1>2, <1>3 DEF Send, Working
<1>4. CASE request[q] # Idle /\ SameState(q)
  BY <1>4 DEF SameState
<1>5. CASE Serve(q) /\ Moves(q)
  <2>1. request'[q].s = request[q].s /\ request'[q].n = request[q].n
    BY <1>2, <1>5 DEF Moves
  <2>2. ~\E answer \in {"ok", "retry", "fatal"} : Answer(q, answer)
    BY <1>1, <1>2 DEF Answer
  <2>3. CASE Guard(q) \/ HandshakeRead(q) \/ ReadSnapshot(q)
    <3>1. request[q] \in RequestRow
      BY <1>2, <1>5 DEF Moves
    <3>2. request'[q].pc \in {"handshake", "shaking", "bound", "claim"}
      <4>1. CASE Guard(q)
        BY <1>2, <2>2, <3>1, <4>1 DEF Guard, RequestRow
      <4>2. CASE ReadSnapshot(q)
        BY <1>2, <2>2, <3>1, <4>2 DEF ReadSnapshot, RequestRow
      <4>3. CASE HandshakeRead(q)
        BY <1>2, <3>1, <4>3 DEF HandshakeRead, RequestRow
      <4>4. QED
        BY <2>3, <4>1, <4>2, <4>3
    <3>3. QED
      BY <3>2 DEF Working
  <2>4. CASE ~(Guard(q) \/ HandshakeRead(q) \/ ReadSnapshot(q))
    BY <1>5, <2>1, <2>2, <2>4 DEF Serve, Handle, Refuse, HandshakeWrite, ClaimBusy, Replay,
       CheckUpload, WriteManifest, WriteChunk, AdvanceSession, Verify, Commit, Finalize,
       Release, Throw, Crash, Working
  <2>5. QED
    BY <2>3, <2>4
<1>6. QED
  BY <1>1, <1>3, <1>4, <1>5, StartsMovesOrStays

LEMMA ExclusiveStep ==
  ASSUME UploadInv, [Next]_vars
  PROVE  Exclusive'
<1> SUFFICES ASSUME NEW q \in Request, NEW r \in Request,
                    request'[q].pc \in Working, request'[r].pc \in Working,
                    request'[q].s = request'[r].s, request'[q].n = request'[r].n
             PROVE  q = r
  BY DEF Exclusive
<1>1. ASSUME NEW x \in Request, NEW y \in Request, x # y, Claim(x),
             request'[y].pc \in Working,
             request'[x].s = request'[y].s, request'[x].n = request'[y].n,
             request'[x].pc \in Working
      PROVE  FALSE
  <2>1. request'[y] = request[y]
    BY <1>1 DEF Claim, Goto, UploadInv, BaseInv, SyncTypeOK
  <2>2. request[y] # Idle /\ request[y].pc \in Working
    BY <1>1, <2>1 DEF Idle, Working
  <2>3. key[request[y].s][request[y].n] = "pending"
    BY <2>2 DEF UploadInv, KnowsInv, Knows
  <2>4. request[x].s = request[y].s /\ request[x].n = request[y].n
    BY <1>1, <2>1, WorksByClaim DEF UploadInv
  <2>5. QED
    BY <1>1, <2>3, <2>4 DEF Claim
<1>2. CASE request[q].pc \in Working /\ request[r].pc \in Working
  BY <1>2, WorksByClaim DEF UploadInv, Exclusive
<1>3. QED
  BY <1>1, <1>2, WorksByClaim DEF UploadInv

(* A key becomes final by its own request.                                 *)
LEMMA DoneByFinalize ==
  ASSUME UploadInv, [Next]_vars, NEW s \in Session, NEW n \in Steps,
         key'[s][n] = "done", key[s][n] # "done"
  PROVE  \E r \in Request : Finalize(r) /\ request[r].s = s /\ request[r].n = n
<1>1. key \in [Session -> [Steps -> {"free", "pending", "old", "done"}]]
  BY DEF UploadInv, BaseInv, SyncTypeOK
<1>2. ASSUME NEW r \in Request, request[r].pc \in Working \cup {"claim"}
      PROVE  request[r].s \in Session /\ request[r].n \in Steps
  BY <1>2, WorkingRow DEF UploadInv, Working
<1>3. ASSUME NEW r \in Request, Claim(r) PROVE FALSE
  BY <1>1, <1>2, <1>3 DEF Claim
<1>4. ASSUME NEW r \in Request, Release(r) PROVE FALSE
  BY <1>1, <1>2, <1>4 DEF Release, Working
<1>5. ASSUME NEW r \in Request, Finalize(r)
      PROVE  request[r].s = s /\ request[r].n = n
  BY <1>1, <1>2, <1>5 DEF Finalize, Working
<1>6. ASSUME NEW t \in Session, NEW m \in Steps, Age(t, m) PROVE FALSE
  BY <1>1, <1>6 DEF Age
<1>7. CASE \E r \in Request : Serve(r)
  BY <1>3, <1>4, <1>5, <1>7 DEF Serve, Handle, Refuse, Guard, HandshakeRead, HandshakeWrite,
     ReadSnapshot, ClaimBusy, Replay, CheckUpload, WriteManifest, WriteChunk, AdvanceSession, Verify,
     Commit, Throw, Crash
<1>8. key' # key
  OBVIOUS
<1>9. QED
  BY <1>6, <1>7, <1>8 DEF Next, Serve, Browser, Mint, RetryMint, ExpireOnRead, PassExpiry,
     Revoke, StartRun, Send, GiveUp, vars

LEMMA KeyStep ==
  ASSUME UploadInv, [Next]_vars
  PROVE  KeyInv'
<1> SUFFICES ASSUME NEW s \in Session, NEW n \in Steps, key'[s][n] = "done"
             PROVE  DoneBefore(s, n)' /\ Stored(s, n)'
  BY DEF KeyInv
<1>1. Grows
  BY GrowsStep
<1>2. CASE key[s][n] = "done"
  <2>1. DoneBefore(s, n) /\ Stored(s, n)
    BY <1>2 DEF UploadInv, KeyInv
  <2>2. QED
    BY <1>1, <1>2, <2>1, StaysStored DEF DoneBefore, Grows
<1>3. CASE key[s][n] # "done"
  <2>1. PICK r \in Request : Finalize(r) /\ request[r].s = s /\ request[r].n = n
    BY <1>3, DoneByFinalize
  <2>2. request[r].pc = "finalize" /\ request[r] # Idle /\ snapshot' = snapshot
    BY <2>1 DEF Finalize, Idle
  <2>3. Knows(request[r])
    BY <2>2 DEF UploadInv, KnowsInv
  <2>4. DoneBefore(s, n) /\ Stored(s, n)
    BY <2>1, <2>2, <2>3 DEF Knows
  <2>5. QED
    BY <1>1, <2>2, <2>4 DEF DoneBefore, Grows, Stored
<1>4. QED
  BY <1>2, <1>3

(* A run is told "ok" of the handshake and of a step whose key is final.   *)
LEMMA OkMeansDone ==
  ASSUME UploadInv, [Next]_vars, NEW r \in Request, Serve(r), Ends(r)
  PROVE  \E answer \in {"ok", "retry", "fatal"} :
           /\ Answer(r, answer)
           /\ answer = "ok" /\ request[r].n \in Steps => key'[request[r].s][request[r].n] = "done"
<1>1. key \in [Session -> [Steps -> {"free", "pending", "old", "done"}]]
  BY DEF UploadInv, BaseInv, SyncTypeOK
<1>2. CASE HandshakeWrite(r)
  <2>1. request[r].n = 0
    BY <1>2, RowFacts DEF HandshakeWrite, UploadInv, BaseInv, WaitInv, Placed, Idle
  <2>2. QED
    BY <1>2, <2>1, PlanFacts DEF HandshakeWrite
<1>3. CASE Replay(r)
  BY <1>3 DEF Replay
<1>4. CASE Finalize(r)
  <2>1. request[r].s \in Session /\ request[r].n \in Steps /\ request[r] # Idle
        /\ request[r].pc \in Working
    BY <1>4, WorkingRow DEF Finalize, UploadInv, Working
  <2>2. key[request[r].s][request[r].n] = "pending"
    BY <2>1 DEF UploadInv, KnowsInv, Knows
  <2>3. key'[request[r].s][request[r].n] = "done"
    BY <1>1, <1>4, <2>1, <2>2 DEF Finalize, Pending
  <2>4. QED
    BY <1>4, <2>3 DEF Finalize
<1>5. CASE Answer(r, "fatal") \/ Answer(r, "retry")
  BY <1>5
<1>6. CASE request'[r] # Idle
  BY <1>6 DEF Ends, Answer, UploadInv, BaseInv, SyncTypeOK
<1>7. CASE Refuse(r) \/ ClaimBusy(r) \/ Release(r) \/ Crash(r)
  BY <1>5, <1>7 DEF Refuse, ClaimBusy, Release, Crash
<1>8. CASE Guard(r) \/ HandshakeRead(r) \/ ReadSnapshot(r)
  <2>1. \A q \in {r} : request[q] # Idle /\ request[q] \in RequestRow
    BY <1>8, RowFacts DEF Guard, HandshakeRead, ReadSnapshot, Idle, UploadInv, BaseInv
  <2>2. ASSUME ~Answer(r, "fatal") PROVE request'[r] # Idle
    BY <1>8, <2>1, <2>2 DEF Guard, HandshakeRead, ReadSnapshot, UploadInv, BaseInv, SyncTypeOK, RequestRow, Idle
  <2>3. QED
    BY <1>5, <1>6, <2>2
<1>9. CASE ~(Guard(r) \/ HandshakeRead(r) \/ ReadSnapshot(r))
  <2>1. request \in [Request -> {Idle} \cup RequestRow] /\ request[r] # Idle
    BY DEF Ends, UploadInv, BaseInv, SyncTypeOK, RequestRow
  <2>2. ASSUME NEW pc \in Working, Goto(r, pc)
        PROVE  request'[r] # Idle
    BY <2>1, <2>2 DEF Goto, Idle, RequestRow, Working
  <2>3. CASE CheckUpload(r)
    BY <1>6, <2>1, <2>2, <2>3 DEF CheckUpload, Idle, RequestRow, Working
  <2>4. CASE \/ Claim(r) \/ WriteManifest(r) \/ WriteChunk(r) \/ AdvanceSession(r)
             \/ Verify(r) \/ Commit(r) \/ Throw(r)
    BY <1>6, <2>2, <2>4 DEF Claim, WriteManifest, WriteChunk, AdvanceSession, Verify, Commit,
       Throw, Working
  <2>5. QED
    BY <1>2, <1>3, <1>4, <1>7, <1>9, <2>3, <2>4 DEF Serve, Handle
<1>10. QED
  BY <1>8, <1>9

LEMMA ToldStep ==
  ASSUME UploadInv, [Next]_vars
  PROVE  ToldInv'
<1>0. /\ runner \in [Runner -> RunnerRow] /\ Grows /\ ToldInv
      /\ \A c \in Runner : runner[c].s \in Session /\ Told(runner[c]) \subseteq Steps
  BY GrowsStep DEF UploadInv, BaseInv, SyncTypeOK, RunnerRow, Told
<1>1. ASSUME NEW c \in Runner, runner'[c].s = runner[c].s,
             Told(runner'[c]) \subseteq Told(runner[c]),
             runner'[c].state = "off" <=> runner[c].state = "off"
      PROVE  /\ \A n \in Told(runner'[c]) : key'[runner'[c].s][n] = "done"
             /\ runner'[c].state # "off" => session'[runner'[c].s].status # "none"
  BY <1>0, <1>1 DEF ToldInv, Grows
<1>2. ASSUME NEW r \in Request, Serve(r)
      PROVE  ToldInv'
  <2>1. CASE Moves(r)
    <3>1. runner' = runner
      BY <2>1 DEF Moves
    <3>2. QED
      BY <1>1, <3>1 DEF ToldInv, Told
  <2>2. CASE Ends(r)
    <3>1. PICK answer \in {"ok", "retry", "fatal"} :
            /\ Answer(r, answer)
            /\ answer = "ok" /\ request[r].n \in Steps => key'[request[r].s][request[r].n] = "done"
      BY <1>2, <2>2, OkMeansDone
    <3>2. request[r] # Idle
      BY <2>2 DEF Ends
    <3>3. /\ \A c \in Runner : runner'[c].s = runner[c].s
          /\ \A c \in Runner : runner'[c].state = "off" <=> runner[c].state = "off"
          /\ \A c \in Runner \ request[r].by : runner'[c] = runner[c]
          /\ \A c \in request[r].by :
               Told(runner'[c]) \subseteq IF answer = "ok" THEN Told(runner[c]) \cup {request[r].n}
                                                          ELSE Told(runner[c])
      BY <3>1, <3>2, AnswerFacts DEF UploadInv
    <3>4. \A c \in request[r].by : runner[c].s = request[r].s
      BY <3>2 DEF UploadInv, BaseInv, WaitInv
    <3>5. \A c \in Runner : Told(runner'[c]) \subseteq Steps
      BY DEF Told
    <3>6. ASSUME NEW c \in Runner
          PROVE  /\ \A n \in Told(runner'[c]) : key'[runner'[c].s][n] = "done"
                 /\ runner'[c].state # "off" => session'[runner'[c].s].status # "none"
      <4>1. CASE c \notin request[r].by
        BY <1>1, <3>3, <4>1
      <4>2. CASE c \in request[r].by /\ answer # "ok"
        BY <1>1, <3>3, <4>2
      <4>3. CASE c \in request[r].by /\ answer = "ok"
        <5>1. \A n \in Told(runner[c]) : key'[runner[c].s][n] = "done"
          BY <1>0 DEF ToldInv, Grows
        <5>2. \A n \in Told(runner'[c]) : n \in Told(runner[c]) \/ n = request[r].n
          BY <3>3, <4>3
        <5>3. \A n \in Told(runner'[c]) : key'[runner'[c].s][n] = "done"
          BY <3>1, <3>3, <3>4, <3>5, <4>3, <5>1, <5>2
        <5>4. runner'[c].state # "off" => session'[runner'[c].s].status # "none"
          BY <1>0, <3>3 DEF ToldInv, Grows
        <5>5. QED
          BY <5>3, <5>4
      <4>4. QED
        BY <4>1, <4>2, <4>3
    <3>7. QED
      BY <3>6 DEF ToldInv, Told
  <2>3. QED
    BY <1>2, <2>1, <2>2, ServedMovesOrEnds DEF UploadInv
<1>3. ASSUME NEW c \in Runner, runner' = [runner EXCEPT ![c] = runner'[c]],
             /\ \A n \in Told(runner'[c]) : key'[runner'[c].s][n] = "done"
             /\ runner'[c].state # "off" => session'[runner'[c].s].status # "none"
      PROVE  ToldInv'
  <2>1. \A d \in Runner : d # c => runner'[d] = runner[d]
    BY <1>0, <1>3
  <2>2. QED
    BY <1>1, <1>3, <2>1 DEF ToldInv, Told
<1>4. ASSUME NEW c \in Runner, NEW r \in Request, Send(c, r)
      PROVE  ToldInv'
  <2>1. runner' = [runner EXCEPT ![c].state = "waiting"] /\ runner[c].state = "ready"
    BY <1>4 DEF Send
  <2>2. runner' = [runner EXCEPT ![c] = runner'[c]]
        /\ runner'[c].s = runner[c].s /\ runner'[c].at = runner[c].at
        /\ runner'[c].state = "waiting"
    BY <1>0, <2>1 DEF RunnerRow
  <2>3. Told(runner'[c]) \subseteq Told(runner[c])
    BY <2>1, <2>2 DEF Told
  <2>4. QED
    BY <1>1, <1>3, <2>1, <2>2, <2>3
<1>5. ASSUME NEW c \in Runner, NEW r \in Request, GiveUp(c, r)
      PROVE  ToldInv'
  <2>1. runner' = [runner EXCEPT ![c] = Heard(runner[c], "retry")]
        /\ request[r] # Idle /\ c \in request[r].by
    BY <1>5 DEF GiveUp, WaitsFor
  <2>2. runner[c].state = "waiting" /\ runner[c] \in RunnerRow
    BY <1>0, <2>1 DEF UploadInv, BaseInv, WaitInv
  <2>3. /\ Heard(runner[c], "retry").s = runner[c].s
        /\ Heard(runner[c], "retry").state # "off"
        /\ Told(Heard(runner[c], "retry")) \subseteq Told(runner[c])
    BY <2>2, HeardFacts
  <2>4. runner'[c] = Heard(runner[c], "retry") /\ runner' = [runner EXCEPT ![c] = runner'[c]]
    BY <1>0, <2>1
  <2>5. QED
    BY <1>1, <1>3, <2>2, <2>3, <2>4
<1>6. ASSUME NEW c \in Runner, NEW s \in Session, StartRun(c, s)
      PROVE  ToldInv'
  <2>1. runner' = [runner EXCEPT ![c] = [state |-> "ready", s |-> s, at |-> 0, tries |-> 1]]
        /\ session[s].status # "none" /\ session' = session
    BY <1>6 DEF StartRun
  <2>2. /\ runner'[c] = [state |-> "ready", s |-> s, at |-> 0, tries |-> 1]
        /\ runner' = [runner EXCEPT ![c] = runner'[c]]
    BY <1>0, <2>1
  <2>3. Told(runner'[c]) = {}
    BY <2>2, PlanFacts DEF Told
  <2>4. session'[runner'[c].s].status # "none"
    BY <2>1, <2>2
  <2>5. \A n \in Told(runner'[c]) : key'[runner'[c].s][n] = "done"
    BY <2>3
  <2>6. QED
    BY <1>3, <2>2, <2>4, <2>5
<1>7. CASE runner' = runner
  BY <1>1, <1>7 DEF ToldInv, Told
<1>8. QED
  BY <1>2, <1>4, <1>5, <1>6, <1>7 DEF Next, Serve, Browser, Mint, RetryMint, ExpireOnRead,
     PassExpiry, Revoke, Age, vars

LEMMA UploadInvAlways ==
  ASSUME NoStall
  PROVE  Spec => []UploadInv
<1>1. Init => UploadInv
  <2> SUFFICES ASSUME Init PROVE UploadInv
    OBVIOUS
  <2>1. /\ (CHOOSE s \in Session : TRUE) \in Session
        /\ 0 \in 0 .. Len(Plan) /\ 1 \in 1 .. MaxAttempts /\ 0 \in 0 .. MaxFaults
    BY PlanFacts, PlanAssumption
  <2>2. SyncTypeOK
    BY <2>1 DEF Init, SyncTypeOK, Status, Terminal
  <2>3. /\ \A r \in Request : request[r] = Idle
        /\ \A c \in Runner : Told(runner[c]) = {} /\ runner[c].state = "off"
    BY PlanFacts DEF Init, Told
  <2>4. WaitInv /\ KnowsInv
    BY <2>3 DEF WaitInv, KnowsInv
  <2>5. Exclusive
    BY <2>3 DEF Exclusive, Idle, Working
  <2>6. KeyInv
    BY DEF Init, KeyInv
  <2>7. ToldInv
    BY <2>3 DEF ToldInv
  <2>8. QED
    BY <2>2, <2>4, <2>5, <2>6, <2>7 DEF UploadInv, BaseInv
<1>2. UploadInv /\ [Next]_vars => UploadInv'
  BY BaseStep, KnowsStep, ExclusiveStep, KeyStep, ToldStep DEF UploadInv
<1>3. QED
  BY <1>1, <1>2, PTL DEF Spec

-----------------------------------------------------------------------------
(* A snapshot that is uploaded is whole, and every step before the last is *)
(* final, so that no request writes it again.                              *)

WholeInv ==
    /\ UploadedIsWhole
    /\ \A s \in Session : snapshot[s].status = "uploaded" => DoneBefore(s, Len(Plan))

LEMMA WholeStep ==
  ASSUME UploadInv, WholeInv, [Next]_vars
  PROVE  WholeInv'
<1>0. /\ snapshot \in [Session -> SnapshotRow] /\ Grows
  BY GrowsStep DEF UploadInv, BaseInv, SyncTypeOK, SnapshotRow
<1>1. ASSUME NEW s \in Session, snapshot[s].status = "uploaded", snapshot'[s] = snapshot[s]
      PROVE  /\ snapshot'[s].manifest = File /\ snapshot'[s].rows = Chunk
             /\ snapshot'[s].count = Cardinality(File) /\ DoneBefore(s, Len(Plan))'
  BY <1>0, <1>1 DEF WholeInv, UploadedIsWhole, DoneBefore, Grows
<1>2. ASSUME \A s \in Session : snapshot'[s].status = "uploaded" =>
                snapshot[s].status = "uploaded" /\ snapshot'[s] = snapshot[s]
      PROVE  WholeInv'
  BY <1>1, <1>2 DEF WholeInv, UploadedIsWhole
<1>3. ASSUME NEW r \in Request, request[r].pc = "write"
      PROVE  request[r].s \in Session /\ snapshot[request[r].s].status # "uploaded"
  <2>1. request[r].s \in Session /\ request[r].n \in Steps /\ request[r] # Idle
    BY <1>3, WorkingRow DEF UploadInv
  <2>2. Knows(request[r])
    BY <2>1 DEF UploadInv, KnowsInv
  <2>3. request[r].n < Len(Plan) /\ key[request[r].s][request[r].n] = "pending"
    BY <1>3, <2>1, <2>2, PlanFacts DEF Knows, Working
  <2>4. QED
    BY <2>1, <2>3 DEF WholeInv, DoneBefore
<1>4. ASSUME NEW r \in Request, Serve(r)
      PROVE  WholeInv'
  <2>1. CASE snapshot' = snapshot
    BY <1>2, <2>1
  <2>2. CASE HandshakeWrite(r)
    <3>1. request[r].s \in Session
      BY <2>2, RowFacts DEF HandshakeWrite, UploadInv, BaseInv, RequestRow, Idle
    <3>2. QED
      BY <1>0, <1>2, <2>2, <3>1 DEF HandshakeWrite, SnapshotRow
  <2>3. CASE WriteManifest(r)
    <3>1. request[r].pc = "write"
      BY <2>3 DEF WriteManifest
    <3>2. QED
      BY <1>0, <1>2, <1>3, <2>3, <3>1 DEF WriteManifest, SnapshotRow
  <2>4. CASE WriteChunk(r)
    <3>1. request[r].pc = "write"
      BY <2>4 DEF WriteChunk
    <3>2. QED
      BY <1>0, <1>2, <1>3, <2>4, <3>1 DEF WriteChunk, SnapshotRow
  <2>5. CASE Commit(r)
    <3> DEFINE s == request[r].s
    <3>1. request[r].pc = "commit" /\ s \in Session /\ request[r].n \in Steps
          /\ request[r] # Idle /\ request[r] \in RequestRow
      BY <2>5, WorkingRow DEF Commit, UploadInv
    <3>2. Knows(request[r])
      BY <3>1 DEF UploadInv, KnowsInv
    <3>3. request[r].n = Len(Plan) /\ DoneBefore(s, Len(Plan))
      BY <3>1, <3>2, PlanFacts DEF Knows
    <3>4. \A m \in OfKind("manifest") \cup OfKind("file") : m \in Steps /\ m < Len(Plan)
      BY PlanFacts DEF OfKind
    <3>5. request[r].manifest = File
      <4>1. \A m \in OfKind("manifest") : Plan[m].files \subseteq request[r].manifest
        BY <3>1, <3>2, <3>3, <3>4 DEF Knows, Working
      <4>2. UNION {Plan[n].files : n \in OfKind("manifest")} = File
        BY PlanAssumption
      <4>3. request[r].manifest \subseteq File
        BY <3>1 DEF RequestRow
      <4>4. QED
        BY <4>1, <4>2, <4>3
    <3>6. snapshot[s].rows = Chunk
      <4>1. \A m \in OfKind("file") : Plan[m].chunk \in snapshot[s].rows
        BY <3>1, <3>3, <3>4 DEF DoneBefore, UploadInv, KeyInv, Stored, OfKind, Kind
      <4>2. {Plan[n].chunk : n \in OfKind("file")} = Chunk
        BY PlanAssumption
      <4>3. snapshot[s].rows \subseteq Chunk
        BY <1>0, <3>1 DEF SnapshotRow
      <4>4. QED
        BY <4>1, <4>2, <4>3
    <3>7. /\ snapshot'[s].manifest = request[r].manifest
          /\ snapshot'[s].rows = snapshot[s].rows
          /\ snapshot'[s].count = Cardinality(File)
          /\ \A t \in Session : t # s => snapshot'[t] = snapshot[t]
      BY <1>0, <2>5, <3>1 DEF Commit, SnapshotRow
    <3>8. ASSUME NEW t \in Session, snapshot'[t].status = "uploaded"
          PROVE  /\ snapshot'[t].manifest = File /\ snapshot'[t].rows = Chunk
                 /\ snapshot'[t].count = Cardinality(File) /\ DoneBefore(t, Len(Plan))'
      <4>1. CASE t = s
        BY <1>0, <3>3, <3>5, <3>6, <3>7, <4>1 DEF DoneBefore, Grows
      <4>2. CASE t # s
        BY <1>1, <3>7, <3>8, <4>2
      <4>3. QED
        BY <4>1, <4>2
    <3>9. QED
      BY <3>8 DEF WholeInv, UploadedIsWhole
  <2>6. QED
    BY <1>4, <2>1, <2>2, <2>3, <2>4, <2>5 DEF Serve, Handle, Refuse, Guard, HandshakeRead,
       ReadSnapshot, Claim, ClaimBusy, Replay, CheckUpload, AdvanceSession, Verify, Finalize, Release,
       Throw, Crash
<1>5. CASE snapshot' = snapshot
  BY <1>2, <1>5
<1>6. QED
  BY <1>4, <1>5 DEF Next, Serve, Browser, Mint, RetryMint, ExpireOnRead, PassExpiry, Revoke,
     StartRun, Send, GiveUp, Age, vars

StateInv == UploadInv /\ WholeInv

LEMMA StateInvAlways ==
  ASSUME NoStall
  PROVE  Spec => []StateInv
<1>1. Init => WholeInv
  BY DEF Init, WholeInv, UploadedIsWhole
<1>2. UploadInv /\ WholeInv /\ [Next]_vars => WholeInv'
  BY WholeStep
<1>3. QED
  BY <1>1, <1>2, UploadInvAlways, PTL DEF Spec, StateInv

-----------------------------------------------------------------------------

(* The tables and the processes hold values of the code.                   *)
THEOREM SyncTypeTheorem ==
  ASSUME NoStall
  PROVE  Spec => []SyncTypeOK
<1>1. UploadInv => SyncTypeOK
  BY DEF UploadInv, BaseInv
<1>2. QED
  BY <1>1, UploadInvAlways, PTL

(* Requests of one session never work at the same time, whatever times     *)
(* out, fails and is repeated (the claim of upload.server.ts).             *)
THEOREM InterleaveTheorem ==
  ASSUME NoStall
  PROVE  Spec => []NeverInterleave
BY NoInterleaving, UploadInvAlways, PTL

(* What a run was told is stored stays stored (manifest.ts merges into a   *)
(* copy that it read before the claim).                                    *)
THEOREM StoredTheorem ==
  ASSUME NoStall
  PROVE  Spec => []AcknowledgedIsStored
<1>1. UploadInv => AcknowledgedIsStored
  <2> SUFFICES ASSUME UploadInv, NEW c \in Runner, NEW n \in Acknowledged(c)
               PROVE  LET snap == snapshot[runner[c].s] IN
                      CASE Kind(n) = "manifest" -> Plan[n].files \subseteq snap.manifest
                        [] Kind(n) = "file" -> Plan[n].chunk \in snap.rows
                        [] OTHER -> snap.status = "uploaded"
    BY DEF AcknowledgedIsStored
  <2>1. n \in Steps /\ n \in Told(runner[c]) /\ runner[c].s \in Session
    BY DEF Acknowledged, Told, UploadInv, BaseInv, SyncTypeOK
  <2>2. Stored(runner[c].s, n)
    BY <2>1 DEF UploadInv, ToldInv, KeyInv
  <2>3. QED
    BY <2>1, <2>2, PlanFacts DEF Stored
<1>2. QED
  BY <1>1, UploadInvAlways, PTL

(* A snapshot that became uploaded holds the whole repository (complete.ts *)
(* verifies a copy of the manifest, and writes whatever the row became).   *)
THEOREM WholeTheorem ==
  ASSUME NoStall
  PROVE  Spec => []UploadedIsWhole
<1>1. StateInv => UploadedIsWhole
  BY DEF StateInv, WholeInv
<1>2. QED
  BY <1>1, StateInvAlways, PTL
=============================================================================
