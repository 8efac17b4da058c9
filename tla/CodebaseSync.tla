------------------------------ MODULE CodebaseSync ------------------------------
(***************************************************************************)
(* Upload of a repository to the server: the browser mints a sync session  *)
(* for one codebase, the command-line client uploads the manifest in       *)
(* batches, then the chunks of every file, then completes the snapshot.    *)
(* Every request carries the idempotency key of its step; the server       *)
(* claims the key before it works and finalizes or releases it after.      *)
(*                                                                         *)
(* A request is a process with the rows it read so far in its record: the  *)
(* guard reads the session and the snapshot before the claim, and the      *)
(* handler goes on with those values.  A client that gives up waiting      *)
(* leaves its request running.                                             *)
(***************************************************************************)
EXTENDS Naturals, FiniteSets, Sequences

CONSTANTS
    Session,      \* rows of codebase_sync_sessions of one codebase
    Runner,       \* runs of the command-line client
    Request,      \* requests the server can be working on
    Chunk,        \* chunk slots <<path, index>> of the repository
    PathOf,       \* the path of a chunk
    Plan,         \* what a run sends after the handshake, in order
    MaxAttempts,  \* SYNC_MAX_ATTEMPTS
    MaxFaults,    \* bound: timeouts, errors and crashes in a behaviour
    MayStall      \* may a live request outlast CODEBASE_SYNC_CLAIM_STALE_MS?

File == {PathOf[c] : c \in Chunk}
Steps == DOMAIN Plan
Kind(n) == Plan[n].kind
OfKind(k) == {n \in Steps : Kind(n) = k}

ASSUME PlanAssumption ==
    /\ PathOf \in [Chunk -> File]
    /\ Plan \in Seq([kind : {"manifest"}, files : SUBSET File]
                    \cup [kind : {"file"}, chunk : Chunk]
                    \cup [kind : {"complete"}])
    /\ UNION {Plan[n].files : n \in OfKind("manifest")} = File
    /\ {Plan[n].chunk : n \in OfKind("file")} = Chunk
    /\ OfKind("complete") = {Len(Plan)}
    /\ \A m \in OfKind("manifest"), n \in OfKind("file") : m < n
    /\ MaxAttempts \in Nat \ {0} /\ MaxFaults \in Nat /\ MayStall \in BOOLEAN
    /\ Session # {}

VARIABLES
    session,   \* rows of codebase_sync_sessions
    snapshot,  \* the snapshot the handshake bound to a session
    key,       \* rows of codebase_sync_idempotency_keys
    request,   \* requests on the server, with what they have read
    runner,    \* runs of the client
    faults     \* bound: faults so far

vars == <<session, snapshot, key, request, runner, faults>>

Terminal == {"ready", "failed", "expired"}
Status == {"none", "waiting_for_cli", "connected", "scanning", "filtering",
           "uploading", "uploaded", "analyzing"} \cup Terminal
Idle == [pc |-> "idle"]

\* getSessionUsability, in the order of its checks.
PastExpiry(s) == ~session[s].consumed /\ session[s].late
Usable(s) == /\ session[s].status \notin Terminal \cup {"none"}
             /\ ~session[s].consumed /\ ~session[s].late
\* A session that keeps another from being minted.
Active(s) == Usable(s) /\ session[s].status \notin {"uploaded", "analyzing"}

Init ==
    /\ session = [s \in Session |-> [status |-> "none", consumed |-> FALSE,
                                     late |-> FALSE, version |-> FALSE]]
    /\ snapshot = [s \in Session |-> [status |-> "none", manifest |-> {},
                                      rows |-> {}, count |-> 0]]
    /\ key = [s \in Session |-> [n \in Steps |-> "free"]]
    /\ request = [r \in Request |-> Idle]
    /\ runner = [c \in Runner |-> [state |-> "off", s |-> CHOOSE s \in Session : TRUE,
                                   at |-> 0, tries |-> 1]]
    /\ faults = 0

-----------------------------------------------------------------------------
(***************************************************************************)
(* The browser.                                                            *)
(***************************************************************************)

\* POST {}: one advisory lock per codebase, refused while a session is active.
Mint(s) ==
    /\ session[s].status = "none"
    /\ ~\E t \in Session : Active(t)
    /\ session' = [session EXCEPT ![s].status = "waiting_for_cli"]
    /\ UNCHANGED <<snapshot, key, request, runner, faults>>

\* POST {action: "retry"}: the active sessions are revoked in the same
\* transaction that mints the replacement.
RetryMint(s) ==
    /\ session[s].status = "none"
    /\ session' = [t \in Session |->
           IF t = s THEN [session[t] EXCEPT !.status = "waiting_for_cli"]
           ELSE IF Active(t)
                THEN [session[t] EXCEPT !.status = "expired", !.consumed = TRUE]
                ELSE session[t]]
    /\ UNCHANGED <<snapshot, key, request, runner, faults>>

\* DELETE: every usable credential of the codebase, in one statement.
Revoke ==
    /\ \E s \in Session : Usable(s)
    /\ session' = [s \in Session |->
           IF Usable(s)
           THEN [session[s] EXCEPT !.status = "expired", !.consumed = TRUE]
           ELSE session[s]]
    /\ UNCHANGED <<snapshot, key, request, runner, faults>>

\* The half hour of a session is over.
PassExpiry(s) ==
    /\ session[s].status # "none" /\ ~session[s].late
    /\ session' = [session EXCEPT ![s].late = TRUE]
    /\ UNCHANGED <<snapshot, key, request, runner, faults>>

\* GET of the session marks the row of an expired session, whatever its status.
ExpireOnRead(s) ==
    /\ PastExpiry(s) /\ session[s].status \notin {"none", "expired"}
    /\ session' = [session EXCEPT ![s].status = "expired"]
    /\ UNCHANGED <<snapshot, key, request, runner, faults>>

-----------------------------------------------------------------------------
(***************************************************************************)
(* The client.  Step 0 is the handshake.  A step that fails for a reason   *)
(* that may pass is retried from the first step of its loop (the manifest  *)
(* batches together, the chunks of one file together), with the same keys; *)
(* any other failure ends the run.                                         *)
(***************************************************************************)

\* Do steps m and n belong to one withSyncRetry call?
SameLoop(m, n) ==
    /\ Kind(m) = Kind(n)
    /\ Kind(n) = "file" => PathOf[Plan[m].chunk] = PathOf[Plan[n].chunk]
LoopStart(n) ==
    IF n = 0 THEN 0
    ELSE CHOOSE m \in 1..n : /\ SameLoop(m, n)
                             /\ \A k \in 1..(m - 1) : ~SameLoop(k, n)

\* What a run does with an answer: "ok", "fatal", or "retry" (apiRequest's retryable).
Heard(run, answer) ==
    CASE answer = "ok" ->
            IF run.at = Len(Plan) THEN [run EXCEPT !.state = "done"]
            ELSE [run EXCEPT !.state = "ready", !.at = @ + 1,
                             !.tries = IF LoopStart(run.at + 1) = run.at + 1
                                       THEN 1 ELSE @]
      [] answer = "retry" /\ run.tries < MaxAttempts ->
            [run EXCEPT !.state = "ready", !.tries = @ + 1,
                        !.at = LoopStart(@)]
      [] OTHER -> [run EXCEPT !.state = "failed"]

\* syncCodebase starts, with the token of session s.
StartRun(c, s) ==
    /\ runner[c].state \in {"off", "failed", "done"}
    /\ session[s].status # "none"
    /\ runner' = [runner EXCEPT ![c] = [state |-> "ready", s |-> s,
                                        at |-> 0, tries |-> 1]]
    /\ UNCHANGED <<session, snapshot, key, request, faults>>

Send(c, r) ==
    /\ runner[c].state = "ready" /\ request[r] = Idle
    /\ runner' = [runner EXCEPT ![c].state = "waiting"]
    /\ request' = [request EXCEPT ![r] =
           [pc |-> "guard", s |-> runner[c].s, n |-> runner[c].at, by |-> {c},
            status |-> "none", snap |-> "none", manifest |-> {}, rows |-> {}]]
    /\ UNCHANGED <<session, snapshot, key, faults>>

WaitsFor(c, r) == request[r] # Idle /\ c \in request[r].by

\* The client's timeout, or a broken connection: the request goes on alone.
GiveUp(c, r) ==
    /\ WaitsFor(c, r) /\ faults < MaxFaults
    /\ runner' = [runner EXCEPT ![c] = Heard(@, "retry")]
    /\ request' = [request EXCEPT ![r].by = {}]
    /\ faults' = faults + 1
    /\ UNCHANGED <<session, snapshot, key>>

-----------------------------------------------------------------------------
(***************************************************************************)
(* The server.                                                             *)
(***************************************************************************)

Goto(r, pc) == request' = [request EXCEPT ![r].pc = pc]

\* The request ends; the run that still waits for it hears the answer.
Answer(r, answer) ==
    /\ request' = [request EXCEPT ![r] = Idle]
    /\ runner' = [c \in Runner |-> IF c \in request[r].by
                                   THEN Heard(runner[c], answer) ELSE runner[c]]

\* The request read the session and refuses it; an expired one is marked first.
Refuse(r) ==
    LET s == request[r].s IN
    /\ request[r].pc = "guard" /\ ~Usable(s)
    /\ session' = IF PastExpiry(s) THEN [session EXCEPT ![s].status = "expired"]
                                   ELSE session
    /\ Answer(r, "fatal")
    /\ UNCHANGED <<snapshot, key, faults>>

\* guardSyncUpload up to the version gate; the handshake's own guard is the same.
Guard(r) ==
    LET s == request[r].s IN
    /\ request[r].pc = "guard" /\ Usable(s)
    /\ IF request[r].n > 0 /\ ~session[s].version
       THEN Answer(r, "fatal")
       ELSE /\ request' = [request EXCEPT ![r].status = session[s].status,
                  ![r].pc = IF request[r].n = 0 THEN "handshake" ELSE "bound"]
            /\ UNCHANGED runner
    /\ UNCHANGED <<session, snapshot, key, faults>>

\* The handshake's transaction takes an advisory lock of the session and reads
\* the status again, without a lock of the row ...
HandshakeRead(r) ==
    LET s == request[r].s IN
    /\ request[r].pc = "handshake"
    /\ ~\E q \in Request : request[q].pc = "shaking" /\ request[q].s = s
    /\ request' = [request EXCEPT ![r].pc = "shaking", ![r].status =
           IF session[s].status = "waiting_for_cli" THEN "connected"
                                                    ELSE session[s].status]
    /\ UNCHANGED <<session, snapshot, key, runner, faults>>

\* ... writes back what it read, whatever the session has become since, and binds
\* the snapshot.
HandshakeWrite(r) ==
    LET s == request[r].s IN
    /\ request[r].pc = "shaking"
    /\ session' = [session EXCEPT ![s].version = TRUE, ![s].status = request[r].status]
    /\ snapshot' = IF snapshot[s].status = "none"
                   THEN [snapshot EXCEPT ![s].status = "uploading"] ELSE snapshot
    /\ Answer(r, "ok")
    /\ UNCHANGED <<key, faults>>

\* The guard reads the snapshot row; the handler uses this copy from now on.
ReadSnapshot(r) ==
    LET s == request[r].s IN
    /\ request[r].pc = "bound"
    /\ IF snapshot[s].status = "none"
       THEN Answer(r, "fatal")
       ELSE /\ request' = [request EXCEPT ![r].pc = "claim",
                  ![r].snap = snapshot[s].status, ![r].manifest = snapshot[s].manifest]
            /\ UNCHANGED runner
    /\ UNCHANGED <<session, snapshot, key, faults>>

\* Faulty: a pending key is not claimed again however old it is.
ClaimNoStealVariant(r) ==
    LET s == request[r].s  n == request[r].n IN
    /\ request[r].pc = "claim" /\ key[s][n] = "free"
    /\ key' = [key EXCEPT ![s][n] = "pending"]
    /\ Goto(r, "check")
    /\ UNCHANGED <<session, snapshot, runner, faults>>
\* Faulty: a pending key is claimed again at once.
ClaimPendingVariant(r) ==
    LET s == request[r].s  n == request[r].n IN
    /\ request[r].pc = "claim" /\ key[s][n] # "done"
    /\ key' = [key EXCEPT ![s][n] = "pending"]
    /\ Goto(r, "check")
    /\ UNCHANGED <<session, snapshot, runner, faults>>

\* claimIdempotency inserts the pending row, or takes over one older than the limit.
Claim(r) ==
    LET s == request[r].s  n == request[r].n IN
    /\ request[r].pc = "claim" /\ key[s][n] \in {"free", "old"}
    /\ key' = [key EXCEPT ![s][n] = "pending"]
    /\ Goto(r, "check")
    /\ UNCHANGED <<session, snapshot, runner, faults>>

\* "in-progress": 409, which the client does not retry.
ClaimBusy(r) ==
    /\ request[r].pc = "claim" /\ key[request[r].s][request[r].n] = "pending"
    /\ Answer(r, "fatal")
    /\ UNCHANGED <<session, snapshot, key, faults>>

\* "replay": the payload is compared with what is stored, the manifest with the
\* copy the guard read, a chunk with the rows as they are now.
Replay(r) ==
    LET s == request[r].s  n == request[r].n IN
    /\ request[r].pc = "claim" /\ key[s][n] = "done"
    /\ Answer(r, IF CASE Kind(n) = "manifest" -> Plan[n].files \subseteq request[r].manifest
                      [] Kind(n) = "file" -> Plan[n].chunk \in snapshot[s].rows
                      [] OTHER -> TRUE
                 THEN "ok" ELSE "fatal")
    /\ UNCHANGED <<session, snapshot, key, faults>>

UploadPath == {"connected", "scanning", "filtering", "uploading"}

\* A batch or a chunk needs the session to be on the upload path
\* (uploadTransitionSteps), as the guard read it.
CheckUpload(r) ==
    /\ request[r].pc = "check" /\ Kind(request[r].n) # "complete"
    /\ IF request[r].status \in UploadPath
       THEN request' = [request EXCEPT ![r].pc = "write",
                ![r].rows = snapshot[request[r].s].rows]
       ELSE Goto(r, "release")
    /\ UNCHANGED <<session, snapshot, key, runner, faults>>

\* Faulty: a batch replaces the manifest.
WriteReplaceVariant(r) ==
    LET s == request[r].s  n == request[r].n IN
    /\ request[r].pc = "write" /\ Kind(n) = "manifest"
    /\ snapshot' = [snapshot EXCEPT ![s].manifest = Plan[n].files]
    /\ Goto(r, IF request[r].status = "uploading" THEN "finalize" ELSE "advance")
    /\ UNCHANGED <<session, key, runner, faults>>

\* The batch is merged into the copy of the manifest and the result stored.
WriteManifest(r) ==
    LET s == request[r].s  n == request[r].n IN
    /\ request[r].pc = "write" /\ Kind(n) = "manifest"
    /\ snapshot' = [snapshot EXCEPT ![s].manifest = request[r].manifest \cup Plan[n].files]
    /\ Goto(r, IF request[r].status = "uploading" THEN "finalize" ELSE "advance")
    /\ UNCHANGED <<session, key, runner, faults>>

\* The row of the slot is inserted unless the rows read hold it.  The primary
\* key refuses a second row: the insert throws.
WriteChunk(r) ==
    LET s == request[r].s  n == request[r].n  c == Plan[n].chunk IN
    /\ request[r].pc = "write" /\ Kind(n) = "file"
    /\ IF c \notin request[r].rows /\ c \in snapshot[s].rows
       THEN Goto(r, "throw") /\ UNCHANGED snapshot
       ELSE /\ snapshot' = [snapshot EXCEPT ![s].rows = @ \cup {c}]
            /\ Goto(r, IF request[r].status = "uploading" THEN "finalize" ELSE "advance")
    /\ UNCHANGED <<session, key, runner, faults>>

\* The first batch moves the session to "uploading", whatever it has become since.
AdvanceSession(r) ==
    /\ request[r].pc = "advance"
    /\ session' = [session EXCEPT ![request[r].s].status = "uploading"]
    /\ Goto(r, "finalize")
    /\ UNCHANGED <<snapshot, key, runner, faults>>

\* Complete: an uploaded snapshot is answered as it is; otherwise the manifest
\* the guard read must hold as many entries as the client counted, with every
\* chunk of every entry, and no chunk of another path.
Verify(r) ==
    LET rows == snapshot[request[r].s].rows
        whole == /\ Cardinality(request[r].manifest) = Cardinality(File)
                 /\ rows = {c \in Chunk : PathOf[c] \in request[r].manifest}
    IN
    /\ request[r].pc = "check" /\ Kind(request[r].n) = "complete"
    /\ Goto(r, IF request[r].snap = "uploaded" THEN "finalize"
               ELSE IF request[r].status = "uploading" /\ whole THEN "commit"
               ELSE "release")
    /\ UNCHANGED <<session, snapshot, key, runner, faults>>

\* Snapshot and session become "uploaded" in one transaction, whatever they
\* have become since they were read.
Commit(r) ==
    LET s == request[r].s IN
    /\ request[r].pc = "commit"
    /\ snapshot' = [snapshot EXCEPT ![s] = [@ EXCEPT !.status = "uploaded",
           !.manifest = request[r].manifest, !.count = Cardinality(File)]]
    /\ session' = [session EXCEPT ![s].status = "uploaded"]
    /\ Goto(r, "finalize")
    /\ UNCHANGED <<key, runner, faults>>

Pending == {"pending", "old"}

\* finalizeIdempotencyClaim: the key's row, if it is still pending, by key alone.
Finalize(r) ==
    LET s == request[r].s  n == request[r].n IN
    /\ request[r].pc = "finalize"
    /\ key' = IF key[s][n] \in Pending THEN [key EXCEPT ![s][n] = "done"] ELSE key
    /\ Answer(r, "ok")
    /\ UNCHANGED <<session, snapshot, faults>>

\* releaseIdempotencyClaim: a handler that ends without finalizing deletes the
\* pending row of the key, by key alone; after an exception the answer is 500.
Release(r) ==
    LET s == request[r].s  n == request[r].n IN
    /\ request[r].pc \in {"release", "throw"}
    /\ key' = IF key[s][n] \in Pending THEN [key EXCEPT ![s][n] = "free"] ELSE key
    /\ Answer(r, IF request[r].pc = "throw" THEN "retry" ELSE "fatal")
    /\ UNCHANGED <<session, snapshot, faults>>

Claimed(r) == request[r].pc \in
    {"check", "write", "advance", "commit", "finalize", "release", "throw"}

\* A statement of a handler fails: the finally block runs.
Throw(r) ==
    /\ request[r].pc \in {"check", "write", "advance", "commit", "finalize"}
    /\ faults < MaxFaults
    /\ faults' = faults + 1
    /\ Goto(r, "throw")
    /\ UNCHANGED <<session, snapshot, key, runner>>

\* The server stops in the middle of a request, or fails before the claim:
\* nothing is released, and the client may try again.
Crash(r) ==
    /\ request[r] # Idle /\ faults < MaxFaults
    /\ faults' = faults + 1
    /\ Answer(r, "retry")
    /\ UNCHANGED <<session, snapshot, key>>

\* CODEBASE_SYNC_CLAIM_STALE_MS pass on a pending row.
Age(s, n) ==
    /\ key[s][n] = "pending"
    /\ MayStall \/ ~\E r \in Request : Claimed(r) /\ request[r].s = s /\ request[r].n = n
    /\ key' = [key EXCEPT ![s][n] = "old"]
    /\ UNCHANGED <<session, snapshot, request, runner, faults>>

Handle(r) ==
    \/ Refuse(r) \/ Guard(r) \/ HandshakeRead(r) \/ HandshakeWrite(r) \/ ReadSnapshot(r)
    \/ Claim(r) \/ ClaimBusy(r) \/ Replay(r)
    \/ CheckUpload(r) \/ WriteManifest(r) \/ WriteChunk(r) \/ AdvanceSession(r)
    \/ Verify(r) \/ Commit(r) \/ Finalize(r) \/ Release(r)

Browser == \/ \E s \in Session : Mint(s) \/ RetryMint(s) \/ ExpireOnRead(s) \/ PassExpiry(s)
           \/ Revoke

Next ==
    \/ Browser
    \/ \E c \in Runner : \/ \E s \in Session : StartRun(c, s)
                         \/ \E r \in Request : Send(c, r) \/ GiveUp(c, r)
    \/ \E r \in Request : Handle(r) \/ Throw(r) \/ Crash(r)
    \/ \E s \in Session, n \in Steps : Age(s, n)

\* A request runs on, a run sends its next step, a pending row grows old, and the
\* user starts the command again as long as the token is good.
Fairness ==
    /\ \A r \in Request : WF_vars(Handle(r))
    /\ \A c \in Runner : WF_vars(\E r \in Request : Send(c, r))
    /\ \A s \in Session, n \in Steps : WF_vars(Age(s, n))
    /\ \A s \in Session : WF_vars(Usable(s) /\ \E c \in Runner : StartRun(c, s))

Spec == Init /\ [][Next]_vars
FairSpec == Spec /\ Fairness

-----------------------------------------------------------------------------
(***************************************************************************)
(* Properties.                                                             *)
(***************************************************************************)

\* The tables and the processes hold values of the code (one type invariant).
SyncTypeOK ==
    /\ session \in [Session -> [status : Status, consumed : BOOLEAN,
                                late : BOOLEAN, version : BOOLEAN]]
    /\ snapshot \in [Session -> [status : {"none", "uploading", "uploaded"},
           manifest : SUBSET File, rows : SUBSET Chunk, count : Nat]]
    /\ key \in [Session -> [Steps -> {"free", "pending", "old", "done"}]]
    /\ request \in [Request -> {Idle} \cup
           [pc : {"guard", "handshake", "shaking", "bound", "claim", "check", "write", "advance",
                  "commit", "finalize", "release", "throw"},
            s : Session, n : 0..Len(Plan), by : SUBSET Runner, status : Status,
            snap : {"none", "uploading", "uploaded"},
            manifest : SUBSET File, rows : SUBSET Chunk]]
    /\ runner \in [Runner -> [state : {"off", "ready", "waiting", "done", "failed"},
           s : Session, at : 0..Len(Plan), tries : 1..MaxAttempts]]
    /\ faults \in 0..MaxFaults

\* A snapshot that became "uploaded" holds the whole repository: every entry the
\* client sent, every chunk of it, and the count that was checked (complete.ts).
UploadedIsWhole ==
    \A s \in Session : snapshot[s].status = "uploaded" =>
        /\ snapshot[s].manifest = File
        /\ snapshot[s].rows = Chunk
        /\ snapshot[s].count = Cardinality(File)

\* What a run was told is stored is stored: no later write of another request
\* takes it away (manifest.ts merges into a copy read before the claim).
Acknowledged(c) == {n \in Steps : n < runner[c].at
                                  \/ (runner[c].state = "done" /\ n = runner[c].at)}
AcknowledgedIsStored ==
    \A c \in Runner : \A n \in Acknowledged(c) :
        LET snap == snapshot[runner[c].s] IN
        CASE Kind(n) = "manifest" -> Plan[n].files \subseteq snap.manifest
          [] Kind(n) = "file" -> Plan[n].chunk \in snap.rows
          [] OTHER -> snap.status = "uploaded"

\* Two requests never work on one snapshot at a time: manifest.ts says so of its
\* merge, and upload.server.ts of a key ("can never both perform the upload").
NeverInterleave ==
    \A q, r \in Request : Claimed(q) /\ Claimed(r) /\ request[q].s = request[r].s => q = r

\* At most one session of a codebase can be used to start an upload (codebase-sync.ts
\* 390: "One usable credential per project").  A handshake that writes back what it
\* read before the upload was complete makes a finished session active again.
OneActiveSession ==
    \A s, t \in Session : Active(s) /\ Active(t) => s = t

\* A session in a terminal status stays there (codebase-sync.ts: "Terminal states
\* below keep zero outgoing transitions").
TerminalIsFinal ==
    [][\A s \in Session : session[s].status \in Terminal =>
                              session'[s].status = session[s].status]_vars

\* Every batch and chunk is stored and its key done, and a late handshake has set
\* the session back to what it read before the first of them: the completion needs
\* "uploading", and no request is left that would set it.
SetBack(s) ==
    /\ session[s].status = "connected"
    /\ \A n \in Steps : Kind(n) # "complete" => key[s][n] = "done"

\* If the user starts the command again as long as the token is good, the
\* repository arrives or the token is no longer good: no crash, lost answer or
\* pending key blocks an upload for ever, only the write of a late handshake.
UploadRecovers ==
    \A s \in Session : session[s].status # "none" ~>
        (snapshot[s].status = "uploaded" \/ ~Usable(s) \/ SetBack(s))

\* The same without the exception.
UploadAlwaysRecovers ==
    \A s \in Session : session[s].status # "none" ~>
        (snapshot[s].status = "uploaded" \/ ~Usable(s))

=============================================================================
