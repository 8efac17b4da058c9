------------------------------ MODULE KanbanLive ------------------------------
(* The board that a browser keeps up to date while an agent works on the   *)
(* tasks.  A stream of the server brings the board again and again; a      *)
(* stream that breaks is opened anew a few times, then the page polls.     *)
(* Beside both its user may refresh the board by hand, or reset the        *)
(* progress, which refreshes it.                                           *)
EXTENDS Naturals, Sequences, FiniteSets

CONSTANTS
    Project,
    Conn,           \* streams: one is attached, and others if one is forgotten
    MaxAttempts,    \* MAX_RECONNECT_ATTEMPTS
    MaxErrors,      \* MAX_CONSECUTIVE_ERRORS
    MaxRetries,     \* the retries of a query, three by default
    MaxVersion,     \* bound: changes of a board
    MaxFaults,      \* bound: failures of the network or the database
    MaxRefreshes,   \* bound: refreshes and resets by hand
    MaxVisits,      \* bound: projects shown, one after the other
    NONE

ASSUME LiveAssumption ==
    /\ {MaxAttempts, MaxErrors, MaxRetries, MaxVersion, MaxFaults, MaxRefreshes, MaxVisits}
           \subseteq Nat
    /\ MaxErrors > 0
    /\ NONE \notin Project \cup Conn

VARIABLES
    board,     \* the version of each project's board in the database
    alive,     \* projects that are not deleted
    page,      \* the hook's state and refs
    conn,      \* the streams
    cache,     \* the query cache
    poll,      \* the query of each project
    refresh,   \* fetches of refreshInFlight, of this page and of ones left
    reset,     \* the reset that is waited for; bound: one at a time
    faults,    \* failures so far
    asked,     \* refreshes and resets so far
    visits     \* projects shown so far

bounds == <<faults, asked, visits>>
byHand == <<refresh, reset>>
query == <<cache, poll>>
liveVars == <<board, alive, page, conn, query, byHand, bounds>>

-----------------------------------------------------------------------------
(* What the server sends is a board, of a project at a version, or the     *)
(* message that it failed, which has no columns.                           *)
Board == [proj : Project, ver : 0..MaxVersion]
Junk == [proj |-> NONE, ver |-> 0]
Now(p) == [proj |-> p, ver |-> board[p]]

(* A stream that its page closes is as good as gone: what the server does  *)
(* until it sees that, nobody sees.                                        *)
NoConn == [proj |-> NONE, at |-> "none", errors |-> 0, queue |-> << >>]

Closed == [proj |-> NONE, sse |-> NONE, failed |-> FALSE, loading |-> FALSE,
           attempts |-> 0, timer |-> FALSE]

Idle == [at |-> "idle", data |-> NONE, failures |-> 0]

LiveInit ==
    /\ board = [p \in Project |-> 0]
    /\ alive = Project
    /\ page = Closed
    /\ conn = [k \in Conn |-> NoConn]
    /\ cache = [p \in Project |-> NONE]
    /\ poll = [p \in Project |-> Idle]
    /\ refresh = {}
    /\ reset = NONE
    /\ faults = 0
    /\ asked = 0
    /\ visits = 0

(* What the hook returns.                                                  *)
Data == IF page.failed THEN cache[page.proj] ELSE page.sse

Loading ==
    IF page.failed THEN poll[page.proj].at # "idle" /\ cache[page.proj] = NONE
    ELSE page.loading /\ page.sse = NONE

Fault == faults < MaxFaults /\ faults' = faults + 1 /\ UNCHANGED <<asked, visits>>
Hand == asked < MaxRefreshes /\ asked' = asked + 1 /\ UNCHANGED <<faults, visits>>

-----------------------------------------------------------------------------
(* The rest of the world.                                                  *)

Change(p) ==
    /\ p \in alive
    /\ board[p] < MaxVersion
    /\ board' = [board EXCEPT ![p] = @ + 1]
    /\ UNCHANGED <<alive, page, conn, query, byHand, bounds>>

Delete(p) ==
    /\ p \in alive
    /\ alive' = alive \ {p}
    /\ UNCHANGED <<board, page, conn, query, byHand, bounds>>

-----------------------------------------------------------------------------
(* The effect of the hook: clean up what was connected, and connect.       *)

Attached(k) == conn[k].at # "none"

(* Faulty: leaves the stream open.                                         *)
LeftOpen == conn

Detached == [k \in Conn |-> NoConn]

(* connect: closes the stream there is and opens another.                  *)
Connected(p, C) ==
    [C EXCEPT ![CHOOSE k \in Conn : C[k].at = "none"] =
        [NoConn EXCEPT !.proj = p, !.at = "connecting"]]

CanConnect == \E k \in Conn : Detached[k].at = "none"

Show(p) ==
    /\ page.proj # p
    /\ CanConnect
    /\ conn' = Connected(p, Detached)
    /\ page' = [Closed EXCEPT !.proj = p, !.loading = TRUE]
    /\ visits < MaxVisits /\ visits' = visits + 1
    /\ UNCHANGED <<board, alive, query, byHand, faults, asked>>

Leave ==
    /\ page.proj # NONE
    /\ conn' = Detached
    /\ page' = Closed
    /\ refresh' = {[f EXCEPT !.mine = FALSE] : f \in refresh}
    /\ reset' = IF reset # NONE /\ reset.left = NONE
                THEN [reset EXCEPT !.left = page.proj] ELSE reset
    /\ UNCHANGED <<board, alive, query, bounds>>

(* The timer of a reconnection.                                            *)
Reconnect ==
    /\ page.timer
    /\ CanConnect
    /\ page' = [page EXCEPT !.timer = FALSE]
    /\ conn' = Connected(page.proj, Detached)
    /\ UNCHANGED <<board, alive, query, byHand, bounds>>

-----------------------------------------------------------------------------
(* A stream, at the client.                                                *)

Arrives(k) == Attached(k) /\ conn[k].queue # << >>

OnMessage(k) ==
    /\ Arrives(k)
    /\ LET parsed == Head(conn[k].queue) IN
       /\ page' = [page EXCEPT !.sse = parsed, !.failed = FALSE, !.loading = FALSE,
                               !.attempts = 0]
       /\ cache' = [cache EXCEPT ![conn[k].proj] = parsed]
    /\ conn' = [conn EXCEPT ![k].queue = Tail(@)]
    /\ UNCHANGED <<board, alive, poll, byHand, bounds>>

Cut(k) == conn' = [conn EXCEPT ![k] = NoConn]

(* A message that cannot be parsed.                                        *)
OnMalformed(k) ==
    /\ Arrives(k)
    /\ Fault
    /\ page' = [page EXCEPT !.failed = TRUE, !.loading = FALSE]
    /\ Cut(k)
    /\ UNCHANGED <<board, alive, query, byHand>>

(* Faulty: stops trying, and does not poll either.                         *)
OnErrorGivesUp(k) ==
    /\ page' = IF page.attempts < MaxAttempts
               THEN [page EXCEPT !.attempts = @ + 1, !.timer = TRUE]
               ELSE page
    /\ Cut(k)

OnError(k) ==
    /\ page' = IF page.attempts < MaxAttempts
               THEN [page EXCEPT !.attempts = @ + 1, !.timer = TRUE]
               ELSE [page EXCEPT !.failed = TRUE, !.loading = FALSE]
    /\ Cut(k)

(* The stream was refused or is over.                                      *)
Ended(k) ==
    /\ conn[k].at = "over" /\ conn[k].queue = << >>
    /\ OnError(k)
    /\ UNCHANGED <<board, alive, query, byHand, bounds>>

Broke(k) ==
    /\ Attached(k)
    /\ Fault
    /\ OnError(k)
    /\ UNCHANGED <<board, alive, query, byHand>>

-----------------------------------------------------------------------------
(* A stream, at the server.                                                *)

Accept(k) ==
    /\ conn[k].at = "connecting"
    /\ conn' = [conn EXCEPT ![k].at = IF conn[k].proj \in alive THEN "open" ELSE "over"]
    /\ UNCHANGED <<board, alive, page, query, byHand, bounds>>

(* A tick checks the project, reads its board and sends it; the next one   *)
(* follows three seconds after.  Bound: a tick begins when the message     *)
(* before it has arrived.                                                  *)
Tick(k) ==
    /\ conn[k].at = "open" /\ conn[k].queue = << >>
    /\ conn' = IF conn[k].proj \in alive
               THEN [conn EXCEPT ![k].errors = 0, ![k].queue = << Now(conn[k].proj) >>]
               ELSE [conn EXCEPT ![k].at = "over"]
    /\ UNCHANGED <<board, alive, page, query, byHand, bounds>>

TickFails(k) ==
    /\ conn[k].at = "open" /\ conn[k].queue = << >>
    /\ Fault
    /\ LET errors == conn[k].errors + 1 IN
       conn' = IF errors < MaxErrors
               THEN [conn EXCEPT ![k].errors = errors]
               ELSE [conn EXCEPT ![k].at = "over", ![k].queue = << Junk >>]
    /\ UNCHANGED <<board, alive, page, query, byHand>>

-----------------------------------------------------------------------------
(* Polling: a query per project, of which one fetch runs at a time, and    *)
(* which is repeated while the stream has failed.                          *)

PollStart ==
    /\ page.failed
    /\ poll[page.proj].at = "idle"
    /\ poll' = [poll EXCEPT ![page.proj] = [Idle EXCEPT !.at = "sent"]]
    /\ UNCHANGED <<board, alive, page, conn, cache, byHand, bounds>>

PollRead(p) ==
    /\ poll[p].at = "sent"
    /\ p \in alive
    /\ poll' = [poll EXCEPT ![p].at = "read", ![p].data = Now(p)]
    /\ UNCHANGED <<board, alive, page, conn, cache, byHand, bounds>>

PollDone(p) ==
    /\ poll[p].at = "read"
    /\ cache' = [cache EXCEPT ![p] = poll[p].data]
    /\ poll' = [poll EXCEPT ![p] = Idle]
    /\ UNCHANGED <<board, alive, page, conn, byHand, bounds>>

(* A fetch that failed is retried while a page looks at it.                *)
Missed(p) ==
    poll' = [poll EXCEPT ![p] =
                IF @.failures < MaxRetries /\ page.proj = p
                THEN [Idle EXCEPT !.at = "sent", !.failures = poll[p].failures + 1]
                ELSE Idle]

PollRefused(p) ==
    /\ poll[p].at = "sent" /\ p \notin alive
    /\ Missed(p)
    /\ UNCHANGED <<board, alive, page, conn, cache, byHand, bounds>>

PollBreaks(p) ==
    /\ poll[p].at # "idle"
    /\ Fault
    /\ Missed(p)
    /\ UNCHANGED <<board, alive, page, conn, cache, byHand>>

-----------------------------------------------------------------------------
(* Refreshing by hand.  refetch goes by the project and the mode of the    *)
(* render it was made in; the query it asks is the one its page looks at   *)
(* now, and is begun anew if it has data.                                  *)

Refetch(p, failed, left) ==
    LET observed == IF left = NONE THEN page.proj ELSE left
        mine == left = NONE
    IN  IF failed
        THEN /\ poll' = IF poll[observed].at = "idle" \/ cache[observed] # NONE
                        THEN [poll EXCEPT ![observed] = [Idle EXCEPT !.at = "sent"]]
                        ELSE poll
             /\ UNCHANGED refresh
        ELSE /\ refresh' = IF \E f \in refresh : f.mine = mine THEN refresh
                           ELSE refresh \cup {[proj |-> p, data |-> NONE, mine |-> mine]}
             /\ UNCHANGED poll

Refresh ==
    /\ page.proj # NONE
    /\ Hand
    /\ Refetch(page.proj, page.failed, NONE)
    /\ UNCHANGED <<board, alive, page, conn, cache, reset>>

ClickReset ==
    /\ page.proj # NONE /\ reset = NONE
    /\ Hand
    /\ reset' = [proj |-> page.proj, failed |-> page.failed, done |-> FALSE, left |-> NONE]
    /\ UNCHANGED <<board, alive, page, conn, query, refresh>>

ResetServed ==
    /\ reset # NONE /\ ~reset.done
    /\ reset.proj \in alive
    /\ board[reset.proj] < MaxVersion
    /\ board' = [board EXCEPT ![reset.proj] = @ + 1]
    /\ reset' = [reset EXCEPT !.done = TRUE]
    /\ UNCHANGED <<alive, page, conn, query, refresh, bounds>>

ResetOver ==
    /\ reset # NONE
    /\ reset' = NONE
    /\ \/ reset.done /\ Refetch(reset.proj, reset.failed, reset.left)
       \/ ~reset.done /\ UNCHANGED <<poll, refresh>>
    /\ UNCHANGED <<board, alive, page, conn, cache, bounds>>

RefreshRead(f) ==
    /\ f.data = NONE
    /\ f.proj \in alive
    /\ refresh' = (refresh \ {f}) \cup {[f EXCEPT !.data = Now(f.proj)]}
    /\ UNCHANGED <<board, alive, page, conn, query, reset, bounds>>

RefreshDone(f) ==
    /\ f.data # NONE
    /\ refresh' = refresh \ {f}
    /\ page' = IF f.mine THEN [page EXCEPT !.sse = f.data] ELSE page
    /\ cache' = [cache EXCEPT ![f.proj] = f.data]
    /\ UNCHANGED <<board, alive, conn, poll, reset, bounds>>

RefreshFails(f) ==
    /\ refresh' = refresh \ {f}
    /\ UNCHANGED <<board, alive, page, conn, query, reset, bounds>>

-----------------------------------------------------------------------------
ServerStep(k) == Accept(k) \/ Tick(k)
PollStep(p) == PollRead(p) \/ PollDone(p) \/ PollRefused(p)

LiveNext ==
    \/ \E p \in Project : Change(p) \/ Delete(p) \/ Show(p)
    \/ Leave \/ Reconnect
    \/ \E k \in Conn : OnMessage(k) \/ OnMalformed(k) \/ Ended(k) \/ Broke(k)
    \/ \E k \in Conn : ServerStep(k) \/ TickFails(k)
    \/ PollStart
    \/ \E p \in Project : PollStep(p) \/ PollBreaks(p)
    \/ Refresh \/ ClickReset \/ ResetServed \/ ResetOver
    \/ \E f \in refresh : RefreshRead(f) \/ RefreshDone(f) \/ RefreshFails(f)

(* The server accepts and goes on with its ticks, the browser delivers     *)
(* what arrives, timers run out, and queries are repeated.  No             *)
(* failure is fair, and neither is anything that the user does.            *)
Fairness ==
    /\ \A k \in Conn : WF_liveVars(ServerStep(k)) /\ WF_liveVars(OnMessage(k) \/ Ended(k))
    /\ WF_liveVars(Reconnect)
    /\ WF_liveVars(PollStart)
    /\ \A p \in Project : WF_liveVars(PollStep(p))

LiveSpec == LiveInit /\ [][LiveNext]_liveVars /\ Fairness

-----------------------------------------------------------------------------
IsBoard(d) == d \notin {NONE, Junk}

LiveTypeOK ==
    /\ board \in [Project -> 0..MaxVersion]
    /\ alive \subseteq Project
    /\ page \in [proj : Project \cup {NONE}, sse : Board \cup {NONE, Junk},
                 failed : BOOLEAN, loading : BOOLEAN,
                 attempts : 0..MaxAttempts, timer : BOOLEAN]
    /\ conn \in [Conn -> [proj : Project \cup {NONE},
                          at : {"none", "connecting", "open", "over"},
                          errors : 0..MaxErrors, queue : Seq(Board \cup {Junk})]]
    /\ cache \in [Project -> Board \cup {NONE, Junk}]
    /\ poll \in [Project -> [at : {"idle", "sent", "read"}, data : Board \cup {NONE},
                             failures : 0..MaxRetries]]
    /\ \A f \in refresh : /\ f.proj \in Project /\ f.data \in Board \cup {NONE}
                          /\ f.mine \in BOOLEAN
    /\ reset = NONE \/ reset.proj \in Project
    /\ faults \in 0..MaxFaults /\ asked \in 0..MaxRefreshes /\ visits \in 0..MaxVisits

(* What the stream alone puts on the page is of the page's project, and no *)
(* older than what it put there before: connections that are opened and    *)
(* closed by reconnections, switches and visits never overtake each other. *)
StreamInOrder ==
    [][asked' = 0 /\ ~page'.failed /\ IsBoard(page'.sse) =>
          /\ page'.sse.proj = page'.proj
          /\ page.proj = page'.proj /\ IsBoard(page.sse) => page'.sse.ver >= page.sse.ver]_liveVars

(* A board that stays open comes to show what the database holds, whatever *)
(* broke before: streams end, are refused or deliver the message of their  *)
(* failure, and the page reconnects or polls.                              *)
CatchesUp ==
    \A p \in Project :
        <>[](page.proj = p /\ p \in alive) => <>[](Data = Now(p))

(* The skeleton goes away: "staying in loading would hang the board on its *)
(* skeleton forever".                                                      *)
LoadingEnds == Loading ~> ~Loading

-----------------------------------------------------------------------------
(* What the code does not keep; section 6 of the README has the instances. *)

(* "so a fresh project doesn't show stale SSE data": an answer to refetch  *)
(* is set on the page of whatever project is shown when it arrives.        *)
ShownIsOwn == IsBoard(page.sse) => page.sse.proj = page.proj

(* "overlapping requests that resolve out of order": the stream beside a   *)
(* refresh is one of them.                                                 *)
NeverGoesBack ==
    [][/\ page.proj = page'.proj
       /\ IsBoard(page.sse) /\ IsBoard(page'.sse)
       /\ page.sse.proj = page'.sse.proj => page'.sse.ver >= page.sse.ver]_liveVars

(* What is shown is a board: the message by which the server says that it  *)
(* gives up is taken for one, as every message is.                         *)
ShownIsABoard == page.sse # Junk
=============================================================================
