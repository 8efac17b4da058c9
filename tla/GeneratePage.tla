---------------------------- MODULE GeneratePage ----------------------------
(* The pages that generate acceptance criteria and tasks, in one tab of a  *)
(* browser.  A page starts a generation when it is opened, when its button *)
(* is pressed and when its user comes back from a payment, and shows what  *)
(* the stream of the server brings.  A page that is left does not stop its *)
(* call; a guard kept outside of the pages lets one call of a project in   *)
(* at a time.  A task of the browser's loop is one step; the continuation  *)
(* of an aborted call is a microtask and comes before every other task.    *)
EXTENDS Naturals, FiniteSets

CONSTANTS
    Page,     \* component instances, each mounted once
    Call,     \* calls of handleGenerate
    Project,
    Scene,    \* what a tab may be used for, see scene
    NULL

ASSUME PageAssumption ==
    /\ Scene \subseteq [stage : {"ac", "task"}, pages : SUBSET Page,
                        calls : SUBSET Call, projects : SUBSET Project,
                        halted : SUBSET Project, payable : SUBSET Project]
    /\ NULL \notin Page \cup Call \cup Project

VARIABLES
    page,       \* state and refs of each instance
    call,       \* the calls, on the side of the browser
    guard,      \* inFlightAcProjects, inFlightTaskProjects
    req,        \* the same calls, on the side of the server
    owner,      \* the call that holds the project's claim on the server
    stored,     \* the stored document: whole, cut off, another project's?
    suppress,   \* sessionStorage: no generation when this project is opened
    intent,     \* sessionStorage: the project a payment is made for
    back,       \* the project whose URL says that a payment succeeded
    exhausted,  \* the dialogue that offers credits is open
    empty,      \* projects the router's cache has without a document
    reload,     \* the data of the open page is being loaded again
    scene       \* whose page it is ("ac" or "task"), its instances, the calls,
                \* the projects it is opened for, those of them the history shows
                \* as standing still, those a payment is tried for: all constant

server == <<req, owner, stored>>
session == <<suppress, intent, back, scene>>
tab == <<exhausted, empty, reload>>
vars == <<page, call, guard, server, session, tab>>

-----------------------------------------------------------------------------
(* shown is the project whose generated document is kept, text the call    *)
(* whose output contentRef holds, save the project and the text that are   *)
(* being saved by hand, busy is isGeneratingRef, auto hasAutoGenerated, seen the          *)
(* isGenerating of the last render, sync the project of a payment that is  *)
(* being checked.  muted is history: the project the page was opened on    *)
(* without a generation; so is a call's by, what started it.               *)

Blank == [at |-> "new", proj |-> NULL, loaded |-> FALSE, shown |-> NULL,
          gen |-> FALSE, seen |-> FALSE, error |-> FALSE, unsaved |-> FALSE,
          save |-> NULL, text |-> NULL, busy |-> FALSE, abort |-> NULL,
          auto |-> FALSE, sync |-> NULL, muted |-> NULL]

NoCall == [at |-> "new", page |-> NULL, proj |-> NULL, by |-> NULL,
           aborted |-> FALSE, got |-> "none"]

Init ==
    /\ page = [m \in Page |-> Blank]
    /\ call = [c \in Call |-> NoCall]
    /\ guard = [p \in Project |-> NULL]
    /\ req = [c \in Call |-> "none"]
    /\ owner = [p \in Project |-> NULL]
    /\ stored = [p \in Project |-> "none"]
    /\ suppress = NULL
    /\ intent = NULL
    /\ back = NULL
    /\ exhausted = FALSE
    /\ empty = {}
    /\ reload = FALSE
    /\ scene \in Scene

Ac == scene.stage = "ac"
Open(m) == page[m].at = "open"
Live(c) == call[c].at \in {"fetch", "stream"}

(* No microtask is left to run.                                            *)
Quiet == \A c \in Call : call[c].aborted => ~Live(c)

(* What the page paints.                                                   *)
Streamed(P) == P.text # NULL /\ call[P.text].got # "none"

PaintedAc(P) ==
    IF Streamed(P) /\ (P.gen \/ (P.shown = NULL /\ ~P.error)) THEN call[P.text].proj
    ELSE IF P.gen THEN NULL ELSE P.shown

PaintedTask(P) ==
    IF P.shown # NULL THEN P.shown ELSE IF P.loaded THEN P.proj ELSE NULL

Painted(P) == IF Ac THEN PaintedAc(P) ELSE PaintedTask(P)

(* The buttons it offers.                                                  *)
CanSave(P) == Ac /\ P.unsaved /\ P.save = NULL

CanGenerate(P) ==
    IF Ac THEN \/ ~P.gen /\ ~P.error /\ Painted(P) = NULL
               \/ CanSave(P)
    ELSE P.error /\ ~P.gen /\ Painted(P) = NULL

CanReload(P) == Ac /\ P.error /\ ~P.gen /\ Painted(P) = NULL

-----------------------------------------------------------------------------
(* Starting a call.  P, C and G are the page, the calls and the guards as  *)
(* the effects that ran before in the same task left them.                 *)

Keep(m, P, C, G) ==
    /\ page' = [page EXCEPT ![m] = P]
    /\ call' = C
    /\ guard' = G
    /\ UNCHANGED req

NewCall == CHOOSE c \in scene.calls : call[c].at = "new"
HasCall == \E c \in scene.calls : call[c].at = "new"

(* abort() of the controller; one whose call is over does nothing.         *)
Aborting(C, c) ==
    IF c # NULL /\ C[c].at \in {"fetch", "stream"}
    THEN [C EXCEPT ![c].aborted = TRUE] ELSE C

(* releaseAcGuard, releaseTaskGuard.                                       *)
Releasing(G, p, c) == IF G[p] = c THEN [G EXCEPT ![p] = NULL] ELSE G

Acquire(c, m, P, C, G) ==
    LET p == C[c].proj IN
    /\ page' = [page EXCEPT ![m] =
                    [P EXCEPT !.gen = TRUE, !.busy = ~Ac, !.error = FALSE,
                              !.unsaved = FALSE, !.text = NULL, !.abort = c]]
    /\ call' = [Aborting(C, P.abort) EXCEPT ![c].at = "fetch"]
    /\ guard' = [G EXCEPT ![p] = c]
    /\ req' = [req EXCEPT ![c] = "sent"]

(* handleGenerate, up to its first await.                                  *)
Start(m, p, by, P, C, G) ==
    LET c == NewCall
        D == [C EXCEPT ![c] = [NoCall EXCEPT !.at = "wait", !.page = m,
                                             !.proj = p, !.by = by]]
    IN
    \/ /\ P.busy
       /\ Keep(m, P, C, G)
    \/ /\ ~P.busy /\ HasCall /\ G[p] # NULL
       /\ Keep(m, P, D, G)
    \/ /\ ~P.busy /\ HasCall /\ G[p] = NULL
       /\ Acquire(c, m, P, D, G)

(* Faulty: goes ahead when the time is over.                               *)
WaitElapsed(c) ==
    /\ call[c].at = "wait"
    /\ Acquire(c, call[c].page, page[call[c].page], call, guard)
    /\ UNCHANGED <<owner, stored, session, tab>>

(* The guard is polled for three seconds.                                  *)
WaitOver(c) ==
    /\ call[c].at = "wait"
    /\ guard[call[c].proj] = NULL
    /\ Acquire(c, call[c].page, page[call[c].page], call, guard)
    /\ UNCHANGED <<owner, stored, session, tab>>

GiveUp(c) ==
    /\ call[c].at = "wait"
    /\ guard[call[c].proj] # NULL
    /\ call' = [call EXCEPT ![c].at = "done"]
    /\ UNCHANGED <<page, guard, server, session, tab>>

(* The effect that generates on a first visit.                             *)
AutoEffect(m, P, C, G) ==
    LET due == ~P.loaded /\ ~P.auto /\ ~(Ac /\ P.gen) IN
    \/ /\ ~due
       /\ Keep(m, P, C, G)
       /\ UNCHANGED suppress
    \/ /\ due /\ suppress = P.proj
       /\ suppress' = NULL
       /\ Keep(m, [P EXCEPT !.muted = P.proj], C, G)
    \/ /\ due /\ suppress # P.proj
       /\ Start(m, P.proj, "visit", [P EXCEPT !.auto = TRUE], C, G)
       /\ UNCHANGED suppress

-----------------------------------------------------------------------------
(* Coming and going.  The router shows a page at once with the data it has *)
(* in its cache and loads them again behind it.                            *)

HasDoc(p) == stored[p] # "none"

LoaderData(p) == {HasDoc(p)} \cup (IF p \in empty THEN {FALSE} ELSE {})

Cached(p, loaded) ==
    /\ empty' = IF loaded THEN empty \ {p} ELSE empty \cup {p}
    /\ reload' = (p \in empty)

Mounted(p, loaded) ==
    [Blank EXCEPT !.at = "open", !.proj = p, !.loaded = loaded,
                  !.shown = IF Ac /\ loaded THEN p ELSE NULL,
                  !.gen = ~Ac /\ ~loaded,
                  !.sync = IF back = p THEN p ELSE NULL]

NewPage == CHOOSE m \in scene.pages : page[m].at = "new"

Mount(m, p) ==
    /\ m \in scene.pages /\ p \in scene.projects
    /\ page[m].at = "new" /\ m = NewPage
    /\ \A n \in Page : ~Open(n)
    /\ \E loaded \in LoaderData(p) :
          /\ AutoEffect(m, Mounted(p, loaded), call, guard)
          /\ Cached(p, loaded)
    /\ UNCHANGED <<owner, stored, intent, back, exhausted, scene>>

Unmount(m) ==
    /\ Open(m)
    /\ page' = [page EXCEPT ![m] =
                   [@ EXCEPT !.at = "gone", !.loaded = FALSE, !.shown = NULL,
                             !.gen = FALSE, !.seen = FALSE, !.error = FALSE,
                             !.unsaved = FALSE]]
    /\ back' = NULL
    /\ reload' = FALSE
    /\ UNCHANGED <<call, guard, server, suppress, intent, exhausted, empty, scene>>

(* The tab is loaded anew: what lived in its memory is lost, the requests  *)
(* go on.                                                                  *)
Unload ==
    /\ page' = [m \in Page |->
                   IF page[m].at = "new" THEN Blank ELSE [Blank EXCEPT !.at = "gone"]]
    /\ call' = [c \in Call |->
                   IF call[c].at = "new" THEN NoCall
                   ELSE [NoCall EXCEPT !.at = "done", !.proj = call[c].proj]]
    /\ guard' = [p \in Project |-> NULL]
    /\ exhausted' = FALSE
    /\ empty' = {}
    /\ reload' = FALSE
    /\ UNCHANGED server

Reload(m) ==
    /\ Open(m)
    /\ Unload
    /\ UNCHANGED session

(* The loader's data arrive.                                               *)
Loaded(m) ==
    LET P == page[m] IN
    /\ Open(m)
    /\ reload
    /\ reload' = FALSE
    /\ empty' = IF HasDoc(P.proj) THEN empty \ {P.proj} ELSE empty \cup {P.proj}
    /\ page' = [page EXCEPT ![m].loaded = HasDoc(P.proj),
                            ![m].shown = IF Ac /\ HasDoc(P.proj) THEN P.proj ELSE @]
    /\ UNCHANGED <<call, guard, server, session, exhausted>>

(* A change of isGenerating runs the effect of the criteria page again.    *)
Render(m) ==
    LET P == page[m] IN
    /\ Ac
    /\ Open(m)
    /\ P.gen # P.seen
    /\ AutoEffect(m, [P EXCEPT !.seen = P.gen], call, guard)
    /\ UNCHANGED <<owner, stored, intent, back, tab, scene>>

(* The page is given another project without a remount.  The effects run   *)
(* in the order the components declare them in: the task page aborts first *)
(* and then generates, the criteria page the other way round, so that it   *)
(* aborts what it has just started.                                        *)
SwitchTask(m, q, loaded) ==
    LET P == page[m] IN
    AutoEffect(m, [P EXCEPT !.proj = q, !.loaded = loaded, !.abort = NULL,
                            !.busy = FALSE, !.auto = FALSE, !.muted = NULL],
               Aborting(call, P.abort),
               IF P.abort = NULL THEN guard ELSE Releasing(guard, P.proj, P.abort))

Cleared(P) ==
    [P EXCEPT !.abort = NULL, !.auto = FALSE, !.unsaved = FALSE,
              !.error = FALSE, !.text = NULL, !.shown = NULL, !.muted = NULL]

SwitchAc(m, q, loaded) ==
    LET P == Cleared([page[m] EXCEPT !.proj = q, !.loaded = loaded])
        C == Aborting(call, page[m].abort)
        due == ~loaded /\ ~page[m].auto /\ ~page[m].gen
        c == NewCall
        Begun(at) == [C EXCEPT ![c] = [NoCall EXCEPT !.at = at, !.page = m,
                                       !.proj = q, !.by = "visit",
                                       !.aborted = (at = "fetch")]]
    IN
    \/ /\ ~due
       /\ Keep(m, P, C, guard)
       /\ UNCHANGED suppress
    \/ /\ due /\ suppress = q
       /\ suppress' = NULL
       /\ Keep(m, [P EXCEPT !.muted = q], C, guard)
    \/ /\ due /\ suppress # q /\ HasCall /\ guard[q] # NULL
       /\ Keep(m, P, Begun("wait"), guard)
       /\ UNCHANGED suppress
    \/ /\ due /\ suppress # q /\ HasCall /\ guard[q] = NULL
       /\ page' = [page EXCEPT ![m] = [P EXCEPT !.gen = TRUE]]
       /\ call' = Begun("fetch")
       /\ guard' = [guard EXCEPT ![q] = c]
       /\ req' \in {req, [req EXCEPT ![c] = "sent"]}
       /\ UNCHANGED suppress

Switch(m, q) ==
    /\ Open(m)
    /\ page[m].proj # q
    /\ q \in scene.projects
    /\ \E loaded \in LoaderData(q) :
          /\ IF Ac THEN SwitchAc(m, q, loaded) ELSE SwitchTask(m, q, loaded)
          /\ Cached(q, loaded)
    /\ back' = NULL
    /\ UNCHANGED <<owner, stored, intent, exhausted, scene>>

-----------------------------------------------------------------------------
(* The user.                                                               *)

Click(m) ==
    LET P == page[m] IN
    /\ Open(m)
    /\ CanGenerate(P)
    /\ Start(m, P.proj, "click", P, call, guard)
    /\ UNCHANGED <<owner, stored, session, tab>>

(* handleRetrySave: what contentRef holds now is for the project of now.   *)
SaveText(m) ==
    /\ Open(m)
    /\ CanSave(page[m])
    /\ page' = [page EXCEPT ![m].save = <<page[m].proj, page[m].text>>]
    /\ UNCHANGED <<call, guard, server, session, tab>>

(* It is stored or not, and the browser learns of it or not.               *)
TextSaved(m) ==
    LET P == page[m]
        p == P.save[1]
        text == call[P.save[2]]
        kind == IF text.proj # p THEN "foreign"
                ELSE IF text.got = "all" THEN "whole" ELSE "cut"
    IN
    /\ P.save # NULL
    /\ \E written, told \in BOOLEAN :
          /\ told => written
          /\ stored' = IF written THEN [stored EXCEPT ![p] = kind] ELSE stored
          /\ page' = [page EXCEPT ![m] =
                         IF told THEN [P EXCEPT !.save = NULL, !.unsaved = FALSE,
                                                !.error = FALSE]
                         ELSE [P EXCEPT !.save = NULL]]
          /\ reload' = (reload \/ (told /\ \E n \in Page : Open(n)))
    /\ UNCHANGED <<call, guard, req, owner, session, exhausted, empty>>

(* A project that stands still for lack of credit is opened from the       *)
(* history.                                                                *)
ClickHistory(p) ==
    /\ p \in scene.halted
    /\ \A n \in Page : ~Open(n)
    /\ suppress' = p
    /\ exhausted' \in {exhausted, TRUE}
    /\ UNCHANGED <<page, call, guard, server, intent, back, empty, reload, scene>>

CloseDialogue(m) ==
    /\ Open(m)
    /\ exhausted
    /\ exhausted' = FALSE
    /\ UNCHANGED <<page, call, guard, server, session, empty, reload>>

(* The intent is kept before the payment is made: it may fail, or succeed  *)
(* on another site, which leads back to this page.                         *)
Pay(m) ==
    /\ Open(m)
    /\ page[m].proj \in scene.payable
    /\ exhausted
    /\ intent' = page[m].proj
    /\ UNCHANGED scene
    /\ \/ UNCHANGED <<page, call, guard, server, suppress, back, tab>>
       \/ /\ Unload
          /\ back' \in {NULL, page[m].proj}
          /\ UNCHANGED suppress

(* The payment was checked.  An intent is good for fifteen minutes.        *)
SyncSucceeded(m) ==
    LET P == [page[m] EXCEPT !.sync = NULL]
        p == page[m].sync
    IN
    /\ p # NULL
    /\ intent' = NULL
    /\ back' = NULL
    /\ \/ Keep(m, P, call, guard)
       \/ /\ intent = p
          /\ Start(m, IF Ac THEN p ELSE P.proj, "resume",
                   [P EXCEPT !.auto = TRUE], call, guard)
    /\ UNCHANGED <<owner, stored, suppress, tab, scene>>

SyncFailed(m) ==
    /\ page[m].sync # NULL
    /\ page' = [page EXCEPT ![m].sync = NULL]
    /\ UNCHANGED <<call, guard, server, session, tab>>

-----------------------------------------------------------------------------
(* The server: it refuses a call, or claims the project for it, generates, *)
(* stores and settles.                                                     *)

Browser == <<page, call, guard, session, tab>>

Answer(c, r) == req' = [req EXCEPT ![c] = r]
Unclaim(c) == owner' = [owner EXCEPT ![call[c].proj] = NULL]
Store(c) == stored' = [stored EXCEPT ![call[c].proj] = "whole"]

Refuse(c) ==
    /\ req[c] = "sent"
    /\ \/ \E r \in {"credit", "plan", "refused"} : Answer(c, r)
       \/ owner[call[c].proj] # NULL /\ Answer(c, "conflict")
    /\ UNCHANGED <<owner, stored, Browser>>

Claim(c) ==
    /\ req[c] = "sent"
    /\ owner[call[c].proj] = NULL
    /\ owner' = [owner EXCEPT ![call[c].proj] = c]
    /\ Answer(c, "working")
    /\ UNCHANGED <<stored, Browser>>

Write(c) ==
    /\ req[c] = "working"
    /\ Answer(c, "written")
    /\ UNCHANGED <<owner, stored, Browser>>

(* The model fails, or its answer is cut off; nothing can be stored; what  *)
(* is stored cannot be settled.                                            *)
Fail(c) ==
    /\ \/ req[c] = "working" /\ Answer(c, "cut") /\ UNCHANGED stored
       \/ req[c] = "written" /\ Answer(c, "lost") /\ UNCHANGED stored
       \/ req[c] = "written" /\ Answer(c, "unpaid") /\ Store(c)
    /\ Unclaim(c)
    /\ UNCHANGED Browser

Finish(c) ==
    /\ req[c] = "written"
    /\ Answer(c, "done")
    /\ Store(c)
    /\ Unclaim(c)
    /\ UNCHANGED Browser

ServerStep(c) == Refuse(c) \/ Claim(c) \/ Write(c) \/ Fail(c) \/ Finish(c)

-----------------------------------------------------------------------------
(* The browser's side of a call.                                           *)

Of(c) == page[call[c].page]
Reading(c) == call[c].at = "stream" /\ ~call[c].aborted

Opened(c) ==
    /\ call[c].at = "fetch" /\ ~call[c].aborted
    /\ req[c] \in {"working", "written", "cut", "lost", "unpaid", "done"}
    /\ call' = [call EXCEPT ![c].at = "stream"]
    /\ UNCHANGED <<page, guard, server, session, tab>>

(* Faulty: does not give the guard back.                                   *)
OverHolding(c, P) ==
    /\ call' = [call EXCEPT ![c].at = "done", ![c].aborted = FALSE]
    /\ page' = [page EXCEPT ![call[c].page] = P]
    /\ UNCHANGED <<guard, server, session>>

(* The end of a call, with what becomes of its page.                       *)
Over(c, P) ==
    /\ call' = [call EXCEPT ![c].at = "done", ![c].aborted = FALSE]
    /\ guard' = Releasing(guard, call[c].proj, c)
    /\ page' = [page EXCEPT ![call[c].page] = P]
    /\ UNCHANGED <<server, session>>

Stopped(P) == [P EXCEPT !.gen = FALSE, !.busy = FALSE]
Ended(P) == [Stopped(P) EXCEPT !.abort = IF Ac THEN @ ELSE NULL]

Failed(P) == [Ended(P) EXCEPT !.error = TRUE]

(* What was streamed is offered for saving.                                *)
FailedStream(P) ==
    IF Ac /\ Streamed(P) THEN [Ended(P) EXCEPT !.unsaved = TRUE] ELSE Failed(P)

(* Faulty: returns before the guard is given back.                         *)
RefusedHolding(c) ==
    /\ call[c].at = "fetch" /\ ~call[c].aborted
    /\ req[c] \in {"credit", "plan"}
    /\ OverHolding(c, Stopped(Of(c)))
    /\ exhausted' = (exhausted \/ req[c] = "credit")
    /\ UNCHANGED <<empty, reload>>

Refused(c) ==
    /\ call[c].at = "fetch" /\ ~call[c].aborted
    /\ req[c] \in {"credit", "plan"}
    /\ Over(c, Stopped(Of(c)))
    /\ exhausted' = (exhausted \/ req[c] = "credit")
    /\ UNCHANGED <<empty, reload>>

(* Faulty: leaves the page to a call that may not exist.                   *)
ConflictIgnored(c) ==
    /\ call[c].at = "fetch" /\ ~call[c].aborted
    /\ req[c] = "conflict"
    /\ Over(c, Of(c))
    /\ UNCHANGED tab

(* 409: an error only if nobody has the guard.  It is released first.      *)
Conflict(c) ==
    /\ call[c].at = "fetch" /\ ~call[c].aborted
    /\ req[c] = "conflict"
    /\ Over(c, IF Releasing(guard, call[c].proj, c)[call[c].proj] = NULL
               THEN [Stopped(Of(c)) EXCEPT !.error = TRUE]
               ELSE Stopped(Of(c)))
    /\ UNCHANGED tab

(* Another refusal, or no answer at all.                                   *)
Thrown(c) ==
    /\ Live(c) /\ ~call[c].aborted
    /\ Over(c, Failed(Of(c)))
    /\ UNCHANGED tab

(* The criteria page keeps the text of its events, the task page waits for *)
(* the last one.                                                           *)
Delta(c) ==
    /\ Reading(c)
    /\ \E got \in {"part", "all"} :
          /\ call[c].got # "all" /\ got # call[c].got
          /\ got = "all" => req[c] \in {"written", "lost", "unpaid", "done"}
          /\ call' = [call EXCEPT ![c].got = got]
    /\ page' = IF Ac THEN [page EXCEPT ![call[c].page].text = c] ELSE page
    /\ UNCHANGED <<guard, server, session, tab>>

Done(c) ==
    /\ Reading(c)
    /\ req[c] = "done" /\ call[c].got = "all"
    /\ Over(c, [Ended(Of(c)) EXCEPT !.shown = call[c].proj])
    /\ reload' = (reload \/ (Ac /\ \E n \in Page : Open(n)))
    /\ UNCHANGED <<exhausted, empty>>

ErrorEvent(c) ==
    /\ Reading(c)
    /\ \/ req[c] = "cut"
       \/ req[c] \in {"lost", "unpaid"} /\ call[c].got = "all"
    /\ Over(c, FailedStream(Of(c)))
    /\ UNCHANGED tab

(* The stream is closed before its last event.                             *)
Closed(c) ==
    /\ Reading(c)
    /\ Over(c, FailedStream(Of(c)))
    /\ UNCHANGED tab

ClientStep(c) ==
    \/ WaitOver(c) \/ GiveUp(c)
    \/ Opened(c) \/ Delta(c) \/ Done(c) \/ ErrorEvent(c) \/ Closed(c)
    \/ Refused(c) \/ Conflict(c) \/ Thrown(c)

(* Faulty: takes every abort for that of a newer call.                     *)
AbortSuperseded(c) ==
    /\ Live(c) /\ call[c].aborted
    /\ Over(c, Of(c))
    /\ UNCHANGED tab

(* The call was aborted.  If no other took over, an error is shown.        *)
AbortSettles(c) ==
    /\ Live(c) /\ call[c].aborted
    /\ Over(c, IF Of(c).abort = NULL
               THEN [Stopped(Of(c)) EXCEPT !.error = TRUE] ELSE Of(c))
    /\ UNCHANGED tab

-----------------------------------------------------------------------------
PageStep(m) ==
    \/ Unmount(m) \/ Reload(m) \/ Loaded(m)
    \/ Click(m) \/ SaveText(m) \/ TextSaved(m)
    \/ CloseDialogue(m) \/ Pay(m) \/ SyncSucceeded(m) \/ SyncFailed(m)
    \/ \E p \in Project : Mount(m, p) \/ Switch(m, p)

Next ==
    \/ \E c \in Call : AbortSettles(c) \/ ServerStep(c) \/ (Quiet /\ ClientStep(c))
    \/ \E m \in Page : Render(m) \/ (Quiet /\ PageStep(m))
    \/ \E p \in Project : Quiet /\ ClickHistory(p)


(* The server answers and ends what it began; the browser delivers what    *)
(* comes; a microtask runs.                                                *)
Fairness ==
    \A c \in Call : /\ WF_vars(ServerStep(c))
                    /\ WF_vars(AbortSettles(c))
                    /\ WF_vars(Quiet /\ ClientStep(c))

Spec == Init /\ [][Next]_vars /\ Fairness

-----------------------------------------------------------------------------
TypeOK ==
    /\ page \in [Page -> [at : {"new", "open", "gone"},
                          proj : Project \cup {NULL}, loaded : BOOLEAN,
                          shown : Project \cup {NULL}, gen : BOOLEAN,
                          seen : BOOLEAN, error : BOOLEAN, unsaved : BOOLEAN,
                          save : (Project \X Call) \cup {NULL}, text : Call \cup {NULL},
                          busy : BOOLEAN, abort : Call \cup {NULL},
                          auto : BOOLEAN, sync : Project \cup {NULL},
                          muted : Project \cup {NULL}]]
    /\ call \in [Call -> [at : {"new", "wait", "fetch", "stream", "done"},
                          page : Page \cup {NULL}, proj : Project \cup {NULL},
                          by : {"visit", "click", "resume", NULL},
                          aborted : BOOLEAN, got : {"none", "part", "all"}]]
    /\ guard \in [Project -> Call \cup {NULL}]
    /\ owner \in [Project -> Call \cup {NULL}]
    /\ stored \in [Project -> {"none", "cut", "foreign", "whole"}]
    /\ {suppress, intent, back} \subseteq Project \cup {NULL}
    /\ exhausted \in BOOLEAN /\ reload \in BOOLEAN
    /\ empty \subseteq Project
    /\ \A p \in Project : owner[p] # NULL => req[owner[p]] \in {"working", "written"}

(* Whatever pages are opened, left and switched, at most one call of a     *)
(* project is going on (ac-detail.tsx:35-40).                              *)
OneStream ==
    \A c, d \in Call :
        Live(c) /\ Live(d) /\ call[c].proj = call[d].proj
            /\ ~call[c].aborted /\ ~call[d].aborted => c = d

(* A guard is never left behind: the one of a project is that of a call of *)
(* this project that is going on or whose abort has yet to be noticed, so  *)
(* that there is a continuation that gives it back (ac-detail.tsx:41-48).   *)
GuardHasCall ==
    \A p \in Project :
        guard[p] # NULL => Live(guard[p]) /\ call[guard[p]].proj = p

(* A page that waits for nothing and has neither a document to show nor a  *)
(* button to offer.                                                        *)
Waits(m) == \E c \in Call : call[c].page = m /\ call[c].at \in {"wait", "fetch", "stream"}

DeadEnd(m) ==
    /\ Open(m) /\ Quiet /\ ~Waits(m)
    /\ Painted(page[m]) = NULL
    /\ ~CanGenerate(page[m]) /\ ~CanReload(page[m])

(* No end of a call, switch or return leaves the user of the criteria page *)
(* without a document and a way to get one (ac-detail.tsx:257-260).        *)
NeverDeadEnd == Ac => \A m \in Page : ~DeadEnd(m)

(* The same of the task page (task-detail.tsx:287-288).                    *)
TaskNeverDeadEnd == ~Ac => \A m \in Page : ~DeadEnd(m)

(* A page that was opened from the history on project p starts generating  *)
(* it when its user clicks, and not before or again (task-detail.tsx:325,  *)
(* ac-detail.tsx:310).                                                     *)
MutedStaysQuiet ==
    \A c \in Call : call[c].page # NULL /\ call[c].by = "visit" =>
                        call[c].proj # page[call[c].page].muted

(* What is painted is the project's own.                                   *)
PaintedIsOwn ==
    \A m \in Page : Open(m) => Painted(page[m]) \in {NULL, page[m].proj}

(* A page that was given a document and generates none paints it.          *)
LoadedIsPainted ==
    \A m \in Page : Open(m) /\ Quiet /\ page[m].loaded /\ ~page[m].gen =>
                        Painted(page[m]) # NULL

(* A stored document that is whole is replaced by whole ones only.         *)
NeverCutOff == [][\A p \in Project : stored[p] = "whole" => stored'[p] = "whole"]_vars

(* Only what has no document is generated without a click                  *)
(* (ac-detail.tsx:300, task-detail.tsx:318).                               *)
VisitFindsNothing ==
    [][\A c \in Call :
          call[c].at = "new" /\ call'[c].by = "visit" => ~HasDoc(call'[c].proj)]_vars

(* A criteria page that shows a generation stops showing it, however its   *)
(* call ends.                                                              *)
Settles == \A m \in Page : Ac /\ page[m].gen ~> ~page[m].gen

(* A guard that is held is given back, so that the project can be          *)
(* generated again.                                                        *)
GuardFreed == \A p \in Project : guard[p] # NULL ~> guard[p] = NULL
=============================================================================
