------------------------------- MODULE ChatPanel -------------------------------
(* The page of a PRD, in one tab of a browser.  It mounts two chat panels  *)
(* (the desktop's and the drawer's, of which the width of the window shows *)
(* one; that of a phone is like the drawer's) that share a store and keep  *)
(* refs of their own.  A prompt is handed over through the tab's storage,  *)
(* by the questions or by a refusal for lack of credit, and is sent by the *)
(* desktop's panel when the page opens or by either panel after a payment. *)
(* A task of the browser's loop, with the effects it sets off, is one      *)
(* step.                                                                   *)
EXTENDS Naturals, FiniteSets

CONSTANTS
    Desk, Drawer,  \* instances of the panel
    Call,          \* calls of streamApiCall
    Project,
    Asked,         \* projects whose questions the user answers, each once
    Used,          \* the panels the user can see
    Moves,         \* what the user does besides asking, opening and sending
    NULL

ASSUME PanelAssumption ==
    /\ Desk \cap Drawer = {}
    /\ Used \subseteq Desk \cup Drawer /\ Asked \subseteq Project
    /\ Moves \subseteq {"leave", "switch", "cancel", "toggle", "pay", "restart"}
    /\ NULL \notin Desk \cup Drawer \cup Call \cup Project

VARIABLES
    tab,     \* what the scripts of the tab hold, see Blank
    router,  \* the data of pages opened before, and whether one is loaded again
    req,     \* the calls, on the side of the server
    doc,     \* what the server keeps of a project
    asked,   \* projects whose questions have been answered
    back     \* the project a payment is made for, elsewhere

vars == <<tab, router, req, doc, asked, back>>
server == <<req, doc>>

Panel == Desk \cup Drawer

-----------------------------------------------------------------------------
(* shown is the project whose text is in streamingPRDContent, msgs whether *)
(* there is a message in the list.  A prompt is named by the project it was    *)
(* asked for; it may be in pending, in a call or in a panel's offer to     *)
(* resume.  sub is isSubmittingRef, tried autoSubmitAttemptedRef, sync the *)
(* payment a panel checks, with the conversation it knew.                  *)

NoPanel == [at |-> "new", conv |-> NULL, sub |-> FALSE, ctrl |-> NULL,
            tried |-> FALSE, sync |-> NULL, offer |-> NULL]
NoCall == [at |-> "new", panel |-> NULL, proj |-> NULL, conv |-> NULL,
           mode |-> NULL, prompt |-> NULL, part |-> FALSE]
NoStore == [streaming |-> FALSE, generating |-> FALSE, shown |-> NULL,
            msgs |-> FALSE, active |-> NULL, exhausted |-> FALSE, chat |-> TRUE]

Blank == [page |-> NULL, url |-> NULL, pending |-> NULL, intent |-> NULL,
          store |-> NoStore,
          panel |-> [k \in Panel |-> NoPanel], call |-> [c \in Call |-> NoCall]]

Init ==
    /\ tab = Blank
    /\ router = [known |-> [p \in Project |-> NULL], reload |-> FALSE]
    /\ req = [c \in Call |-> "none"]
    /\ doc = [p \in Project |-> [prd |-> {}, conv |-> FALSE, talk |-> FALSE]]
    /\ asked = {}
    /\ back = NULL

IsLive(T, c) == T.call[c].at = "live"
Live(c) == IsLive(tab, c)
Open(T, k) == T.panel[k].at = "open"
Spare(T) == {c \in Call : T.call[c].at = "new"}

(* Instances that may stand for the next that is mounted: nothing is left  *)
(* of what they were.  The bound: so many instances at a time.             *)
Unused(T, K) ==
    {k \in K : /\ ~Open(T, k) /\ T.panel[k].sync = NULL
               /\ \A c \in Call : IsLive(T, c) => T.call[c].panel # k}

-----------------------------------------------------------------------------
(* Parts of a step: each takes what the tab holds and returns what it      *)
(* holds then.                                                             *)

(* A call starts: setStreaming, the refs and the fetch.                    *)
Start(T, k, mode, p, v, prompt) ==
    LET c == CHOOSE c \in Spare(T) : TRUE IN
    [T EXCEPT !.call[c] = [at |-> "live", panel |-> k, proj |-> p, conv |-> v,
                           mode |-> mode, prompt |-> prompt, part |-> mode = "resume"],
              !.panel[k] = [T.panel[k] EXCEPT !.sub = TRUE, !.ctrl = c],
              !.store = [T.store EXCEPT !.streaming = TRUE, !.generating = TRUE,
                             !.shown = IF mode = "generate" THEN NULL ELSE @]]

(* handleSendWithMessage: nothing while the panel is submitting.           *)
SendWithMessage(T, k, p, v, prompt) ==
    IF T.panel[k].sub THEN T ELSE Start(T, k, "generate", p, v, prompt)

(* isStreaming becomes false; every mounted panel clears its ref.          *)
Idle(T) ==
    [T EXCEPT !.store.streaming = FALSE,
              !.panel = [k \in Panel |->
                  IF T.store.streaming /\ Open(T, k) THEN [@[k] EXCEPT !.sub = FALSE]
                  ELSE @[k]]]

Clear(T) == [T EXCEPT !.store = [T.store EXCEPT !.generating = FALSE, !.shown = NULL]]

(* Faulty: takes the prompt and leaves it there.                           *)
AutoPeeks(T, k) ==
    SendWithMessage([T EXCEPT !.panel[k].tried = TRUE, !.store.generating = TRUE],
                    k, T.page, T.panel[k].conv, T.pending)

AutoSubmit(T, k) ==
    SendWithMessage([T EXCEPT !.panel[k].tried = TRUE, !.pending = NULL,
                              !.store.generating = TRUE],
                    k, T.page, T.panel[k].conv, T.pending)

(* The effect that submits, after every step of the tab: React waits for a *)
(* change of what it reads.  The bound: only while a call is left.         *)
Effects(T) ==
    LET K == {k \in Desk : Open(T, k) /\ ~T.panel[k].tried} IN
    IF /\ K # {} /\ Spare(T) # {}
       /\ ~T.store.streaming /\ ~T.store.msgs /\ T.pending # NULL
    THEN AutoSubmit(T, CHOOSE k \in K : TRUE)
    ELSE T

(* What is left of a call here, and of a panel that has gone.              *)
Over(r) == [r EXCEPT !.at = "over", !.panel = NULL, !.part = FALSE]
Gone(r) == [NoPanel EXCEPT !.at = "gone", !.sub = r.sub, !.sync = r.sync]

(* The calls of C are over, and their panels forget them.                  *)
Forget(T, C) ==
    [T EXCEPT !.call = [c \in Call |-> IF c \in C THEN Over(@[c]) ELSE @[c]],
              !.panel = [k \in Panel |->
                  IF \E c \in C : T.call[c].panel = k
                  THEN [@[k] EXCEPT !.sub = FALSE, !.ctrl = NULL] ELSE @[k]]]

Tidied(T, C) ==
    LET U == Forget(T, C) IN
    IF \E c \in C : T.call[c].mode = "revise" THEN Clear(U) ELSE U

(* Faulty: only the call the panel knows last clears the store.            *)
FinallyOfLast(T, C) ==
    IF \A c \in C : T.panel[T.call[c].panel].ctrl # c THEN Forget(T, C)
    ELSE Idle(Tidied(T, C))

(* The finally block of streamApiCall, of each of the calls C.             *)
Finally(T, C) == Idle(Tidied(T, C))

(* Its catch block, first.                                                 *)
Caught(T, c) ==
    LET k == T.call[c].panel IN
    IF T.call[c].mode = "revise" THEN T
    ELSE [Clear(T) EXCEPT !.panel[k].offer =
              IF T.call[c].part /\ Open(T, k) THEN T.call[c].prompt ELSE @]

(* abort() of the controllers of C, and the continuations of their calls,  *)
(* which offer nothing: whichever comes first clears what is shown.        *)
Abort(T, C) == IF C = {} THEN T ELSE Finally(Clear(T), C)

(* What the loader brings.                                                 *)
DataOf(p) == [prd |-> doc[p].prd # {}, conv |-> doc[p].conv, talk |-> doc[p].talk]

(* The effects of PrdDetail on new data.  The one that clears the state of *)
(* another project's stream reads activeProjectId after the first effect   *)
(* has set it, and so clears nothing.                                      *)
Shows(T, data) ==
    LET p == T.page
        U == [T EXCEPT !.store = [T.store EXCEPT !.active = p,
                       !.msgs = data.talk \/ (T.store.active = p /\ @)]]
    IN IF data.prd THEN Clear(U) ELSE U

(* A panel is mounted; it takes the payment of the address up.             *)
Mounted(T, k, data) ==
    LET v == IF data.conv THEN T.page ELSE NULL IN
    [T EXCEPT !.panel[k] = [NoPanel EXCEPT !.at = "open", !.conv = v,
         !.sync = IF T.url = T.page THEN [proj |-> T.page, conv |-> v] ELSE NULL]]

Unmounted(T, K) ==
    [T EXCEPT !.panel = [k \in Panel |->
        IF k \in K /\ Open(T, k) THEN Gone(@[k]) ELSE @[k]]]

CanMount(T) == Unused(T, Desk) # {} /\ (T.store.chat => Unused(T, Drawer) # {})

(* The page of p with its panels: the children's effects come first.       *)
Page(T, p, data) ==
    LET U == Mounted([T EXCEPT !.page = p], CHOOSE k \in Unused(T, Desk) : TRUE, data)
        V == IF T.store.chat
             THEN Mounted(U, CHOOSE k \in Unused(T, Drawer) : TRUE, data) ELSE U
    IN Shows(Effects(V), data)

(* The scripts are gone: only the tab's storage is left.                   *)
Unloaded(T) ==
    [T EXCEPT !.page = NULL, !.store = NoStore,
              !.panel = [k \in Panel |-> NoPanel],
              !.call = [c \in Call |->
                  IF IsLive(T, c) THEN Over(@[c]) ELSE @[c]]]

Become(T) == tab' = Effects(T)

-----------------------------------------------------------------------------
(***************************************************************************)
(* The user and the router.                                                *)
(***************************************************************************)

\* The questions of p are answered: the prompt waits for the page of p.
Ask(p) ==
    /\ tab.page = NULL /\ back = NULL /\ p \in Asked \ asked
    /\ tab' = [tab EXCEPT !.pending = p]
    /\ asked' = asked \cup {p}
    /\ UNCHANGED <<router, server, back>>

\* The router shows data it has, and then loads them again.
Visit(T, p) ==
    LET known == router.known[p]
        data == IF known = NULL THEN DataOf(p) ELSE known
    IN /\ CanMount(T)
       /\ Become(Page(T, p, data))
       /\ router' = [known |-> [router.known EXCEPT ![p] = data], reload |-> known # NULL]

OpenPage(p) ==
    /\ tab.page = NULL /\ back = NULL
    /\ Visit([tab EXCEPT !.url = NULL], p)
    /\ UNCHANGED <<server, asked, back>>

\* To a page without panels; the calls go on.
Leave ==
    /\ "leave" \in Moves /\ tab.page # NULL
    /\ tab' = [Unmounted(tab, Panel) EXCEPT !.page = NULL, !.url = NULL]
    /\ router' = [router EXCEPT !.reload = FALSE]
    /\ UNCHANGED <<server, asked, back>>

\* From one project's page to another's, by the history: the same instances.
\* The calls the panels know are aborted by an effect and go on after all
\* effects.
Switch(p) ==
    LET K == {k \in Panel : Open(tab, k)}
        C == {tab.panel[k].ctrl : k \in K} \ {NULL}
        known == router.known[p]
        data == IF known = NULL THEN DataOf(p) ELSE known
        T == [tab EXCEPT !.page = p, !.url = NULL,
                         !.panel = [k \in Panel |->
                             IF k \in K THEN [@[k] EXCEPT !.tried = FALSE, !.ctrl = NULL]
                             ELSE @[k]]]
        U == Effects(Shows(Effects(T), data))
    IN /\ "switch" \in Moves /\ tab.page \notin {NULL, p}
       /\ Become(Abort(U, C))
       /\ router' = [known |-> [router.known EXCEPT ![p] = data], reload |-> known # NULL]
       /\ UNCHANGED <<server, asked, back>>

\* invalidate(), and the load behind data shown from the cache.
Reload ==
    /\ tab.page # NULL /\ router.reload
    /\ LET data == DataOf(tab.page) IN
       /\ Become(Shows(tab, data))
       /\ router' = [known |-> [router.known EXCEPT ![tab.page] = data], reload |-> FALSE]
    /\ UNCHANGED <<server, asked, back>>

\* toggleChatPanel: the drawer's panel comes and goes, the desktop's is hidden.
Toggle ==
    /\ "toggle" \in Moves /\ tab.page # NULL /\ ~tab.store.exhausted
    /\ IF tab.store.chat
       THEN tab' = [Unmounted(tab, Drawer) EXCEPT !.store.chat = FALSE]
       ELSE /\ Unused(tab, Drawer) # {}
            /\ Become(Mounted([tab EXCEPT !.store.chat = TRUE],
                              CHOOSE k \in Unused(tab, Drawer) : TRUE,
                              router.known[tab.page]))
    /\ UNCHANGED <<router, server, asked, back>>

\* The page is loaded anew.
Restart ==
    /\ "restart" \in Moves /\ tab.page # NULL
    /\ LET p == tab.page  T == Unloaded(tab) IN
       /\ CanMount(T)
       /\ Become(Page(T, p, DataOf(p)))
       /\ router' = [known |-> [q \in Project |-> IF q = p THEN DataOf(p) ELSE NULL],
                     reload |-> FALSE]
    /\ UNCHANGED <<server, asked, back>>

CanPress(k) == k \in Used /\ Open(tab, k) /\ ~tab.store.exhausted

\* handleSend: with a project, a revision.
Send(k) ==
    /\ CanPress(k) /\ Spare(tab) # {}
    /\ ~tab.store.streaming /\ ~tab.panel[k].sub
    /\ Become(Start([tab EXCEPT !.store.msgs = TRUE],
                    k, "revise", tab.page, tab.panel[k].conv, NULL))
    /\ UNCHANGED <<router, server, asked, back>>

\* handleCancel knows the panel's own call only, which goes on before the
\* effects of the handler or after them.
Cancel(k) ==
    /\ "cancel" \in Moves /\ CanPress(k) /\ tab.store.streaming
    /\ LET C == {tab.panel[k].ctrl} \ {NULL}
           Stopped(T) ==
               Idle(Clear([T EXCEPT !.panel[k] = [T.panel[k] EXCEPT !.ctrl = NULL, !.sub = FALSE]]))
       IN Become(Stopped(Abort(tab, C))) \/ Become(Abort(Effects(Stopped(tab)), C))
    /\ UNCHANGED <<router, server, asked, back>>

\* handleResumePRD, and the dialogue closed.
Resume(k) ==
    /\ CanPress(k) /\ tab.panel[k].offer # NULL /\ Spare(tab) # {}
    /\ LET T == [tab EXCEPT !.panel[k].offer = NULL] IN
       Become(IF T.panel[k].sub THEN T
              ELSE Start(T, k, "resume", tab.page, tab.panel[k].conv, tab.panel[k].offer))
    /\ UNCHANGED <<router, server, asked, back>>

Dismiss(k) ==
    /\ CanPress(k) /\ tab.panel[k].offer # NULL
    /\ Become([tab EXCEPT !.panel[k].offer = NULL])
    /\ UNCHANGED <<router, server, asked, back>>

-----------------------------------------------------------------------------
(***************************************************************************)
(* Payment.                                                                *)
(***************************************************************************)

CloseDialogue ==
    /\ tab.store.exhausted
    /\ Become([tab EXCEPT !.store.exhausted = FALSE])
    /\ UNCHANGED <<router, server, asked, back>>

\* handlePlanSelect saves the intent first; the order may then be refused.
Pay ==
    /\ "pay" \in Moves /\ tab.store.exhausted /\ tab.page # NULL
    /\ LET T == [tab EXCEPT !.intent = tab.page] IN
       \/ /\ Become(T)
          /\ UNCHANGED <<router, back>>
       \/ /\ tab' = Unloaded(T)
          /\ router' = [known |-> [p \in Project |-> NULL], reload |-> FALSE]
          /\ back' = tab.page
    /\ UNCHANGED <<server, asked>>

\* Back with the mark of a paid order in the address, or without it.
Return ==
    /\ back # NULL
    /\ Visit([tab EXCEPT !.url = back], back)
    /\ back' = NULL
    /\ UNCHANGED <<server, asked>>

Abandon ==
    /\ back # NULL
    /\ back' = NULL
    /\ UNCHANGED <<tab, router, server, asked>>

\* consumePendingPrdPrompt.
PromptTaken(T) == [T EXCEPT !.pending = NULL]

\* syncPaymentStatus has answered; the panel may be gone by now.
Synced(k) ==
    LET s == tab.panel[k].sync
        T == [tab EXCEPT !.panel[k].sync = NULL, !.intent = NULL, !.url = NULL]
        U == [PromptTaken(T) EXCEPT !.store.generating = TRUE]
    IN /\ s # NULL
       /\ IF tab.intent # s.proj THEN Become(T)
          ELSE IF tab.pending = NULL THEN Become(U)
          ELSE Spare(tab) # {} /\ Become(SendWithMessage(U, k, s.proj, s.conv, tab.pending))
       /\ router' = [router EXCEPT !.reload = tab.page # NULL]
       /\ UNCHANGED <<server, asked, back>>

NotSynced(k) ==
    /\ tab.panel[k].sync # NULL
    /\ Become([tab EXCEPT !.panel[k].sync = NULL])
    /\ UNCHANGED <<router, server, asked, back>>

-----------------------------------------------------------------------------
(***************************************************************************)
(* The server, which may not notice that a call has been given up.         *)
(***************************************************************************)

\* A call without a conversation makes one, which stays unless nothing is
\* generated: one that is rolled back is not modelled.
Begin(c) ==
    /\ tab.call[c].at # "new" /\ req[c] = "none"
    /\ req' = [req EXCEPT ![c] = "running"]
    /\ \/ doc' = doc
       \/ /\ tab.call[c].conv = NULL
          /\ doc' = [doc EXCEPT ![tab.call[c].proj].conv = TRUE]
    /\ UNCHANGED <<tab, router, asked, back>>

\* The conversation decides where a version goes.
Target(c) == IF tab.call[c].conv # NULL THEN tab.call[c].conv ELSE tab.call[c].proj

Save(c) ==
    LET t == Target(c)  revise == tab.call[c].mode = "revise"
        origin == IF revise THEN tab.call[c].proj ELSE tab.call[c].prompt
    IN /\ req[c] = "running"
       /\ revise \/ doc[t].prd = {}
       /\ doc' = [doc EXCEPT ![t] = [prd |-> @.prd \cup {origin}, conv |-> TRUE,
                                     talk |-> @.talk \/ revise]]
       /\ req' = [req EXCEPT ![c] = "saved"]
       /\ UNCHANGED <<tab, router, asked, back>>

\* Nothing is saved, or the settlement fails afterwards.
Fail(c) ==
    /\ \/ req[c] = "running"
       \/ req[c] = "saved" /\ tab.call[c].mode = "generate"
    /\ req' = [req EXCEPT ![c] = "failed"]
    /\ UNCHANGED <<tab, router, doc, asked, back>>

-----------------------------------------------------------------------------
(***************************************************************************)
(* What streamApiCall reads.                                               *)
(***************************************************************************)

\* A refusal for lack of credit, which a generation alone may meet, puts the
\* prompt back; so does no other.
Refused(c) ==
    /\ Live(c) /\ req[c] = "none"
    /\ LET T == [tab EXCEPT !.store.generating = FALSE] IN
       \/ Become(Finally(T, {c}))
       \/ Become(Finally([T EXCEPT !.store.exhausted = TRUE], {c}))
       \/ /\ tab.call[c].mode = "generate"
          /\ Become(Finally([T EXCEPT !.store.exhausted = TRUE,
                                      !.pending = tab.call[c].prompt], {c}))
    /\ req' = [req EXCEPT ![c] = "over"]
    /\ UNCHANGED <<router, doc, asked, back>>

Delta(c) ==
    /\ Live(c) /\ req[c] # "none"
    /\ Become([tab EXCEPT !.call[c].part = TRUE, !.store.shown = tab.call[c].proj])
    /\ UNCHANGED <<router, server, asked, back>>

Refreshed == [router EXCEPT !.reload = tab.page # NULL]

Done(c) ==
    LET mode == tab.call[c].mode  k == tab.call[c].panel
        T == [tab EXCEPT !.panel[k].conv = IF Open(tab, k) THEN Target(c) ELSE @,
                         !.store.generating = FALSE]
        Said == [T EXCEPT !.store.msgs = TRUE]
    IN /\ Live(c) /\ tab.call[c].part /\ req[c] = "saved"
       /\ Become(Finally(IF mode = "revise" THEN Said
                         ELSE IF mode = "generate" THEN Clear(T) ELSE T, {c}))
       /\ router' = IF mode = "revise" THEN router ELSE Refreshed
       /\ UNCHANGED <<server, asked, back>>

\* With some text, a panel offers to resume; otherwise it says so and puts
\* the message back into the input.
ErrorEvent(c) ==
    LET k == tab.call[c].panel
        T == [tab EXCEPT !.store.generating = FALSE]
    IN /\ Live(c) /\ req[c] = "failed"
       /\ Become(Finally(
              IF tab.call[c].mode = "revise" \/ ~tab.call[c].part
              THEN [T EXCEPT !.store.msgs = TRUE]
              ELSE [T EXCEPT !.panel[k].offer =
                        IF Open(T, k) THEN tab.call[c].prompt ELSE @], {c}))
       /\ UNCHANGED <<router, server, asked, back>>

\* The stream ends without a last event.
Closed(c) ==
    /\ Live(c) /\ req[c] # "none"
    /\ LET T == Clear(tab) IN
       Become(Finally(IF tab.call[c].part THEN T
                      ELSE [T EXCEPT !.store.msgs = TRUE], {c}))
    /\ router' = Refreshed
    /\ UNCHANGED <<server, asked, back>>

Broken(c) ==
    /\ Live(c)
    /\ Become(Finally(Caught(tab, c), {c}))
    /\ UNCHANGED <<router, server, asked, back>>

-----------------------------------------------------------------------------
User ==
    \/ \E p \in Project : Ask(p) \/ OpenPage(p) \/ Switch(p)
    \/ \E k \in Panel : Send(k) \/ Cancel(k) \/ Resume(k) \/ Dismiss(k)
    \/ Leave \/ Toggle \/ Restart \/ CloseDialogue \/ Pay \/ Return \/ Abandon

Serve == \E c \in Call : Begin(c) \/ Save(c) \/ Fail(c)

Ends(c) == Refused(c) \/ Done(c) \/ ErrorEvent(c) \/ Closed(c) \/ Broken(c)

Next ==
    \/ User \/ Serve \/ Reload
    \/ \E k \in Panel : Synced(k) \/ NotSynced(k)
    \/ \E c \in Call : Delta(c) \/ Ends(c)

(* A call ends: the server answers, or the connection breaks.              *)
Spec == Init /\ [][Next]_vars /\ \A c \in Call : WF_vars(Ends(c))

-----------------------------------------------------------------------------
TypeOK ==
    /\ tab.page \in Project \cup {NULL} /\ tab.url \in Project \cup {NULL}
    /\ tab.pending \in Project \cup {NULL} /\ tab.intent \in Project \cup {NULL}
    /\ tab.store \in [streaming : BOOLEAN, generating : BOOLEAN,
                      shown : Project \cup {NULL}, msgs : BOOLEAN,
                      active : Project \cup {NULL}, exhausted : BOOLEAN, chat : BOOLEAN]
    /\ \A k \in Panel : /\ tab.panel[k].ctrl \in Call \cup {NULL}
                        /\ tab.panel[k].ctrl # NULL => Live(tab.panel[k].ctrl)
    /\ \A c \in Call : Live(c) => tab.call[c].panel \in Panel
    /\ doc \in [Project -> [prd : SUBSET Project, conv : BOOLEAN, talk : BOOLEAN]]

(* A prompt is in one place: it waits in the tab's storage, or one call    *)
(* carries it, or one panel offers to resume it.  Several panels, effects  *)
(* and payments reach for it; in two places it is generated, and charged,  *)
(* twice.                                                                  *)
PromptInOnePlace ==
    \A p \in Project :
        Cardinality({c \in Call : Live(c) /\ tab.call[c].prompt = p})
          + Cardinality({k \in Panel : Open(tab, k) /\ tab.panel[k].offer = p})
          + (IF tab.pending = p THEN 1 ELSE 0) <= 1

(* Whatever keeps the user from sending is a call that is going on.        *)
BlockedByCall ==
    /\ tab.store.streaming => \E c \in Call : Live(c)
    /\ \A k \in Panel : Open(tab, k) /\ tab.panel[k].sub
                          => \E c \in Call : Live(c) /\ tab.call[c].panel = k

(* A panel that does not let its user send does so again, however the      *)
(* calls of all panels end.                                                *)
Busy(k) == Open(tab, k) /\ (tab.panel[k].sub \/ tab.store.streaming)
InputIsFreed == \A k \in Panel : Busy(k) ~> ~Busy(k)

(* Statements that the code does not keep in every case.                   *)

(* One stream at a time.                                                   *)
OneStream == Cardinality({c \in Call : Live(c)}) <= 1

(* The document that is written on the screen is the page's own.           *)
ShownIsOwn == tab.page # NULL /\ tab.store.shown # NULL => tab.store.shown = tab.page

(* The sign of a generation means one.                                     *)
SpinnerHasCall ==
    tab.page # NULL /\ tab.store.generating
      => router.reload \/ \E c \in Call : Live(c)

(* A version of a project comes from its own prompt and document.          *)
VersionIsOwn == \A p \in Project : doc[p].prd \subseteq {p}
=============================================================================
