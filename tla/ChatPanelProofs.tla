---------------------------- MODULE ChatPanelProofs ----------------------------
(* Proofs about ChatPanel.  A step is put together of parts, each of which *)
(* takes what the tab holds and returns what it holds then; the invariant  *)
(* is stated of such a value, and every part is shown to keep it.          *)
EXTENDS ChatPanel, TLAPS, FiniteSetTheorems

Named == Project \cup {NULL}

PanelRec == [at : {"new", "open", "gone"}, conv : Named, sub : BOOLEAN,
             ctrl : Call \cup {NULL}, tried : BOOLEAN,
             sync : [proj : Project, conv : Named] \cup {NULL}, offer : Named]

CallRec == [at : {"new", "live", "over"}, panel : Panel \cup {NULL}, proj : Named,
            conv : Named, mode : {"generate", "resume", "revise", NULL}, prompt : Named,
            part : BOOLEAN]

Stores == [streaming : BOOLEAN, generating : BOOLEAN, shown : Named, msgs : BOOLEAN,
           active : Named, exhausted : BOOLEAN, chat : BOOLEAN]

Tabs == [page : Named, url : Named, pending : Named, intent : Named, store : Stores,
         panel : [Panel -> PanelRec], call : [Call -> CallRec]]

(* A panel that submits has a call that is going on, and a panel's         *)
(* controller is that of one of its calls.  Panels are open on a page, and *)
(* a call that has been made knows its project and prompt.                 *)
PanelsOK(T) ==
  \A k \in Panel :
    /\ Open(T, k) => T.page # NULL
    /\ Open(T, k) /\ T.panel[k].sub => \E c \in Call : IsLive(T, c) /\ T.call[c].panel = k
    /\ T.panel[k].ctrl # NULL =>
         IsLive(T, T.panel[k].ctrl) /\ T.call[T.panel[k].ctrl].panel = k

CallsOK(T) ==
  \A c \in Call :
    /\ IsLive(T, c) => T.call[c].panel \in Panel
    /\ T.call[c].at # "new" =>
         T.call[c].proj # NULL /\ (T.call[c].mode # "revise" => T.call[c].prompt # NULL)

Sound(T) == T \in Tabs /\ PanelsOK(T) /\ CallsOK(T)

(* The store's flag means a call.                                          *)
Streams(T) == T.store.streaming => \E c \in Call : IsLive(T, c)

(* No prompt is in two places, the calls I left out, and every prompt that *)
(* is somewhere is one of A.                                               *)
Carries(T, I, c) == c \in Call \ I /\ IsLive(T, c) /\ T.call[c].prompt # NULL
Offers(T, k) == k \in Panel /\ Open(T, k) /\ T.panel[k].offer # NULL

Unique(T, I, A) ==
  /\ \A c \in Call : Carries(T, I, c) =>
       /\ T.call[c].prompt \in A /\ T.call[c].prompt # T.pending
       /\ \A d \in Call : Carries(T, I, d) /\ T.call[d].prompt = T.call[c].prompt => d = c
       /\ \A k \in Panel : Offers(T, k) => T.panel[k].offer # T.call[c].prompt
  /\ \A k \in Panel : Offers(T, k) =>
       /\ T.panel[k].offer \in A /\ T.panel[k].offer # T.pending
       /\ \A l \in Panel : Offers(T, l) /\ T.panel[l].offer = T.panel[k].offer => l = k
  /\ T.pending \in A \cup {NULL}

(* A call that has been made stays made.                                   *)
Made(U, T) == \A c \in Call : T.call[c].at # "new" => U.call[c].at # "new"

(* Nothing of T is in U that was not there: what such a part of a step     *)
(* leaves unique.                                                          *)
Less(U, T) ==
  /\ Made(U, T)
  /\ U.pending \in {T.pending, NULL}
  /\ \A c \in Call : IsLive(U, c) => IsLive(T, c) /\ U.call[c].prompt = T.call[c].prompt
  /\ \A k \in Panel : Offers(U, k) => Offers(T, k) /\ U.panel[k].offer = T.panel[k].offer

LEMMA LessUnique ==
  ASSUME NEW T, NEW U, NEW I, NEW A, Less(U, T), Unique(T, I, A)
  PROVE  Unique(U, I, A)
BY DEF Less, Unique, Carries, Offers

LEMMA LessTrans ==
  ASSUME NEW T, NEW U, NEW V, Less(U, T), Less(V, U)
  PROVE  Less(V, T)
BY DEF Less, Made

-----------------------------------------------------------------------------
(* The parts of a step.                                                    *)

(* A step that starts and ends no call and makes no panel submit or offer. *)
Quieter(U, T) ==
  /\ U \in Tabs /\ U.call = T.call /\ U.pending \in {T.pending, NULL}
  /\ U.store.streaming => T.store.streaming
  /\ \A k \in Panel :
       /\ Open(U, k) => U.page # NULL
       /\ Open(U, k) /\ U.panel[k].sub => Open(T, k) /\ T.panel[k].sub
       /\ Offers(U, k) => Offers(T, k) /\ U.panel[k].offer = T.panel[k].offer
       /\ U.panel[k].ctrl \in {T.panel[k].ctrl, NULL}

LEMMA QuieterOK ==
  ASSUME NEW T, NEW U, Sound(T), Quieter(U, T)
  PROVE  Sound(U) /\ Less(U, T) /\ (Streams(T) => Streams(U))
BY DEF Sound, PanelsOK, CallsOK, Quieter, Streams, Less, Made, Offers, IsLive

LEMMA IdleOK ==
  ASSUME NEW T, Sound(T)
  PROVE  Sound(Idle(T)) /\ Streams(Idle(T)) /\ Less(Idle(T), T)
<1> DEFINE U == Idle(T)
<1>1. ASSUME NEW k \in Panel
      PROVE  /\ U.panel[k] \in PanelRec
             /\ U.panel[k].at = T.panel[k].at /\ U.panel[k].ctrl = T.panel[k].ctrl
             /\ U.panel[k].offer = T.panel[k].offer
             /\ U.panel[k].sub => T.panel[k].sub
  BY ZenonT(30) DEF Idle, Sound, Tabs, PanelRec
<1>2. /\ U \in Tabs /\ U.call = T.call /\ U.page = T.page /\ U.pending = T.pending
      /\ U.store.streaming = FALSE
  BY <1>1 DEF Idle, Sound, Tabs, Stores
<1> HIDE DEF U
<1>3. Quieter(U, T)
  BY <1>1, <1>2 DEF Quieter, Sound, PanelsOK, Offers, Open
<1>4. QED
  BY <1>2, <1>3, QuieterOK DEF Streams, U

LEMMA ClearOK ==
  ASSUME NEW T, Sound(T)
  PROVE  /\ Quieter(Clear(T), T) /\ Clear(T).panel = T.panel /\ Clear(T).pending = T.pending
<1> DEFINE S == [T.store EXCEPT !.generating = FALSE, !.shown = NULL]
           U == Clear(T)
<1>1. T.store \in Stores /\ T \in Tabs
  BY DEF Sound, Tabs
<1>2. S \in Stores /\ S.streaming = T.store.streaming
  BY <1>1 DEF Stores, Named
<1>3. U = [T EXCEPT !.store = S]
  BY <1>1 DEF Clear, Tabs
<1> HIDE DEF S, U
<1>4. /\ U \in Tabs /\ U.call = T.call /\ U.panel = T.panel /\ U.page = T.page
      /\ U.pending = T.pending /\ U.store.streaming = T.store.streaming
  BY <1>1, <1>2, <1>3 DEF Tabs
<1>5. QED
  BY <1>4 DEF U, Quieter, Sound, PanelsOK, Offers, Open

(* Nobody has the prompt.                                                  *)
Free(T, A, prompt) ==
  prompt # NULL => /\ prompt \in A /\ prompt # T.pending
                   /\ \A c \in Call : Carries(T, {}, c) => T.call[c].prompt # prompt
                   /\ \A k \in Panel : Offers(T, k) => T.panel[k].offer # prompt

(* A call starts.                                                          *)
LEMMA StartOK ==
  ASSUME NEW T, NEW k \in Panel, NEW mode \in {"generate", "resume", "revise"},
         NEW p \in Project, NEW v \in Named, NEW prompt \in Named, NEW A,
         Sound(T), Unique(T, {}, A), Free(T, A, prompt),
         mode # "revise" => prompt # NULL, Spare(T) # {}
  PROVE  LET U == Start(T, k, mode, p, v, prompt) IN
         /\ Sound(U) /\ Streams(U) /\ Unique(U, {}, A)
         /\ \A c \in Call : T.call[c].at # "new" => U.call[c] = T.call[c]
<1> DEFINE c == CHOOSE c \in Spare(T) : TRUE
           r == [at |-> "live", panel |-> k, proj |-> p, conv |-> v, mode |-> mode,
                 prompt |-> prompt, part |-> mode = "resume"]
           q == [T.panel[k] EXCEPT !.sub = TRUE, !.ctrl = c]
           U == Start(T, k, mode, p, v, prompt)
<1>1. c \in Call /\ T.call[c].at = "new"
  BY DEF Spare
<1>2. T \in Tabs /\ T.panel[k] \in PanelRec /\ T.store \in Stores
  BY DEF Sound, Tabs
<1> HIDE DEF c
<1>3. /\ r \in CallRec /\ r.at = "live" /\ r.panel = k /\ r.proj = p /\ r.mode = mode
      /\ r.prompt = prompt
  BY DEF CallRec, Named
<1>4. /\ q \in PanelRec /\ q.at = T.panel[k].at /\ q.sub /\ q.ctrl = c
      /\ q.offer = T.panel[k].offer
  BY <1>1, <1>2 DEF PanelRec
<1> DEFINE S == [T.store EXCEPT !.streaming = TRUE, !.generating = TRUE,
                              !.shown = IF mode = "generate" THEN NULL ELSE T.store.shown]
<1>5. S \in Stores /\ S.streaming
  <2>1. \E shown \in Named : S = [T.store EXCEPT !.streaming = TRUE, !.generating = TRUE,
                                                 !.shown = shown]
    <3>1. (IF mode = "generate" THEN NULL ELSE T.store.shown) \in Named
      BY <1>2 DEF Stores, Named
    <3>2. QED
      BY <3>1
  <2> HIDE DEF S
  <2>2. QED
    BY <1>2, <2>1 DEF Stores
<1>6. U = [T EXCEPT !.call[c] = r, !.panel[k] = q, !.store = S]
  BY <1>2 DEF Start, Tabs, Stores, c
<1> HIDE DEF r, q, S, U
<1>8. /\ U \in Tabs /\ U.store = S /\ U.page = T.page /\ U.pending = T.pending
      /\ U.call = [T.call EXCEPT ![c] = r] /\ U.panel = [T.panel EXCEPT ![k] = q]
  BY <1>1, <1>2, <1>3, <1>4, <1>5, <1>6 DEF Tabs
<1>9. /\ U.call[c] = r /\ \A d \in Call : d # c => U.call[d] = T.call[d]
      /\ U.panel[k] = q /\ \A l \in Panel : l # k => U.panel[l] = T.panel[l]
  BY <1>1, <1>2, <1>8 DEF Tabs
<1>10. PanelsOK(U)
  BY <1>1, <1>3, <1>4, <1>8, <1>9 DEF Sound, PanelsOK, Open, IsLive, Tabs, PanelRec
<1>11. CallsOK(U)
  BY <1>3, <1>9, PanelAssumption DEF Sound, CallsOK, IsLive
<1>12. Unique(U, {}, A)
  BY <1>1, <1>3, <1>4, <1>8, <1>9 DEF Unique, Free, Carries, Offers, Open, IsLive
<1>13. QED
  BY <1>1, <1>3, <1>5, <1>8, <1>9, <1>10, <1>11, <1>12 DEF Sound, Streams, IsLive, U

LEMMA SendOK ==
  ASSUME NEW T, NEW k \in Panel, NEW p \in Project, NEW v \in Named, NEW prompt \in Project,
         NEW A, Sound(T), Streams(T), Unique(T, {}, A), Free(T, A, prompt), Spare(T) # {}
  PROVE  LET U == SendWithMessage(T, k, p, v, prompt) IN
         /\ Sound(U) /\ Streams(U) /\ Unique(U, {}, A)
         /\ \A c \in Call : T.call[c].at # "new" => U.call[c] = T.call[c]
<1>1. prompt # NULL /\ prompt \in Named
  BY PanelAssumption DEF Named
<1>2. CASE T.panel[k].sub
  BY <1>2 DEF SendWithMessage
<1>3. CASE ~T.panel[k].sub
  BY <1>1, <1>3, StartOK DEF SendWithMessage
<1>4. QED
  BY <1>2, <1>3

LEMMA AutoSubmitOK ==
  ASSUME NEW T, NEW k \in Panel, NEW A, Sound(T), Streams(T), Unique(T, {}, A),
         Open(T, k), T.pending # NULL, Spare(T) # {}
  PROVE  LET U == AutoSubmit(T, k) IN
         /\ Sound(U) /\ Streams(U) /\ Unique(U, {}, A)
         /\ \A c \in Call : T.call[c].at # "new" => U.call[c] = T.call[c]
<1> DEFINE q == [T.panel[k] EXCEPT !.tried = TRUE]
           S == [T.store EXCEPT !.generating = TRUE]
           V == [T EXCEPT !.panel[k].tried = TRUE, !.pending = NULL, !.store.generating = TRUE]
<1>1. T \in Tabs /\ T.panel[k] \in PanelRec /\ T.store \in Stores
  BY DEF Sound, Tabs
<1>2. /\ q \in PanelRec /\ q.at = T.panel[k].at /\ q.sub = T.panel[k].sub
      /\ q.ctrl = T.panel[k].ctrl /\ q.offer = T.panel[k].offer
      /\ S \in Stores /\ S.streaming = T.store.streaming
  BY <1>1 DEF PanelRec, Stores
<1>3. V = [T EXCEPT !.panel[k] = q, !.pending = NULL, !.store = S]
  BY <1>1 DEF Tabs
<1> HIDE DEF q, S, V
<1>4. /\ V \in Tabs /\ V.call = T.call /\ V.pending = NULL /\ V.page = T.page
      /\ V.store.streaming = T.store.streaming
      /\ V.panel[k] = q /\ \A l \in Panel : l # k => V.panel[l] = T.panel[l]
  BY <1>1, <1>2, <1>3 DEF Tabs, Named
<1>5. Quieter(V, T)
  BY <1>2, <1>4 DEF Quieter, Sound, PanelsOK, Offers, Open
<1>6. Sound(V) /\ Streams(V) /\ Less(V, T) /\ Unique(V, {}, A)
  BY <1>5, QuieterOK, LessUnique
<1>7. Free(V, A, T.pending)
  BY <1>4, <1>6 DEF Free, Less, Unique, Carries
<1>8. T.pending \in Project /\ T.page \in Project /\ T.panel[k].conv \in Named
  BY <1>1 DEF Sound, PanelsOK, Tabs, PanelRec, Named
<1>9. Spare(V) # {}
  BY <1>4 DEF Spare
<1>10. AutoSubmit(T, k) = SendWithMessage(V, k, T.page, T.panel[k].conv, T.pending)
  BY DEF AutoSubmit, V
<1>11. QED
  BY <1>4, <1>6, <1>7, <1>8, <1>9, <1>10, SendOK

LEMMA EffectsOK ==
  ASSUME NEW T, NEW A, Sound(T), Streams(T), Unique(T, {}, A)
  PROVE  LET U == Effects(T) IN
         /\ Sound(U) /\ Streams(U) /\ Unique(U, {}, A)
         /\ \A c \in Call : T.call[c].at # "new" => U.call[c] = T.call[c]
<1> DEFINE K == {k \in Desk : Open(T, k) /\ ~T.panel[k].tried}
           k == CHOOSE k \in K : TRUE
<1>1. CASE K # {} /\ T.pending # NULL /\ Spare(T) # {} /\ Effects(T) = AutoSubmit(T, k)
  <2>1. k \in Panel /\ Open(T, k)
    BY <1>1 DEF Panel
  <2> HIDE DEF k
  <2>2. QED
    BY <1>1, <2>1, AutoSubmitOK
<1>2. CASE Effects(T) = T
  BY <1>2
<1>3. QED
  BY <1>1, <1>2 DEF Effects

(* Calls are over: their prompts are nowhere, their panels submit no more. *)
LEMMA ForgetOK ==
  ASSUME NEW T, NEW C, NEW A, Sound(T), Unique(T, C, A), \A c \in C : c \in Call /\ IsLive(T, c)
  PROVE  Sound(Forget(T, C)) /\ Unique(Forget(T, C), {}, A) /\ Made(Forget(T, C), T)
<1> DEFINE U == Forget(T, C)
<1>1. T \in Tabs
  BY DEF Sound
<1>2. ASSUME NEW c \in Call
      PROVE  /\ U.call[c] \in CallRec
             /\ c \in C => U.call[c].at = "over" /\ U.call[c].proj = T.call[c].proj
                          /\ U.call[c].mode = T.call[c].mode
                          /\ U.call[c].prompt = T.call[c].prompt
             /\ c \notin C => U.call[c] = T.call[c]
  <2>1. U.call = [d \in Call |-> IF d \in C THEN Over(T.call[d]) ELSE T.call[d]]
    BY <1>1 DEF Forget, Tabs
  <2> HIDE DEF U
  <2>2. T.call[c] \in CallRec
    BY <1>1 DEF Tabs
  <2>3. /\ Over(T.call[c]) \in CallRec /\ Over(T.call[c]).at = "over"
        /\ Over(T.call[c]).proj = T.call[c].proj /\ Over(T.call[c]).mode = T.call[c].mode
        /\ Over(T.call[c]).prompt = T.call[c].prompt
    BY <2>2 DEF Over, CallRec
  <2>4. QED
    BY <2>1, <2>2, <2>3
<1>3. ASSUME NEW k \in Panel
      PROVE  /\ U.panel[k] \in PanelRec
             /\ U.panel[k].at = T.panel[k].at /\ U.panel[k].offer = T.panel[k].offer
             /\ \/ U.panel[k] = T.panel[k] /\ \A c \in C : T.call[c].panel # k
                \/ ~U.panel[k].sub /\ U.panel[k].ctrl = NULL
  BY ZenonT(30), <1>1 DEF Forget, Tabs, PanelRec
<1>4. U \in Tabs /\ U.page = T.page /\ U.pending = T.pending
  BY <1>1, <1>2, <1>3 DEF Forget, Tabs
<1> HIDE DEF U
<1>5. PanelsOK(U)
  <2> SUFFICES ASSUME NEW k \in Panel
               PROVE  /\ Open(U, k) => U.page # NULL
                      /\ Open(U, k) /\ U.panel[k].sub =>
                           \E c \in Call : IsLive(U, c) /\ U.call[c].panel = k
                      /\ U.panel[k].ctrl # NULL =>
                           IsLive(U, U.panel[k].ctrl) /\ U.call[U.panel[k].ctrl].panel = k
    BY DEF PanelsOK
  <2>1. Open(U, k) => U.page # NULL
    BY <1>3, <1>4 DEF Open, Sound, PanelsOK
  <2>2. CASE U.panel[k] = T.panel[k] /\ \A c \in C : T.call[c].panel # k
    <3>1. \A c \in Call : T.call[c].panel = k => U.call[c] = T.call[c]
      BY <1>2, <2>2
    <3>2. U.panel[k].ctrl # NULL => U.panel[k].ctrl \in Call
      BY <1>3 DEF PanelRec
    <3>3. QED
      BY <2>1, <2>2, <3>1, <3>2 DEF Sound, PanelsOK, Open, IsLive
  <2>3. CASE ~U.panel[k].sub /\ U.panel[k].ctrl = NULL
    BY <2>1, <2>3
  <2>4. QED
    BY <1>3, <2>2, <2>3
<1>6. CallsOK(U)
  BY <1>2 DEF Sound, CallsOK, IsLive
<1>7. \A c \in Call : Carries(U, {}, c) => Carries(T, C, c) /\ U.call[c].prompt = T.call[c].prompt
  BY <1>2 DEF Carries, IsLive
<1>8. \A k \in Panel : Offers(U, k) => Offers(T, k) /\ U.panel[k].offer = T.panel[k].offer
  BY <1>3 DEF Offers, Open
<1>9. Unique(U, {}, A)
  BY <1>4, <1>7, <1>8 DEF Unique
<1>10. Made(U, T)
  BY <1>2 DEF Made
<1>11. QED
  BY <1>4, <1>5, <1>6, <1>9, <1>10 DEF Sound, U

LEMMA FinallyOK ==
  ASSUME NEW T, NEW C, NEW A, Sound(T), Unique(T, C, A), \A c \in C : c \in Call /\ IsLive(T, c)
  PROVE  LET U == Finally(T, C) IN
         Sound(U) /\ Streams(U) /\ Unique(U, {}, A) /\ Made(U, T)
<1> DEFINE F == Forget(T, C)
           V == Tidied(T, C)
<1>1. Sound(F) /\ Unique(F, {}, A) /\ Made(F, T)
  BY ForgetOK
<1>2. V = Clear(F) \/ V = F
  BY DEF Tidied
<1> HIDE DEF F, V
<1>3. Sound(V) /\ Unique(V, {}, A) /\ Made(V, T)
  BY <1>1, <1>2, ClearOK, QuieterOK, LessUnique DEF Less, Made
<1>4. /\ Sound(Idle(V)) /\ Streams(Idle(V)) /\ Unique(Idle(V), {}, A)
      /\ Made(Idle(V), T)
  BY <1>3, IdleOK, LessUnique DEF Less, Made
<1>5. QED
  BY <1>4 DEF Finally, V

LEMMA AbortOK ==
  ASSUME NEW T, NEW C, NEW A, Sound(T), Streams(T), Unique(T, {}, A),
         \A c \in C : c \in Call /\ IsLive(T, c)
  PROVE  LET U == Abort(T, C) IN
         Sound(U) /\ Streams(U) /\ Unique(U, {}, A) /\ Made(U, T)
<1>1. CASE C = {}
  BY <1>1 DEF Abort, Made
<1>2. CASE C # {}
  <2> DEFINE V == Clear(T)
  <2>1. Sound(V) /\ Less(V, T) /\ V.call = T.call
    BY ClearOK, QuieterOK DEF Quieter
  <2>2. Unique(V, {}, A)
    BY <2>1, LessUnique
  <2>3. Abort(T, C) = Finally(V, C)
    BY <1>2 DEF Abort
  <2> HIDE DEF V
  <2>4. Unique(V, C, A)
    BY <2>2 DEF Unique, Carries
  <2>5. \A c \in C : c \in Call /\ IsLive(V, c)
    BY <2>1 DEF IsLive
  <2>6. QED
    BY <2>1, <2>3, <2>4, <2>5, FinallyOK DEF Made
<1>3. QED
  BY <1>1, <1>2

(* A prompt moves from its call to the offer of a panel.                   *)
LEMMA OfferOK ==
  ASSUME NEW T, NEW U, NEW A, NEW c \in Call, NEW k \in Panel, Sound(T), Unique(T, {}, A),
         IsLive(T, c), U \in Tabs, U.call = T.call, U.page = T.page, U.pending = T.pending,
         U.panel[k].at = T.panel[k].at, U.panel[k].sub = T.panel[k].sub,
         U.panel[k].ctrl = T.panel[k].ctrl,
         U.panel[k].offer \in {T.panel[k].offer, T.call[c].prompt},
         \A l \in Panel : l # k => U.panel[l] = T.panel[l]
  PROVE  Sound(U) /\ Unique(U, {c}, A)
<1>1. Sound(U)
  BY DEF Sound, PanelsOK, CallsOK, Open, IsLive
<1>2. \A l \in Panel : Open(U, l) <=> Open(T, l)
  <2>1. \A l \in Panel : U.panel[l].at = T.panel[l].at
    OBVIOUS
  <2>2. QED
    BY <2>1 DEF Open
<1>3. \A d \in Call : Carries(U, {c}, d) => Carries(T, {}, d) /\ d # c
  BY DEF Carries, IsLive
<1>4. T.call[c].prompt # NULL => Carries(T, {}, c)
  BY DEF Carries
<1>5. \A l \in Panel : l # k /\ Offers(U, l) => Offers(T, l)
  BY <1>2 DEF Offers
<1>6. Offers(U, k) =>
         \/ Offers(T, k) /\ U.panel[k].offer = T.panel[k].offer
         \/ Carries(T, {}, c) /\ U.panel[k].offer = T.call[c].prompt
  <2> SUFFICES ASSUME Offers(U, k)
               PROVE  \/ Offers(T, k) /\ U.panel[k].offer = T.panel[k].offer
                      \/ Carries(T, {}, c) /\ U.panel[k].offer = T.call[c].prompt
    OBVIOUS
  <2>1. Open(T, k) /\ U.panel[k].offer # NULL
    BY <1>2 DEF Offers
  <2>2. CASE U.panel[k].offer = T.panel[k].offer
    BY <2>1, <2>2 DEF Offers
  <2>3. CASE U.panel[k].offer = T.call[c].prompt
    BY <1>4, <2>1, <2>3
  <2>4. QED
    BY <2>2, <2>3
<1>7. Unique(U, {c}, A)
  <2>1. ASSUME NEW d \in Call, Carries(U, {c}, d)
        PROVE  /\ U.call[d].prompt \in A /\ U.call[d].prompt # U.pending
               /\ \A e \in Call : Carries(U, {c}, e) /\ U.call[e].prompt = U.call[d].prompt => e = d
               /\ \A l \in Panel : Offers(U, l) => U.panel[l].offer # U.call[d].prompt
    <3>1. Carries(T, {}, d) /\ d # c
      BY <1>3, <2>1
    <3>2. \A l \in Panel : Offers(U, l) => U.panel[l].offer # T.call[d].prompt
      BY <1>5, <1>6, <3>1 DEF Unique
    <3>3. QED
      BY <1>3, <3>1, <3>2 DEF Unique
  <2>2. ASSUME NEW l \in Panel, Offers(U, l)
        PROVE  /\ U.panel[l].offer \in A /\ U.panel[l].offer # U.pending
               /\ \A j \in Panel : Offers(U, j) /\ U.panel[j].offer = U.panel[l].offer => j = l
    BY <1>5, <1>6, <2>2 DEF Unique
  <2>3. QED
    BY <2>1, <2>2 DEF Unique
<1>8. QED
  BY <1>1, <1>7

LEMMA CaughtOK ==
  ASSUME NEW T, NEW c \in Call, NEW A, Sound(T), Unique(T, {}, A), IsLive(T, c)
  PROVE  LET U == Caught(T, c) IN Sound(U) /\ Unique(U, {c}, A) /\ U.call = T.call
<1>1. CASE T.call[c].mode = "revise"
  BY <1>1 DEF Caught, Unique, Carries
<1>2. CASE T.call[c].mode # "revise"
  <2> DEFINE k == T.call[c].panel
             V == Clear(T)
             o == IF T.call[c].part /\ Open(T, k) THEN T.call[c].prompt ELSE V.panel[k].offer
             q == [V.panel[k] EXCEPT !.offer = o]
             U == Caught(T, c)
  <2>1. k \in Panel
    BY DEF Sound, CallsOK
  <2>2. Sound(V) /\ Less(V, T) /\ V.call = T.call /\ Unique(V, {}, A)
    BY ClearOK, QuieterOK, LessUnique DEF Quieter
  <2>3. U = [V EXCEPT !.panel[k] = q]
    BY <1>2 DEF Caught
  <2> HIDE DEF V, U, k
  <2>4. V \in Tabs /\ V.panel[k] \in PanelRec /\ V.call[c] \in CallRec
    BY <2>1, <2>2 DEF Sound, Tabs
  <2>5. o \in {V.panel[k].offer, V.call[c].prompt} /\ o \in Named
    BY <2>2, <2>4 DEF PanelRec, CallRec
  <2> HIDE DEF o
  <2>6. /\ q \in PanelRec /\ q.at = V.panel[k].at /\ q.sub = V.panel[k].sub
        /\ q.ctrl = V.panel[k].ctrl /\ q.offer = o
    BY <2>4, <2>5 DEF PanelRec
  <2> HIDE DEF q
  <2>7. /\ U \in Tabs /\ U.call = V.call /\ U.page = V.page /\ U.pending = V.pending
        /\ U.panel[k] = q /\ \A l \in Panel : l # k => U.panel[l] = V.panel[l]
    BY <2>1, <2>3, <2>4, <2>6 DEF Tabs
  <2>8. IsLive(V, c)
    BY <2>2 DEF IsLive
  <2>9. Sound(U) /\ Unique(U, {c}, A)
    BY <2>1, <2>2, <2>5, <2>6, <2>7, <2>8, OfferOK
  <2>10. QED
    BY <2>2, <2>7, <2>9 DEF U
<1>3. QED
  BY <1>1, <1>2

LEMMA ShowsOK ==
  ASSUME NEW T, NEW data, Sound(T)
  PROVE  Sound(Shows(T, data)) /\ Less(Shows(T, data), T) /\ (Streams(T) => Streams(Shows(T, data)))
<1> DEFINE S == [T.store EXCEPT !.active = T.page,
                              !.msgs = data.talk \/ (T.store.active = T.page /\ @)]
           U == [T EXCEPT !.store = S]
<1>1. T \in Tabs /\ T.store \in Stores /\ T.page \in Named
  BY DEF Sound, Tabs
<1>2. S \in Stores /\ S.streaming = T.store.streaming
  <2>1. \E b \in BOOLEAN : S = [T.store EXCEPT !.active = T.page, !.msgs = b]
    BY <1>1 DEF Stores
  <2> HIDE DEF S
  <2>2. QED
    BY <1>1, <2>1 DEF Stores
<1>3. Shows(T, data) = Clear(U) \/ Shows(T, data) = U
  BY DEF Shows
<1> HIDE DEF S
<1>4. /\ U \in Tabs /\ U.call = T.call /\ U.panel = T.panel /\ U.page = T.page
      /\ U.pending = T.pending /\ U.store.streaming = T.store.streaming
  BY <1>1, <1>2 DEF Tabs
<1> HIDE DEF U
<1>5. Quieter(U, T)
  BY <1>4 DEF Quieter, Sound, PanelsOK, Offers, Open
<1>6. Sound(U) /\ Less(U, T) /\ (Streams(T) => Streams(U))
  BY <1>5, QuieterOK
<1>7. Sound(Clear(U)) /\ Less(Clear(U), U) /\ (Streams(U) => Streams(Clear(U)))
  BY <1>6, ClearOK, QuieterOK
<1>8. QED
  BY <1>3, <1>6, <1>7, LessTrans

LEMMA MountedOK ==
  ASSUME NEW T, NEW k \in Panel, NEW data, Sound(T), T.page # NULL
  PROVE  Quieter(Mounted(T, k, data), T) /\ Mounted(T, k, data).page = T.page
<1> DEFINE v == IF data.conv THEN T.page ELSE NULL
           s == IF T.url = T.page THEN [proj |-> T.page, conv |-> v] ELSE NULL
           r == [NoPanel EXCEPT !.at = "open", !.conv = v, !.sync = s]
           U == Mounted(T, k, data)
<1>1. T \in Tabs /\ T.page \in Project
  BY DEF Sound, Tabs, Named
<1>2. v \in Named /\ s \in [proj : Project, conv : Named] \cup {NULL}
  BY <1>1 DEF Named
<1>3. U = [T EXCEPT !.panel[k] = r]
  BY DEF Mounted
<1> HIDE DEF v, s, U
<1>4. r \in PanelRec /\ ~r.sub /\ r.ctrl = NULL /\ r.offer = NULL
  BY <1>2 DEF NoPanel, PanelRec, Named
<1> HIDE DEF r
<1>5. /\ U \in Tabs /\ U.call = T.call /\ U.page = T.page /\ U.pending = T.pending
      /\ U.store = T.store
      /\ U.panel[k] = r /\ \A l \in Panel : l # k => U.panel[l] = T.panel[l]
  BY <1>1, <1>3, <1>4 DEF Tabs
<1>6. QED
  BY <1>4, <1>5 DEF U, Quieter, Offers, Open

LEMMA UnmountedOK ==
  ASSUME NEW T, NEW K, Sound(T)
  PROVE  LET U == Unmounted(T, K) IN
         /\ U \in Tabs /\ U.call = T.call /\ U.pending = T.pending /\ U.store = T.store
         /\ \A k \in Panel : /\ k \in K => ~Open(U, k) /\ U.panel[k].ctrl \in {T.panel[k].ctrl, NULL}
                             /\ k \notin K => U.panel[k] = T.panel[k]
<1> DEFINE U == Unmounted(T, K)
<1>1. T \in Tabs
  BY DEF Sound
<1>2. ASSUME NEW k \in Panel
      PROVE  /\ U.panel[k] \in PanelRec
             /\ k \in K => ~Open(U, k) /\ U.panel[k].ctrl \in {T.panel[k].ctrl, NULL}
             /\ k \notin K => U.panel[k] = T.panel[k]
  <2>1. T.panel[k] \in PanelRec
    BY <1>1 DEF Tabs
  <2>2. /\ Gone(T.panel[k]) \in PanelRec /\ Gone(T.panel[k]).at = "gone"
        /\ Gone(T.panel[k]).ctrl = NULL
    BY <2>1 DEF Gone, NoPanel, PanelRec, Named
  <2>3. U.panel[k] = IF k \in K /\ Open(T, k) THEN Gone(T.panel[k]) ELSE T.panel[k]
    BY <1>1 DEF Unmounted, Tabs
  <2> HIDE DEF U
  <2>4. QED
    BY <2>1, <2>2, <2>3 DEF Open
<1>3. U \in Tabs /\ U.call = T.call /\ U.pending = T.pending /\ U.store = T.store
  BY <1>1, <1>2 DEF Unmounted, Tabs
<1>4. QED
  BY <1>2, <1>3

LEMMA PageOK ==
  ASSUME NEW T, NEW p \in Project, NEW data, NEW A,
         Sound(T), Streams(T), Unique(T, {}, A), CanMount(T)
  PROVE  LET U == Page(T, p, data) IN
         Sound(U) /\ Streams(U) /\ Unique(U, {}, A) /\ Made(U, T)
<1> DEFINE T0 == [T EXCEPT !.page = p]
           k == CHOOSE k \in Unused(T, Desk) : TRUE
           l == CHOOSE l \in Unused(T, Drawer) : TRUE
           U == Mounted(T0, k, data)
           V == IF T.store.chat THEN Mounted(U, l, data) ELSE U
<1>1. k \in Panel /\ (T.store.chat => l \in Panel)
  BY DEF CanMount, Unused, Panel
<1>2. /\ T0 \in Tabs /\ T0.call = T.call /\ T0.panel = T.panel /\ T0.pending = T.pending
      /\ T0.store = T.store /\ T0.page = p /\ p # NULL
  BY PanelAssumption DEF Sound, Tabs, Named
<1>3. Page(T, p, data) = Shows(Effects(V), data)
  BY DEF Page
<1> HIDE DEF T0, k, l
<1>4. Quieter(T0, T)
  BY <1>2 DEF Quieter, Open, Offers
<1>5. Sound(T0) /\ Streams(T0) /\ Less(T0, T)
  BY <1>4, QuieterOK
<1>6. Sound(U) /\ Streams(U) /\ Less(U, T0) /\ U.page = p
  BY <1>1, <1>2, <1>5, MountedOK, QuieterOK
<1> HIDE DEF U
<1>7. Sound(V) /\ Streams(V) /\ (Less(V, U) \/ V = U)
  BY <1>1, <1>2, <1>6, MountedOK, QuieterOK
<1> HIDE DEF V
<1>8. Unique(V, {}, A)
  BY <1>5, <1>6, <1>7, LessUnique
<1>9. LET W == Effects(V) IN Sound(W) /\ Streams(W) /\ Unique(W, {}, A) /\ Made(W, T)
  <2>1. Made(V, T)
    BY <1>5, <1>6, <1>7 DEF Less, Made
  <2>2. QED
    BY <1>7, <1>8, <2>1, EffectsOK DEF Made
<1>10. QED
  BY <1>3, <1>9, ShowsOK, LessUnique DEF Less, Made

LEMMA UnloadedOK ==
  ASSUME NEW T, NEW A, Sound(T), Unique(T, {}, A)
  PROVE  LET U == Unloaded(T) IN
         Sound(U) /\ Streams(U) /\ Unique(U, {}, A) /\ Made(U, T)
<1> DEFINE U == Unloaded(T)
<1>1. T \in Tabs
  BY DEF Sound
<1>2. ASSUME NEW c \in Call
      PROVE  /\ U.call[c] \in CallRec /\ ~IsLive(U, c)
             /\ U.call[c].proj = T.call[c].proj /\ U.call[c].prompt = T.call[c].prompt
             /\ U.call[c].mode = T.call[c].mode
             /\ U.call[c].at = "new" => T.call[c].at = "new"
             /\ T.call[c].at = "new" => U.call[c].at = "new"
  <2>1. T.call[c] \in CallRec
    BY <1>1 DEF Tabs
  <2>2. /\ Over(T.call[c]) \in CallRec /\ Over(T.call[c]).at = "over"
        /\ Over(T.call[c]).proj = T.call[c].proj /\ Over(T.call[c]).mode = T.call[c].mode
        /\ Over(T.call[c]).prompt = T.call[c].prompt
    BY <2>1 DEF Over, CallRec
  <2>3. U.call[c] = IF IsLive(T, c) THEN Over(T.call[c]) ELSE T.call[c]
    BY <1>1 DEF Unloaded, Tabs
  <2> HIDE DEF U
  <2>4. QED
    BY <2>1, <2>2, <2>3 DEF IsLive
<1>3. \A k \in Panel : U.panel[k] = NoPanel
  BY <1>1 DEF Unloaded, Tabs
<1>4. U \in Tabs /\ U.pending = T.pending /\ U.store.streaming = FALSE
  <2>1. NoPanel \in PanelRec /\ NoStore \in Stores
    BY DEF NoPanel, NoStore, PanelRec, Stores, Named
  <2>2. QED
    BY <1>1, <1>2, <2>1 DEF Unloaded, Tabs, NoStore, Named
<1>5. \A k \in Panel : U.panel[k].at = "new" /\ U.panel[k].ctrl = NULL
  BY <1>3 DEF NoPanel
<1> HIDE DEF U
<1>6. Sound(U)
  BY <1>2, <1>4, <1>5 DEF Sound, PanelsOK, CallsOK, Open
<1>7. Less(U, T)
  BY <1>2, <1>4, <1>5 DEF Less, Made, Offers, Open
<1>8. QED
  BY <1>4, <1>6, <1>7, LessUnique DEF Streams, Less, U

-----------------------------------------------------------------------------
(* The invariant.                                                          *)

Good(T, A) == Sound(T) /\ Streams(T) /\ Unique(T, {}, A)

Docs == [Project -> [prd : SUBSET Project, conv : BOOLEAN, talk : BOOLEAN]]

(* The server has heard of calls only that have been made.                 *)
Served ==
  /\ req \in [Call -> {"none", "running", "saved", "failed", "over"}]
  /\ \A c \in Call : req[c] # "none" => tab.call[c].at # "new"
  /\ doc \in Docs /\ asked \subseteq Project /\ back \in Named

IInv == Good(tab, asked) /\ Served

LEMMA AtMostOne ==
  ASSUME NEW S, \A x, y \in S : x = y
  PROVE  Cardinality(S) \in {0, 1} /\ (Cardinality(S) = 1 => S # {})
<1>1. CASE S = {}
  BY <1>1, FS_EmptySet
<1>2. CASE S # {}
  <2>1. PICK x \in S : TRUE
    BY <1>2
  <2>2. S = {x}
    BY <2>1
  <2>3. QED
    BY <1>2, <2>2, FS_Singleton
<1>3. QED
  BY <1>1, <1>2

LEMMA InvImplies == IInv => TypeOK /\ PromptInOnePlace /\ BlockedByCall
<1> SUFFICES ASSUME IInv PROVE TypeOK /\ PromptInOnePlace /\ BlockedByCall
  OBVIOUS
<1>1. TypeOK
  BY DEF IInv, Good, Served, Sound, PanelsOK, CallsOK, Tabs, Stores, PanelRec, Docs, Named,
         TypeOK, Live
<1>2. ASSUME NEW p \in Project
      PROVE  Cardinality({c \in Call : Live(c) /\ tab.call[c].prompt = p})
               + Cardinality({k \in Panel : Open(tab, k) /\ tab.panel[k].offer = p})
               + (IF tab.pending = p THEN 1 ELSE 0) <= 1
  <2> DEFINE L == {c \in Call : Live(c) /\ tab.call[c].prompt = p}
             O == {k \in Panel : Open(tab, k) /\ tab.panel[k].offer = p}
  <2>1. p # NULL /\ Unique(tab, {}, asked)
    BY PanelAssumption DEF IInv, Good
  <2>2. \A c \in L : c \in Call /\ Carries(tab, {}, c) /\ tab.call[c].prompt = p
    BY <2>1 DEF Carries, Live
  <2>3. \A k \in O : k \in Panel /\ Offers(tab, k) /\ tab.panel[k].offer = p
    BY <2>1 DEF Offers
  <2> HIDE DEF L, O
  <2>4. (\A c, d \in L : c = d) /\ (\A k, l \in O : k = l)
    BY <2>1, <2>2, <2>3 DEF Unique
  <2>5. /\ L = {} \/ O = {}
        /\ tab.pending = p => L = {} /\ O = {}
    BY <2>1, <2>2, <2>3 DEF Unique
  <2>6. /\ Cardinality(L) \in {0, 1} /\ (Cardinality(L) = 1 => L # {})
        /\ Cardinality(O) \in {0, 1} /\ (Cardinality(O) = 1 => O # {})
    BY <2>4, AtMostOne
  <2>7. Cardinality(L) + Cardinality(O) + (IF tab.pending = p THEN 1 ELSE 0) <= 1
    BY <2>5, <2>6
  <2>8. QED
    BY <2>7 DEF L, O
<1>3. BlockedByCall
  BY DEF IInv, Good, Streams, Sound, PanelsOK, BlockedByCall, Live
<1>4. QED
  BY <1>1, <1>2, <1>3 DEF PromptInOnePlace

(* A step of the tab.                                                      *)
LEMMA TabStep ==
  ASSUME IInv, Good(tab', asked), Made(tab', tab), UNCHANGED <<server, asked>>, back' \in Named
  PROVE  IInv'
<1>1. Good(tab', asked')
  BY DEF server
<1>2. req' = req /\ doc' = doc /\ asked' = asked
  BY DEF server
<1>3. Served'
  BY <1>2 DEF IInv, Served, Made
<1>4. QED
  BY <1>1, <1>3 DEF IInv

LEMMA BecomeOK ==
  ASSUME NEW T, Good(T, asked), Made(T, tab), Become(T)
  PROVE  Good(tab', asked) /\ Made(tab', tab)
<1>1. tab' = Effects(T)
  BY DEF Become
<1>2. /\ Sound(tab') /\ Streams(tab') /\ Unique(tab', {}, asked)
      /\ \A c \in Call : T.call[c].at # "new" => tab'.call[c] = T.call[c]
  BY <1>1, EffectsOK DEF Good
<1>3. QED
  BY <1>2 DEF Good, Made

LEMMA QuieterGood ==
  ASSUME NEW T, NEW U, NEW A, Good(T, A), Quieter(U, T)
  PROVE  Good(U, A) /\ Made(U, T)
BY QuieterOK, LessUnique DEF Good, Less

(* Changes of the store and of one panel.                                  *)
PutStore(T, S) == [T EXCEPT !.store = S]
PutPanel(T, k, r) == [T EXCEPT !.panel[k] = r]

LEMMA StoreOK ==
  ASSUME NEW T, NEW S \in Stores, Sound(T), S.streaming = T.store.streaming
  PROVE  LET U == PutStore(T, S) IN
         /\ Quieter(U, T) /\ U.panel = T.panel /\ U.call = T.call /\ U.page = T.page
         /\ U.pending = T.pending /\ U.store = S
<1> DEFINE U == PutStore(T, S)
<1>1. /\ U \in Tabs /\ U.panel = T.panel /\ U.call = T.call /\ U.page = T.page
      /\ U.pending = T.pending /\ U.store = S
  BY DEF PutStore, Sound, Tabs
<1>2. QED
  BY <1>1 DEF Quieter, Sound, PanelsOK, Offers, Open

LEMMA PanelOK ==
  ASSUME NEW T, NEW k \in Panel, NEW r \in PanelRec, Sound(T),
         r.at = T.panel[k].at, r.sub => T.panel[k].sub, r.ctrl \in {T.panel[k].ctrl, NULL},
         r.offer \in {T.panel[k].offer, NULL}
  PROVE  LET U == PutPanel(T, k, r) IN
         /\ Quieter(U, T) /\ U.call = T.call /\ U.page = T.page /\ U.store = T.store
         /\ U.pending = T.pending
         /\ U.panel[k] = r /\ \A l \in Panel : l # k => U.panel[l] = T.panel[l]
<1> DEFINE U == PutPanel(T, k, r)
<1>1. /\ U \in Tabs /\ U.call = T.call /\ U.page = T.page /\ U.store = T.store
      /\ U.pending = T.pending
      /\ U.panel[k] = r /\ \A l \in Panel : l # k => U.panel[l] = T.panel[l]
  BY DEF PutPanel, Sound, Tabs
<1>2. Quieter(U, T)
  <2>1. U.panel[k].at = T.panel[k].at /\ \A l \in Panel : Open(U, l) <=> Open(T, l)
    BY <1>1 DEF Open
  <2> HIDE DEF U
  <2>2. QED
    BY <1>1, <2>1 DEF Quieter, Sound, PanelsOK, Offers
<1>3. QED
  BY <1>1, <1>2

LEMMA SoundTab == IInv => /\ Sound(tab) /\ Streams(tab) /\ Unique(tab, {}, asked)
                          /\ tab \in Tabs /\ tab.store \in Stores
                          /\ Good(tab, asked) /\ Made(tab, tab)
BY DEF IInv, Good, Sound, Tabs, Made

LEMMA GoodTrans ==
  ASSUME NEW T, NEW U, NEW V, NEW A, Good(U, A), Made(U, T), Quieter(V, U)
  PROVE  Good(V, A) /\ Made(V, T)
<1>1. Good(V, A) /\ Made(V, U)
  BY QuieterGood
<1>2. QED
  BY <1>1 DEF Made

LEMMA AskStep == ASSUME IInv, NEW p \in Project, Ask(p) PROVE IInv'
<1> DEFINE A == asked \cup {p}
           U == [tab EXCEPT !.pending = p]
<1>1. tab \in Tabs /\ Sound(tab) /\ Streams(tab) /\ Unique(tab, {}, asked) /\ p \notin asked
  BY SoundTab DEF Ask
<1>2. /\ U \in Tabs /\ U.pending = p /\ U.call = tab.call /\ U.panel = tab.panel
      /\ U.store = tab.store /\ U.page = tab.page
  BY <1>1 DEF Tabs, Named
<1>3. tab' = U /\ asked' = A /\ back' = back /\ req' = req /\ doc' = doc
  BY DEF Ask, server
<1> HIDE DEF U
<1>4. Sound(U) /\ Streams(U)
  BY <1>1, <1>2 DEF Sound, PanelsOK, CallsOK, Streams, Open, IsLive
<1>5. \A c \in Call : Carries(U, {}, c) => Carries(tab, {}, c) /\ U.call[c] = tab.call[c]
  BY <1>2 DEF Carries, IsLive
<1>6. \A k \in Panel : Offers(U, k) => Offers(tab, k) /\ U.panel[k] = tab.panel[k]
  BY <1>2 DEF Offers, Open
<1>7. Unique(U, {}, A)
  BY <1>1, <1>2, <1>5, <1>6 DEF Unique
<1>8. Good(tab', asked')
  BY <1>3, <1>4, <1>7 DEF Good
<1>9. Served'
  BY <1>2, <1>3 DEF IInv, Served
<1>10. QED
  BY <1>8, <1>9 DEF IInv

(* The page is opened with another address.                                *)
LEMMA VisitOK ==
  ASSUME IInv, NEW p \in Project, NEW url \in Named, Visit([tab EXCEPT !.url = url], p)
  PROVE  Good(tab', asked) /\ Made(tab', tab)
<1> DEFINE U == [tab EXCEPT !.url = url]
<1>1. tab \in Tabs /\ Sound(tab) /\ Good(tab, asked) /\ Made(tab, tab)
  BY SoundTab
<1>2. /\ U \in Tabs /\ U.call = tab.call /\ U.panel = tab.panel /\ U.page = tab.page
      /\ U.pending = tab.pending /\ U.store = tab.store
  BY <1>1 DEF Tabs
<1>3. \E data : CanMount(U) /\ Become(Page(U, p, data))
  BY DEF Visit
<1> HIDE DEF U
<1>4. Quieter(U, tab)
  BY <1>1, <1>2 DEF Quieter, Sound, PanelsOK, Offers, Open
<1>5. Good(U, asked) /\ Made(U, tab)
  BY <1>1, <1>4, QuieterGood
<1>6. PICK data : CanMount(U) /\ Become(Page(U, p, data))
  BY <1>3
<1>7. Good(Page(U, p, data), asked) /\ Made(Page(U, p, data), tab)
  BY <1>5, <1>6, PageOK DEF Good, Made
<1>8. QED
  BY <1>6, <1>7, BecomeOK

LEMMA OpenPageStep == ASSUME IInv, NEW p \in Project, OpenPage(p) PROVE IInv'
<1>1. Good(tab', asked) /\ Made(tab', tab)
  BY VisitOK DEF OpenPage, Named
<1>2. back' \in Named /\ UNCHANGED <<server, asked>>
  BY DEF OpenPage, IInv, Served
<1>3. QED
  BY <1>1, <1>2, TabStep

LEMMA ReturnStep == ASSUME IInv, Return PROVE IInv'
<1>1. back \in Project
  BY DEF IInv, Served, Named, Return
<1>2. Good(tab', asked) /\ Made(tab', tab)
  BY <1>1, VisitOK DEF Return, Named
<1>3. back' \in Named /\ UNCHANGED <<server, asked>>
  BY DEF Return, Named
<1>4. QED
  BY <1>2, <1>3, TabStep

LEMMA LeaveStep == ASSUME IInv, Leave PROVE IInv'
<1> DEFINE V == Unmounted(tab, Panel)
           U == [V EXCEPT !.page = NULL, !.url = NULL]
<1>1. Sound(tab) /\ Good(tab, asked)
  BY SoundTab
<1>2. /\ V \in Tabs /\ V.call = tab.call /\ V.pending = tab.pending /\ V.store = tab.store
      /\ \A k \in Panel : ~Open(V, k) /\ V.panel[k].ctrl \in {tab.panel[k].ctrl, NULL}
  BY <1>1, UnmountedOK
<1> HIDE DEF V
<1>3. /\ U \in Tabs /\ U.call = V.call /\ U.pending = V.pending /\ U.store = V.store
      /\ U.panel = V.panel
  BY <1>2 DEF Tabs, Named
<1>4. tab' = U
  BY DEF Leave, V
<1> HIDE DEF U
<1>5. Quieter(U, tab)
  BY <1>2, <1>3 DEF Quieter, Open, Offers
<1>6. Good(tab', asked) /\ Made(tab', tab)
  BY <1>1, <1>4, <1>5, QuieterGood
<1>7. back' \in Named /\ UNCHANGED <<server, asked>>
  BY DEF Leave, IInv, Served
<1>8. QED
  BY <1>6, <1>7, TabStep

LEMMA ShowsGood ==
  ASSUME NEW T, NEW data, NEW A, Good(T, A)
  PROVE  Good(Shows(T, data), A) /\ Made(Shows(T, data), T)
BY ShowsOK, LessUnique DEF Good, Less

LEMMA ReloadStep == ASSUME IInv, Reload PROVE IInv'
<1>1. PICK data : Become(Shows(tab, data))
  BY DEF Reload
<1>2. Good(tab', asked) /\ Made(tab', tab)
  BY <1>1, SoundTab, ShowsGood, BecomeOK
<1>3. back' \in Named /\ UNCHANGED <<server, asked>>
  BY DEF Reload, IInv, Served
<1>4. QED
  BY <1>2, <1>3, TabStep

LEMMA RestartStep == ASSUME IInv, Restart PROVE IInv'
<1>1. tab.page \in Project
  BY SoundTab DEF Restart, Tabs, Named
<1>2. PICK data : CanMount(Unloaded(tab)) /\ Become(Page(Unloaded(tab), tab.page, data))
  BY DEF Restart
<1> DEFINE T == Unloaded(tab)
           U == Page(T, tab.page, data)
<1>3. Good(T, asked) /\ Made(T, tab)
  BY SoundTab, UnloadedOK DEF Good
<1> HIDE DEF T
<1>4. CanMount(T) /\ Become(U)
  BY <1>2 DEF T
<1>5. Good(U, asked) /\ Made(U, T)
  BY <1>1, <1>3, <1>4, PageOK DEF Good
<1> HIDE DEF U
<1>6. Good(tab', asked) /\ Made(tab', tab)
  BY <1>3, <1>4, <1>5, BecomeOK DEF Made
<1>7. back' \in Named /\ UNCHANGED <<server, asked>>
  BY DEF Restart, IInv, Served
<1>8. QED
  BY <1>6, <1>7, TabStep

LEMMA AbandonStep == ASSUME IInv, Abandon PROVE IInv'
BY SoundTab, TabStep DEF Abandon, Named

(* Steps of the tab that end and start nothing.                            *)
LEMMA QuietStep ==
  ASSUME IInv, NEW T, Quieter(T, tab), Become(T), UNCHANGED <<server, asked>>, back' \in Named
  PROVE  IInv'
<1>1. Good(T, asked) /\ Made(T, tab)
  BY SoundTab, QuieterGood
<1>2. Good(tab', asked) /\ Made(tab', tab)
  BY <1>1, BecomeOK
<1>3. QED
  BY <1>2, TabStep

LEMMA CloseDialogueStep == ASSUME IInv, CloseDialogue PROVE IInv'
<1> DEFINE S == [tab.store EXCEPT !.exhausted = FALSE]
           T == [tab EXCEPT !.store.exhausted = FALSE]
<1>1. S \in Stores /\ S.streaming = tab.store.streaming
  BY SoundTab DEF Stores
<1>2. T = PutStore(tab, S)
  BY SoundTab DEF PutStore, Tabs
<1> HIDE DEF S, T
<1>3. Quieter(T, tab)
  BY <1>1, <1>2, SoundTab, StoreOK
<1>4. Become(T) /\ back' \in Named /\ UNCHANGED <<server, asked>>
  BY DEF CloseDialogue, T, IInv, Served
<1>5. QED
  BY <1>3, <1>4, QuietStep

LEMMA PanelRecs == IInv => \A k \in Panel : tab.panel[k] \in PanelRec
BY SoundTab DEF Tabs

LEMMA DismissStep == ASSUME IInv, NEW k \in Panel, Dismiss(k) PROVE IInv'
<1> DEFINE r == [tab.panel[k] EXCEPT !.offer = NULL]
           T == [tab EXCEPT !.panel[k].offer = NULL]
<1>1. /\ r \in PanelRec /\ r.at = tab.panel[k].at /\ r.sub = tab.panel[k].sub
      /\ r.ctrl = tab.panel[k].ctrl /\ r.offer = NULL
  BY PanelRecs DEF PanelRec, Named
<1>2. T = PutPanel(tab, k, r)
  BY SoundTab DEF PutPanel, Tabs
<1> HIDE DEF r, T
<1>3. Quieter(T, tab)
  BY <1>1, <1>2, SoundTab, PanelOK
<1>4. Become(T) /\ back' \in Named /\ UNCHANGED <<server, asked>>
  BY DEF Dismiss, T, IInv, Served
<1>5. QED
  BY <1>3, <1>4, QuietStep

LEMMA NotSyncedStep == ASSUME IInv, NEW k \in Panel, NotSynced(k) PROVE IInv'
<1> DEFINE r == [tab.panel[k] EXCEPT !.sync = NULL]
           T == [tab EXCEPT !.panel[k].sync = NULL]
<1>1. /\ r \in PanelRec /\ r.at = tab.panel[k].at /\ r.sub = tab.panel[k].sub
      /\ r.ctrl = tab.panel[k].ctrl /\ r.offer = tab.panel[k].offer
  BY PanelRecs DEF PanelRec
<1>2. T = PutPanel(tab, k, r)
  BY SoundTab DEF PutPanel, Tabs
<1> HIDE DEF r, T
<1>3. Quieter(T, tab)
  BY <1>1, <1>2, SoundTab, PanelOK
<1>4. Become(T) /\ back' \in Named /\ UNCHANGED <<server, asked>>
  BY DEF NotSynced, T, IInv, Served
<1>5. QED
  BY <1>3, <1>4, QuietStep

LEMMA PayStep == ASSUME IInv, Pay PROVE IInv'
<1> DEFINE T == [tab EXCEPT !.intent = tab.page]
<1>1. Sound(tab) /\ Good(tab, asked) /\ tab \in Tabs /\ tab.page \in Named
  BY SoundTab DEF Tabs
<1>2. /\ T \in Tabs /\ T.call = tab.call /\ T.panel = tab.panel /\ T.page = tab.page
      /\ T.pending = tab.pending /\ T.store = tab.store
  BY <1>1 DEF Tabs
<1>3. UNCHANGED <<server, asked>> /\ back' \in Named
  BY <1>1 DEF Pay, IInv, Served
<1>4. Become(T) \/ tab' = Unloaded(T)
  BY DEF Pay
<1> HIDE DEF T
<1>5. Quieter(T, tab)
  BY <1>1, <1>2 DEF Quieter, Sound, PanelsOK, Offers, Open
<1>6. CASE Become(T)
  BY <1>3, <1>5, <1>6, QuietStep
<1>7. CASE tab' = Unloaded(T)
  <2>1. Good(T, asked) /\ Made(T, tab)
    BY <1>1, <1>5, QuieterGood
  <2>2. Good(Unloaded(T), asked) /\ Made(Unloaded(T), T)
    BY <2>1, UnloadedOK DEF Good
  <2>3. Good(tab', asked) /\ Made(tab', tab)
    BY <1>7, <2>1, <2>2 DEF Made
  <2>4. QED
    BY <1>3, <2>3, TabStep
<1>8. QED
  BY <1>4, <1>6, <1>7

LEMMA ToggleStep == ASSUME IInv, Toggle PROVE IInv'
<1>1. /\ Sound(tab) /\ Good(tab, asked) /\ tab \in Tabs /\ tab.store \in Stores
      /\ tab.page # NULL
  BY SoundTab DEF Toggle
<1>2. UNCHANGED <<server, asked>> /\ back' \in Named
  BY DEF Toggle, IInv, Served
<1>3. CASE tab.store.chat
  <2> DEFINE V == Unmounted(tab, Drawer)
             S == [V.store EXCEPT !.chat = FALSE]
             U == [V EXCEPT !.store.chat = FALSE]
  <2>1. /\ V \in Tabs /\ V.call = tab.call /\ V.pending = tab.pending
        /\ V.store = tab.store /\ V.page = tab.page
        /\ \A k \in Panel : \/ ~Open(V, k) /\ V.panel[k].ctrl \in {tab.panel[k].ctrl, NULL}
                            \/ V.panel[k] = tab.panel[k]
    <3>1. V.page = tab.page
      BY DEF Unmounted
    <3> HIDE DEF V
    <3>2. QED
      BY <1>1, <3>1, UnmountedOK DEF V
  <2>2. tab' = U
    BY <1>3 DEF Toggle
  <2> HIDE DEF V
  <2>3. S \in Stores /\ S.streaming = V.store.streaming
    BY <1>1, <2>1 DEF Stores
  <2>4. U = [V EXCEPT !.store = S]
    BY <2>1 DEF Tabs
  <2> HIDE DEF S, U
  <2>5. /\ U \in Tabs /\ U.call = V.call /\ U.panel = V.panel /\ U.page = V.page
        /\ U.pending = V.pending /\ U.store.streaming = V.store.streaming
    BY <2>1, <2>3, <2>4 DEF Tabs
  <2>6. Quieter(U, tab)
    BY <1>1, <2>1, <2>5 DEF Quieter, Open, Offers
  <2>7. Good(tab', asked) /\ Made(tab', tab)
    BY <1>1, <2>2, <2>6, QuieterGood
  <2>8. QED
    BY <1>2, <2>7, TabStep
<1>4. CASE ~tab.store.chat
  <2> DEFINE S == [tab.store EXCEPT !.chat = TRUE]
             V == [tab EXCEPT !.store.chat = TRUE]
             k == CHOOSE k \in Unused(tab, Drawer) : TRUE
             data == router.known[tab.page]
  <2>1. k \in Panel /\ Become(Mounted(V, k, data))
    BY <1>4 DEF Toggle, Unused, Panel
  <2>2. S \in Stores /\ S.streaming = tab.store.streaming
    BY <1>1 DEF Stores
  <2>3. V = PutStore(tab, S)
    BY <1>1 DEF PutStore, Tabs
  <2> HIDE DEF S, V, k, data
  <2>4. Quieter(V, tab) /\ V.page = tab.page
    BY <1>1, <2>2, <2>3, StoreOK
  <2>5. Good(V, asked) /\ Made(V, tab)
    BY <1>1, <2>4, QuieterGood
  <2>6. Quieter(Mounted(V, k, data), V)
    BY <1>1, <2>1, <2>4, <2>5, MountedOK DEF Good
  <2>7. Good(Mounted(V, k, data), asked) /\ Made(Mounted(V, k, data), tab)
    BY <2>5, <2>6, GoodTrans
  <2>8. Good(tab', asked) /\ Made(tab', tab)
    BY <2>1, <2>7, BecomeOK
  <2>9. QED
    BY <1>2, <2>8, TabStep
<1>5. QED
  BY <1>3, <1>4

LEMMA SameCalls ==
  ASSUME NEW T, NEW data, T \in Tabs
  PROVE  Shows(T, data).call = T.call /\ Idle(T).call = T.call /\ Clear(T).call = T.call
BY DEF Shows, Idle, Clear, Tabs

LEMMA EffectsGood ==
  ASSUME NEW T, NEW A, Good(T, A)
  PROVE  /\ Good(Effects(T), A) /\ Made(Effects(T), T)
         /\ \A c \in Call : IsLive(T, c) => IsLive(Effects(T), c)
BY EffectsOK DEF Good, Made, IsLive

LEMMA SwitchStep == ASSUME IInv, NEW p \in Project, Switch(p) PROVE IInv'
<1> DEFINE K == {k \in Panel : Open(tab, k)}
           C == {tab.panel[k].ctrl : k \in K} \ {NULL}
           T == [tab EXCEPT !.page = p, !.url = NULL,
                            !.panel = [k \in Panel |->
                                IF k \in K
                                THEN [tab.panel[k] EXCEPT !.tried = FALSE, !.ctrl = NULL]
                                ELSE tab.panel[k]]]
<1>1. Sound(tab) /\ Good(tab, asked) /\ tab \in Tabs
  BY SoundTab
<1>2. UNCHANGED <<server, asked>> /\ back' \in Named
  BY DEF Switch, IInv, Served
<1>3. PICK data : Become(Abort(Effects(Shows(Effects(T), data)), C))
  BY DEF Switch
<1>4. \A c \in C : c \in Call /\ IsLive(tab, c)
  <2>1. \A k \in Panel : tab.panel[k].ctrl # NULL =>
          tab.panel[k].ctrl \in Call /\ IsLive(tab, tab.panel[k].ctrl)
    BY <1>1, PanelRecs DEF Sound, PanelsOK, PanelRec
  <2>2. QED
    BY <2>1
<1>5. ASSUME NEW k \in Panel
      PROVE  /\ T.panel[k] \in PanelRec /\ T.panel[k].at = tab.panel[k].at
             /\ T.panel[k].sub = tab.panel[k].sub /\ T.panel[k].offer = tab.panel[k].offer
             /\ T.panel[k].ctrl \in {tab.panel[k].ctrl, NULL}
  <2>1. tab.panel[k] \in PanelRec
    BY PanelRecs
  <2>2. T.panel[k] = IF k \in K THEN [tab.panel[k] EXCEPT !.tried = FALSE, !.ctrl = NULL]
                     ELSE tab.panel[k]
    BY <1>1 DEF Tabs
  <2> HIDE DEF T, K
  <2>3. QED
    BY <2>1, <2>2 DEF PanelRec
<1>6. /\ T \in Tabs /\ T.call = tab.call /\ T.page = p /\ T.pending = tab.pending
      /\ T.store = tab.store /\ p # NULL
  BY <1>1, <1>5, PanelAssumption DEF Tabs, Named
<1> HIDE DEF C, T
<1>7. Quieter(T, tab)
  BY <1>1, <1>5, <1>6 DEF Quieter, Open, Offers
<1>8. Good(T, asked) /\ Made(T, tab) /\ \A c \in C : IsLive(T, c)
  BY <1>1, <1>4, <1>6, <1>7, QuieterGood DEF IsLive
<1> DEFINE V == Effects(T)
           W == Shows(V, data)
           X == Effects(W)
<1>9. Good(V, asked) /\ Made(V, T) /\ \A c \in C : IsLive(V, c)
  BY <1>4, <1>8, EffectsGood
<1> HIDE DEF V
<1>10. Good(W, asked) /\ Made(W, V) /\ \A c \in C : IsLive(W, c)
  BY <1>4, <1>9, ShowsGood, SameCalls DEF Good, Sound, IsLive
<1> HIDE DEF W
<1>11. Good(X, asked) /\ Made(X, W) /\ \A c \in C : IsLive(X, c)
  BY <1>4, <1>10, EffectsGood
<1>12. Become(Abort(X, C))
  BY <1>3 DEF X, W, V
<1> HIDE DEF X
<1>13. Good(Abort(X, C), asked) /\ Made(Abort(X, C), X)
  BY <1>4, <1>11, AbortOK DEF Good
<1>14. Made(Abort(X, C), tab)
  BY <1>8, <1>9, <1>10, <1>11, <1>13 DEF Made
<1>15. Good(tab', asked) /\ Made(tab', tab)
  BY <1>12, <1>13, <1>14, BecomeOK
<1>16. QED
  BY <1>2, <1>15, TabStep

Stopped(T, k) ==
  Idle(Clear(PutPanel(T, k, [T.panel[k] EXCEPT !.ctrl = NULL, !.sub = FALSE])))

LEMMA StoppedOK ==
  ASSUME NEW T, NEW k \in Panel, NEW A, Good(T, A)
  PROVE  LET U == Stopped(T, k) IN Good(U, A) /\ Made(U, T) /\ U.call = T.call
<1> DEFINE r == [T.panel[k] EXCEPT !.ctrl = NULL, !.sub = FALSE]
           V == PutPanel(T, k, r)
           W == Clear(V)
<1>1. Sound(T) /\ T.panel[k] \in PanelRec
  BY DEF Good, Sound, Tabs
<1>2. /\ r \in PanelRec /\ r.at = T.panel[k].at /\ ~r.sub /\ r.ctrl = NULL
      /\ r.offer = T.panel[k].offer
  BY <1>1 DEF PanelRec
<1> HIDE DEF r
<1>3. Quieter(V, T) /\ V.call = T.call
  BY <1>1, <1>2, PanelOK
<1>4. Good(V, A) /\ Made(V, T)
  BY <1>3, QuieterGood
<1> HIDE DEF V
<1>5. Good(W, A) /\ Made(W, T) /\ W.call = T.call
  BY <1>3, <1>4, ClearOK, GoodTrans DEF Good, Quieter
<1> HIDE DEF W
<1>6. Good(Idle(W), A) /\ Made(Idle(W), T) /\ Idle(W).call = T.call
  BY <1>5, IdleOK, LessUnique, SameCalls DEF Good, Less, Made, Sound
<1>7. QED
  BY <1>6 DEF Stopped, W, V, r

LEMMA CancelStep == ASSUME IInv, NEW k \in Panel, Cancel(k) PROVE IInv'
<1> DEFINE C == {tab.panel[k].ctrl} \ {NULL}
<1>1. Sound(tab) /\ Good(tab, asked) /\ tab \in Tabs
  BY SoundTab
<1>2. UNCHANGED <<server, asked>> /\ back' \in Named
  BY DEF Cancel, IInv, Served
<1>3. \A c \in C : c \in Call /\ IsLive(tab, c)
  BY <1>1, PanelRecs DEF Sound, PanelsOK, PanelRec
<1>4. Become(Stopped(Abort(tab, C), k)) \/ Become(Abort(Effects(Stopped(tab, k)), C))
  BY DEF Cancel, Stopped, PutPanel
<1> HIDE DEF C
<1>5. CASE Become(Stopped(Abort(tab, C), k))
  <2> DEFINE T == Abort(tab, C)
  <2>1. Good(T, asked) /\ Made(T, tab)
    BY <1>1, <1>3, AbortOK DEF Good
  <2> HIDE DEF T
  <2>2. Good(Stopped(T, k), asked) /\ Made(Stopped(T, k), tab)
    BY <2>1, StoppedOK DEF Made
  <2>3. Good(tab', asked) /\ Made(tab', tab)
    BY <1>5, <2>2, BecomeOK DEF T
  <2>4. QED
    BY <1>2, <2>3, TabStep
<1>6. CASE Become(Abort(Effects(Stopped(tab, k)), C))
  <2> DEFINE T == Stopped(tab, k)
             U == Effects(T)
  <2>1. Good(T, asked) /\ Made(T, tab) /\ \A c \in C : IsLive(T, c)
    BY <1>1, <1>3, StoppedOK DEF IsLive
  <2> HIDE DEF T
  <2>2. Good(U, asked) /\ Made(U, tab) /\ \A c \in C : IsLive(U, c)
    BY <1>3, <2>1, EffectsGood DEF Made
  <2> HIDE DEF U
  <2>3. Good(Abort(U, C), asked) /\ Made(Abort(U, C), tab)
    BY <1>3, <2>2, AbortOK DEF Good, Made
  <2>4. Good(tab', asked) /\ Made(tab', tab)
    BY <1>6, <2>3, BecomeOK DEF T, U
  <2>5. QED
    BY <1>2, <2>4, TabStep
<1>7. QED
  BY <1>4, <1>5, <1>6

LEMMA SendStep == ASSUME IInv, NEW k \in Panel, Send(k) PROVE IInv'
<1> DEFINE S == [tab.store EXCEPT !.msgs = TRUE]
           T == [tab EXCEPT !.store.msgs = TRUE]
           U == Start(T, k, "revise", tab.page, tab.panel[k].conv, NULL)
<1>1. Sound(tab) /\ Good(tab, asked) /\ tab \in Tabs
  BY SoundTab
<1>2. UNCHANGED <<server, asked>> /\ back' \in Named
  BY DEF Send, IInv, Served
<1>3. S \in Stores /\ S.streaming = tab.store.streaming
  BY SoundTab DEF Stores
<1>4. T = PutStore(tab, S)
  BY <1>1 DEF PutStore, Tabs
<1>5. tab.page \in Project /\ tab.panel[k].conv \in Named /\ Spare(tab) # {} /\ Become(U)
  BY <1>1, PanelRecs DEF Send, CanPress, Sound, PanelsOK, Tabs, Named, PanelRec
<1> HIDE DEF S, T
<1>6. Quieter(T, tab) /\ T.call = tab.call
  BY <1>1, <1>3, <1>4, StoreOK
<1>7. Good(T, asked) /\ Made(T, tab) /\ Spare(T) # {}
  BY <1>1, <1>5, <1>6, QuieterGood DEF Spare
<1>8. Good(U, asked) /\ Made(U, tab)
  <2>1. Free(T, asked, NULL) /\ NULL \in Named
    BY DEF Free, Named
  <2> HIDE DEF U
  <2>2. LET V == Start(T, k, "revise", tab.page, tab.panel[k].conv, NULL) IN
        /\ Sound(V) /\ Streams(V) /\ Unique(V, {}, asked)
        /\ \A c \in Call : T.call[c].at # "new" => V.call[c] = T.call[c]
    BY <1>5, <1>7, <2>1, StartOK DEF Good
  <2>3. QED
    BY <1>7, <2>2 DEF Good, Made, U
<1> HIDE DEF U
<1>9. Good(tab', asked) /\ Made(tab', tab)
  BY <1>5, <1>8, BecomeOK
<1>10. QED
  BY <1>2, <1>9, TabStep

LEMMA ResumeStep == ASSUME IInv, NEW k \in Panel, Resume(k) PROVE IInv'
<1> DEFINE r == [tab.panel[k] EXCEPT !.offer = NULL]
           T == [tab EXCEPT !.panel[k].offer = NULL]
           o == tab.panel[k].offer
           U == IF T.panel[k].sub THEN T
                ELSE Start(T, k, "resume", tab.page, tab.panel[k].conv, o)
<1>1. Sound(tab) /\ Good(tab, asked) /\ tab \in Tabs
  BY SoundTab
<1>2. UNCHANGED <<server, asked>> /\ back' \in Named
  BY DEF Resume, IInv, Served
<1>3. /\ r \in PanelRec /\ r.at = tab.panel[k].at /\ r.sub = tab.panel[k].sub
      /\ r.ctrl = tab.panel[k].ctrl /\ r.offer = NULL
  BY PanelRecs DEF PanelRec, Named
<1>4. T = PutPanel(tab, k, r)
  BY <1>1 DEF PutPanel, Tabs
<1>5. /\ tab.page \in Project /\ tab.panel[k].conv \in Named /\ Spare(tab) # {} /\ Become(U)
      /\ o \in Named /\ o # NULL /\ Open(tab, k)
  BY <1>1, PanelRecs DEF Resume, CanPress, Sound, PanelsOK, Tabs, Named, PanelRec
<1> HIDE DEF r, T, o
<1>6. /\ Quieter(T, tab) /\ T.call = tab.call /\ T.pending = tab.pending
      /\ T.panel[k] = r /\ \A l \in Panel : l # k => T.panel[l] = tab.panel[l]
  BY <1>1, <1>3, <1>4, PanelOK
<1>7. Good(T, asked) /\ Made(T, tab) /\ Spare(T) # {}
  BY <1>1, <1>5, <1>6, QuieterGood DEF Spare
<1>8. Free(T, asked, o)
  <2>1. Unique(tab, {}, asked) /\ Offers(tab, k) /\ tab.panel[k].offer = o
    BY <1>1, <1>5 DEF Good, Offers, o
  <2>2. \A c \in Call : Carries(T, {}, c) => Carries(tab, {}, c) /\ T.call[c] = tab.call[c]
    BY <1>6 DEF Carries, IsLive
  <2>3. \A l \in Panel : Offers(T, l) =>
          Offers(tab, l) /\ T.panel[l].offer = tab.panel[l].offer /\ l # k
    BY <1>3, <1>6 DEF Offers, Quieter
  <2>4. QED
    BY <1>6, <2>1, <2>2, <2>3 DEF Unique, Free
<1>9. Good(U, asked) /\ Made(U, tab)
  <2>1. CASE T.panel[k].sub
    BY <1>7, <2>1
  <2>2. CASE ~T.panel[k].sub
    <3> HIDE DEF U
    <3>1. LET V == Start(T, k, "resume", tab.page, tab.panel[k].conv, o) IN
          /\ Sound(V) /\ Streams(V) /\ Unique(V, {}, asked)
          /\ \A c \in Call : T.call[c].at # "new" => V.call[c] = T.call[c]
      BY <1>5, <1>7, <1>8, StartOK DEF Good
    <3>2. QED
      BY <1>7, <2>2, <3>1 DEF Good, Made, U
  <2>3. QED
    BY <2>1, <2>2
<1> HIDE DEF U
<1>10. Good(tab', asked) /\ Made(tab', tab)
  BY <1>5, <1>9, BecomeOK
<1>11. QED
  BY <1>2, <1>10, TabStep

LEMMA SyncedStep == ASSUME IInv, NEW k \in Panel, Synced(k) PROVE IInv'
<1> DEFINE s == tab.panel[k].sync
           r == [tab.panel[k] EXCEPT !.sync = NULL]
           T == [tab EXCEPT !.panel[k].sync = NULL, !.intent = NULL, !.url = NULL]
           S == [T.store EXCEPT !.generating = TRUE]
           P == PromptTaken(T)
           U == [P EXCEPT !.store.generating = TRUE]
           V == SendWithMessage(U, k, s.proj, s.conv, tab.pending)
<1>1. Sound(tab) /\ Good(tab, asked) /\ tab \in Tabs /\ tab.store \in Stores
  BY SoundTab
<1>2. UNCHANGED <<server, asked>> /\ back' \in Named
  BY DEF Synced, IInv, Served
<1>3. /\ r \in PanelRec /\ r.at = tab.panel[k].at /\ r.sub = tab.panel[k].sub
      /\ r.ctrl = tab.panel[k].ctrl /\ r.offer = tab.panel[k].offer
  BY PanelRecs DEF PanelRec
<1>4. s \in [proj : Project, conv : Named] /\ s # NULL
  BY PanelRecs DEF PanelRec, Synced
<1>5. T = [tab EXCEPT !.panel[k] = r, !.intent = NULL, !.url = NULL]
  BY <1>1 DEF Tabs
<1>6. \/ Become(T)
      \/ tab.pending = NULL /\ Become(U)
      \/ tab.pending # NULL /\ Spare(tab) # {} /\ Become(V)
  BY DEF Synced
<1> HIDE DEF r, T, s
<1>7. /\ T \in Tabs /\ T.call = tab.call /\ T.page = tab.page /\ T.pending = tab.pending
      /\ T.store = tab.store
      /\ T.panel[k] = r /\ \A l \in Panel : l # k => T.panel[l] = tab.panel[l]
  BY <1>1, <1>3, <1>5 DEF Tabs, Named
<1>8. Quieter(T, tab)
  <2>1. \A l \in Panel : Open(T, l) <=> Open(tab, l)
    BY <1>3, <1>7 DEF Open
  <2>2. QED
    BY <1>1, <1>3, <1>7, <2>1 DEF Quieter, Sound, PanelsOK, Offers
<1>9. Good(T, asked) /\ Made(T, tab)
  BY <1>1, <1>8, QuieterGood
<1>10. P \in Tabs /\ P.call = T.call /\ P.page = T.page /\ P.pending = NULL
       /\ P.store = T.store /\ P.panel = T.panel
  BY <1>7 DEF PromptTaken, Tabs, Named
<1>11. S \in Stores /\ S.streaming = tab.store.streaming
  BY <1>1, <1>7 DEF Stores
<1>12. U = [P EXCEPT !.store = S]
  BY <1>10 DEF Tabs
<1> HIDE DEF S, P, U
<1>13. /\ U \in Tabs /\ U.call = T.call /\ U.page = T.page /\ U.pending = NULL
       /\ U.store = S /\ U.panel = T.panel
  BY <1>10, <1>11, <1>12 DEF Tabs
<1>14. Quieter(U, T)
  BY <1>7, <1>9, <1>11, <1>13 DEF Quieter, Good, Sound, PanelsOK, Offers, Open
<1>15. Good(U, asked) /\ Made(U, tab)
  BY <1>9, <1>14, GoodTrans
<1>16. CASE tab.pending # NULL /\ Spare(tab) # {} /\ Become(V)
  <2>1. /\ s.proj \in Project /\ s.conv \in Named /\ tab.pending \in Project
        /\ Spare(U) # {}
    BY <1>1, <1>4, <1>7, <1>13, <1>16 DEF Spare, Tabs, Named
  <2>2. Free(U, asked, tab.pending)
    <3>1. Unique(tab, {}, asked)
      BY <1>1 DEF Good
    <3>2. \A c \in Call : Carries(U, {}, c) => Carries(tab, {}, c) /\ U.call[c] = tab.call[c]
      BY <1>7, <1>13 DEF Carries, IsLive
    <3>3. \A l \in Panel : Offers(U, l) =>
            Offers(tab, l) /\ U.panel[l].offer = tab.panel[l].offer
      BY <1>8, <1>14 DEF Quieter
    <3>4. QED
      BY <1>13, <1>16, <3>1, <3>2, <3>3 DEF Unique, Free
  <2>3. Good(V, asked) /\ Made(V, U)
    BY <1>15, <2>1, <2>2, SendOK DEF Good, Made
  <2>4. Made(V, tab)
    BY <1>15, <2>3 DEF Made
  <2> HIDE DEF V
  <2>5. Good(tab', asked) /\ Made(tab', tab)
    BY <1>16, <2>3, <2>4, BecomeOK
  <2>6. QED
    BY <1>2, <2>5, TabStep
<1>17. CASE Become(T) \/ Become(U)
  <2>1. Good(tab', asked) /\ Made(tab', tab)
    BY <1>9, <1>15, <1>17, BecomeOK
  <2>2. QED
    BY <1>2, <2>1, TabStep
<1>18. QED
  BY <1>6, <1>16, <1>17

-----------------------------------------------------------------------------
(* The server.                                                             *)

LEMMA CallTypes ==
  ASSUME IInv, NEW c \in Call, tab.call[c].at # "new"
  PROVE  /\ tab.call[c] \in CallRec /\ tab.call[c].proj \in Project
         /\ tab.call[c].mode # "revise" => tab.call[c].prompt \in Project
         /\ Target(c) \in Project
<1>1. tab.call[c] \in CallRec /\ CallsOK(tab)
  BY SoundTab DEF Tabs, Sound
<1>2. QED
  BY <1>1 DEF CallRec, CallsOK, Named, Target

LEMMA ServerStep ==
  ASSUME IInv, NEW c \in Call, NEW s \in {"running", "saved", "failed"},
         tab.call[c].at # "new", req' = [req EXCEPT ![c] = s], doc' \in Docs,
         UNCHANGED <<tab, asked, back>>
  PROVE  IInv'
<1>1. Served'
  BY DEF IInv, Served
<1>2. QED
  BY <1>1 DEF IInv

LEMMA BeginStep == ASSUME IInv, NEW c \in Call, Begin(c) PROVE IInv'
<1>1. tab.call[c].at # "new" /\ tab.call[c].proj \in Project
  BY CallTypes DEF Begin
<1> DEFINE p == tab.call[c].proj
           d == [doc[p] EXCEPT !.conv = TRUE]
<1>2. doc \in Docs
  BY DEF IInv, Served
<1>3. d \in [prd : SUBSET Project, conv : BOOLEAN, talk : BOOLEAN]
  <2>1. doc[p] \in [prd : SUBSET Project, conv : BOOLEAN, talk : BOOLEAN]
    BY <1>1, <1>2 DEF Docs
  <2> HIDE DEF p
  <2>2. QED
    BY <2>1
<1>4. doc' \in {doc, [doc EXCEPT ![p] = d]}
  BY DEF Begin
<1> HIDE DEF p, d
<1>5. doc' \in Docs
  BY <1>1, <1>2, <1>3, <1>4 DEF Docs, p
<1>6. QED
  BY <1>1, <1>5, ServerStep DEF Begin

LEMMA SaveStep == ASSUME IInv, NEW c \in Call, Save(c) PROVE IInv'
<1> DEFINE t == Target(c)
           origin == IF tab.call[c].mode = "revise" THEN tab.call[c].proj
                     ELSE tab.call[c].prompt
           d == [prd |-> doc[t].prd \cup {origin}, conv |-> TRUE,
                 talk |-> doc[t].talk \/ tab.call[c].mode = "revise"]
<1>1. tab.call[c].at # "new"
  BY DEF Save, IInv, Served
<1>2. t \in Project /\ origin \in Project
  BY <1>1, CallTypes
<1>3. doc' = [doc EXCEPT ![t] = d]
  BY DEF Save
<1>4. doc \in Docs
  BY DEF IInv, Served
<1> HIDE DEF t, origin
<1>5. d \in [prd : SUBSET Project, conv : BOOLEAN, talk : BOOLEAN]
  <2>1. doc[t].prd \in SUBSET Project
    BY <1>2, <1>4 DEF Docs
  <2>2. (doc[t].talk \/ tab.call[c].mode = "revise") \in BOOLEAN
    OBVIOUS
  <2>3. QED
    BY <1>2, <2>1, <2>2
<1> HIDE DEF d
<1>6. doc' \in Docs
  BY <1>2, <1>3, <1>4, <1>5 DEF Docs
<1>7. QED
  BY <1>1, <1>6, ServerStep DEF Save

LEMMA FailStep == ASSUME IInv, NEW c \in Call, Fail(c) PROVE IInv'
<1>1. tab.call[c].at # "new" /\ doc' \in Docs
  BY DEF Fail, IInv, Served
<1>2. QED
  BY <1>1, ServerStep DEF Fail

-----------------------------------------------------------------------------
(* The ends of a call.                                                     *)

LEMMA QuieterTrans ==
  ASSUME NEW T, NEW U, NEW V, Quieter(U, T), Quieter(V, U)
  PROVE  Quieter(V, T)
BY DEF Quieter

LEMMA EndOK ==
  ASSUME IInv, NEW c \in Call, NEW T, Sound(T), Unique(T, {c}, asked), T.call = tab.call,
         Live(c), Become(Finally(T, {c}))
  PROVE  Good(tab', asked) /\ Made(tab', tab)
<1> DEFINE U == Finally(T, {c})
<1>1. \A d \in {c} : d \in Call /\ IsLive(T, d)
  BY DEF Live, IsLive
<1>2. Good(U, asked) /\ Made(U, T)
  BY <1>1, FinallyOK DEF Good
<1> HIDE DEF U
<1>3. Made(U, tab)
  BY <1>2 DEF Made
<1>4. QED
  BY <1>2, <1>3, BecomeOK DEF U

LEMMA QuietEnd ==
  ASSUME IInv, NEW c \in Call, NEW T, Quieter(T, tab), Live(c), Become(Finally(T, {c}))
  PROVE  Good(tab', asked) /\ Made(tab', tab)
<1>1. Sound(T) /\ Unique(T, {}, asked) /\ T.call = tab.call
  BY SoundTab, QuieterGood DEF Good, Quieter
<1>2. Unique(T, {c}, asked)
  BY <1>1 DEF Unique, Carries
<1>3. QED
  BY <1>1, <1>2, EndOK

(* A field of the store that bears no flag of a call.                      *)
LEMMA MsgsOK ==
  ASSUME NEW T, Sound(T)
  PROVE  Quieter([T EXCEPT !.store.msgs = TRUE], T)
<1> DEFINE S == [T.store EXCEPT !.msgs = TRUE]
           U == [T EXCEPT !.store.msgs = TRUE]
<1>1. S \in Stores /\ S.streaming = T.store.streaming
  BY DEF Sound, Tabs, Stores
<1>2. U = PutStore(T, S)
  BY DEF PutStore, Sound, Tabs
<1> HIDE DEF S, U
<1>3. Quieter(U, T)
  BY <1>1, <1>2, StoreOK
<1>4. QED
  BY <1>3 DEF U

LEMMA ExhaustedOK ==
  ASSUME NEW T, Sound(T)
  PROVE  Quieter([T EXCEPT !.store.exhausted = TRUE], T)
<1> DEFINE S == [T.store EXCEPT !.exhausted = TRUE]
           U == [T EXCEPT !.store.exhausted = TRUE]
<1>1. S \in Stores /\ S.streaming = T.store.streaming
  BY DEF Sound, Tabs, Stores
<1>2. U = PutStore(T, S)
  BY DEF PutStore, Sound, Tabs
<1> HIDE DEF S, U
<1>3. Quieter(U, T)
  BY <1>1, <1>2, StoreOK
<1>4. QED
  BY <1>3 DEF U

LEMMA GeneratingOK ==
  ASSUME NEW T, Sound(T)
  PROVE  LET U == [T EXCEPT !.store.generating = FALSE] IN
         /\ Quieter(U, T) /\ U.call = T.call /\ U.panel = T.panel /\ U.page = T.page
         /\ U.pending = T.pending
<1> DEFINE S == [T.store EXCEPT !.generating = FALSE]
           U == [T EXCEPT !.store.generating = FALSE]
<1>1. S \in Stores /\ S.streaming = T.store.streaming
  BY DEF Sound, Tabs, Stores
<1>2. U = PutStore(T, S)
  BY DEF PutStore, Sound, Tabs
<1> HIDE DEF S, U
<1>3. /\ Quieter(U, T) /\ U.call = T.call /\ U.panel = T.panel /\ U.page = T.page
      /\ U.pending = T.pending
  BY <1>1, <1>2, StoreOK
<1>4. QED
  BY <1>3 DEF U

LEMMA QuieterSound == ASSUME NEW T, NEW U, Sound(T), Quieter(U, T) PROVE Sound(U)
BY QuieterOK

LEMMA LiveCall ==
  ASSUME IInv, NEW c \in Call, Live(c)
  PROVE  /\ tab.call[c] \in CallRec /\ tab.call[c].at # "new"
         /\ tab.call[c].panel \in Panel /\ Target(c) \in Project
         /\ tab.call[c].proj \in Project
         /\ tab.call[c].mode # "revise" => tab.call[c].prompt \in Project
<1>1. tab.call[c].at # "new"
  BY DEF Live, IsLive
<1>2. tab.call[c].panel \in Panel
  BY SoundTab DEF Sound, CallsOK, Live
<1>3. QED
  BY <1>1, <1>2, CallTypes

LEMMA RefusedStep == ASSUME IInv, NEW c \in Call, Refused(c) PROVE IInv'
<1> DEFINE T == [tab EXCEPT !.store.generating = FALSE]
           U == [T EXCEPT !.store.exhausted = TRUE]
           q == tab.call[c].prompt
           W == [T EXCEPT !.store.exhausted = TRUE, !.pending = q]
<1>1. Sound(tab) /\ Unique(tab, {}, asked)
  BY SoundTab
<1>2. /\ Live(c)
      /\ \/ Become(Finally(T, {c}))
         \/ Become(Finally(U, {c}))
         \/ tab.call[c].mode = "generate" /\ Become(Finally(W, {c}))
  BY DEF Refused
<1>3. Quieter(T, tab)
  BY <1>1, GeneratingOK
<1>4. Sound(T) /\ T.call = tab.call
  BY <1>1, <1>3, QuieterSound DEF Quieter
<1> HIDE DEF T
<1>5. Quieter(U, T)
  BY <1>4, ExhaustedOK
<1>6. Quieter(U, tab) /\ Sound(U)
  BY <1>3, <1>4, <1>5, QuieterTrans, QuieterSound
<1>7. W = [U EXCEPT !.pending = q]
  BY <1>4 DEF Sound, Tabs
<1>8. Good(tab', asked) /\ Made(tab', tab)
  <2>1. CASE Become(Finally(T, {c})) \/ Become(Finally(U, {c}))
    BY <1>2, <1>3, <1>6, <2>1, QuietEnd
  <2>2. CASE tab.call[c].mode = "generate" /\ Become(Finally(W, {c}))
    <3>1. q \in Project /\ q # NULL
      BY <1>2, <2>2, LiveCall, PanelAssumption
    <3> HIDE DEF U, W, q
    <3>2. /\ W \in Tabs /\ W.call = U.call /\ W.panel = U.panel /\ W.page = U.page
          /\ W.store = U.store /\ W.pending = q
      BY <1>6, <1>7, <3>1 DEF Sound, Tabs, Named
    <3>3. Sound(W)
      BY <1>6, <3>2 DEF Sound, PanelsOK, CallsOK, Open, IsLive
    <3>4. W.call = tab.call
      BY <1>6, <3>2 DEF Quieter
    <3>5. Carries(tab, {}, c) /\ tab.call[c].prompt = q
      BY <1>2, <3>1 DEF Carries, Live, q
    <3>6. \A d \in Call : Carries(W, {c}, d) =>
            Carries(tab, {}, d) /\ W.call[d] = tab.call[d] /\ d # c
      BY <3>4 DEF Carries, IsLive
    <3>7. \A l \in Panel : Offers(W, l) => Offers(tab, l) /\ W.panel[l].offer = tab.panel[l].offer
      BY <1>6, <3>2 DEF Quieter, Offers, Open
    <3>8. Unique(W, {c}, asked)
      BY <1>1, <3>2, <3>5, <3>6, <3>7 DEF Unique
    <3>9. QED
      BY <1>2, <2>2, <3>3, <3>4, <3>8, EndOK
  <2>3. QED
    BY <1>2, <2>1, <2>2
<1>9. Served'
  <2>1. req' = [req EXCEPT ![c] = "over"] /\ doc' = doc /\ asked' = asked /\ back' = back
    BY DEF Refused
  <2>2. tab.call[c].at # "new"
    BY <1>2, LiveCall
  <2>3. QED
    BY <1>8, <2>1, <2>2 DEF IInv, Served, Made
<1>10. Good(tab', asked')
  BY <1>8 DEF Refused
<1>11. QED
  BY <1>9, <1>10 DEF IInv

LEMMA DeltaStep == ASSUME IInv, NEW c \in Call, Delta(c) PROVE IInv'
<1> DEFINE r == [tab.call[c] EXCEPT !.part = TRUE]
           S == [tab.store EXCEPT !.shown = tab.call[c].proj]
           U == [tab EXCEPT !.call[c].part = TRUE, !.store.shown = tab.call[c].proj]
<1>1. Sound(tab) /\ Streams(tab) /\ Unique(tab, {}, asked) /\ tab \in Tabs /\ tab.store \in Stores
  BY SoundTab
<1>2. tab.call[c] \in CallRec /\ tab.call[c].proj \in Named
  BY LiveCall DEF Delta, Named
<1>3. /\ r \in CallRec /\ r.at = tab.call[c].at /\ r.panel = tab.call[c].panel
      /\ r.proj = tab.call[c].proj /\ r.mode = tab.call[c].mode /\ r.prompt = tab.call[c].prompt
      /\ S \in Stores /\ S.streaming = tab.store.streaming
  BY <1>1, <1>2 DEF CallRec, Stores
<1>4. U = [tab EXCEPT !.call[c] = r, !.store = S]
  BY <1>1 DEF Tabs
<1> HIDE DEF r, S
<1>5. /\ U \in Tabs /\ U.page = tab.page /\ U.panel = tab.panel /\ U.pending = tab.pending
      /\ U.store = S
      /\ U.call[c] = r /\ \A d \in Call : d # c => U.call[d] = tab.call[d]
  BY <1>1, <1>3, <1>4 DEF Tabs
<1>6. Become(U)
  BY DEF Delta
<1> HIDE DEF U
<1>7. \A d \in Call : /\ U.call[d].at = tab.call[d].at /\ U.call[d].panel = tab.call[d].panel
                      /\ U.call[d].proj = tab.call[d].proj /\ U.call[d].mode = tab.call[d].mode
                      /\ U.call[d].prompt = tab.call[d].prompt
  BY <1>3, <1>5
<1>8. Sound(U)
  <2>1. \A d \in Call : IsLive(U, d) <=> IsLive(tab, d)
    BY <1>7 DEF IsLive
  <2>2. PanelsOK(U)
    <3>1. \A k \in Panel : tab.panel[k].ctrl \in Call \cup {NULL}
      BY PanelRecs DEF PanelRec
    <3>2. QED
      BY <1>1, <1>5, <1>7, <2>1, <3>1 DEF Sound, PanelsOK, Open
  <2>3. CallsOK(U)
    BY <1>1, <1>7, <2>1 DEF Sound, CallsOK
  <2>4. QED
    BY <1>5, <2>2, <2>3 DEF Sound
<1>9. Less(U, tab)
  BY <1>5, <1>7 DEF Less, Made, Offers, Open, IsLive
<1>10. Good(U, asked) /\ Made(U, tab)
  <2>1. Streams(U)
    BY <1>1, <1>3, <1>5, <1>7 DEF Streams, IsLive
  <2>2. QED
    BY <1>1, <1>8, <1>9, <2>1, LessUnique DEF Good, Less
<1>11. Good(tab', asked) /\ Made(tab', tab)
  BY <1>6, <1>10, BecomeOK
<1>12. back' \in Named /\ UNCHANGED <<server, asked>>
  BY DEF Delta, IInv, Served
<1>13. QED
  BY <1>11, <1>12, TabStep

LEMMA DoneStep == ASSUME IInv, NEW c \in Call, Done(c) PROVE IInv'
<1> DEFINE mode == tab.call[c].mode
           k == tab.call[c].panel
           v == IF Open(tab, k) THEN Target(c) ELSE tab.panel[k].conv
           r == [tab.panel[k] EXCEPT !.conv = v]
           P == PutPanel(tab, k, r)
           T == [tab EXCEPT !.panel[k].conv = v, !.store.generating = FALSE]
           Said == [T EXCEPT !.store.msgs = TRUE]
           U == IF mode = "revise" THEN Said
                ELSE IF mode = "generate" THEN Clear(T) ELSE T
<1>1. Sound(tab) /\ tab \in Tabs
  BY SoundTab
<1>2. Live(c) /\ Become(Finally(U, {c})) /\ UNCHANGED <<server, asked>> /\ back' \in Named
  BY DEF Done, IInv, Served
<1>3. k \in Panel /\ Target(c) \in Project
  BY <1>2, LiveCall
<1>4. tab.panel[k] \in PanelRec
  BY <1>3, PanelRecs
<1>5. T = [P EXCEPT !.store.generating = FALSE]
  BY <1>1, <1>3 DEF PutPanel, Tabs
<1> HIDE DEF k
<1>6. v \in Named
  BY <1>3, <1>4 DEF PanelRec, Named
<1> HIDE DEF v
<1>7. /\ r \in PanelRec /\ r.at = tab.panel[k].at /\ r.sub = tab.panel[k].sub
      /\ r.ctrl = tab.panel[k].ctrl /\ r.offer = tab.panel[k].offer
  BY <1>4, <1>6 DEF PanelRec
<1> HIDE DEF r, T
<1>8. Quieter(P, tab)
  BY <1>1, <1>3, <1>7, PanelOK
<1>9. Sound(P)
  BY <1>1, <1>8, QuieterSound
<1> HIDE DEF P
<1>10. Quieter(T, P)
  BY <1>5, <1>9, GeneratingOK
<1>11. Quieter(T, tab) /\ Sound(T)
  BY <1>1, <1>8, <1>10, QuieterTrans, QuieterSound
<1>12. Quieter(Said, T) /\ Quieter(Clear(T), T)
  BY <1>11, MsgsOK, ClearOK
<1>13. Quieter(Said, tab) /\ Quieter(Clear(T), tab)
  BY <1>11, <1>12, QuieterTrans
<1>14. Quieter(U, tab)
  BY <1>11, <1>13
<1> HIDE DEF U
<1>15. Good(tab', asked) /\ Made(tab', tab)
  BY <1>2, <1>14, QuietEnd
<1>16. QED
  BY <1>2, <1>15, TabStep

LEMMA ErrorEventStep == ASSUME IInv, NEW c \in Call, ErrorEvent(c) PROVE IInv'
<1> DEFINE k == tab.call[c].panel
           T == [tab EXCEPT !.store.generating = FALSE]
           Said == [T EXCEPT !.store.msgs = TRUE]
           o == IF Open(T, k) THEN tab.call[c].prompt ELSE T.panel[k].offer
           r == [T.panel[k] EXCEPT !.offer = o]
           W == [T EXCEPT !.panel[k].offer = o]
<1>1. Sound(tab) /\ tab \in Tabs /\ Unique(tab, {}, asked)
  BY SoundTab
<1>2. /\ Live(c) /\ UNCHANGED <<server, asked>> /\ back' \in Named
      /\ Become(Finally(Said, {c})) \/ Become(Finally(W, {c}))
  BY DEF ErrorEvent, IInv, Served
<1>3. k \in Panel /\ tab.call[c] \in CallRec
  BY <1>2, LiveCall
<1>4. /\ Quieter(T, tab) /\ T.call = tab.call /\ T.panel = tab.panel /\ T.page = tab.page
      /\ T.pending = tab.pending
  BY <1>1, GeneratingOK
<1>5. Sound(T)
  BY <1>1, <1>4, QuieterSound
<1> HIDE DEF T, k
<1>6. CASE Become(Finally(Said, {c}))
  <2>1. Quieter(Said, T)
    BY <1>5, MsgsOK
  <2>2. Quieter(Said, tab)
    BY <1>4, <2>1, QuieterTrans
  <2> HIDE DEF Said
  <2>3. Good(tab', asked) /\ Made(tab', tab)
    BY <1>2, <1>6, <2>2, QuietEnd
  <2>4. QED
    BY <1>2, <2>3, TabStep
<1>7. CASE Become(Finally(W, {c}))
  <2>1. T \in Tabs /\ T.panel[k] \in PanelRec
    BY <1>3, <1>5 DEF Sound, Tabs
  <2>2. o \in {T.panel[k].offer, tab.call[c].prompt} /\ o \in Named
    BY <1>3, <2>1 DEF PanelRec, CallRec
  <2> HIDE DEF o
  <2>3. /\ r \in PanelRec /\ r.at = T.panel[k].at /\ r.sub = T.panel[k].sub
        /\ r.ctrl = T.panel[k].ctrl /\ r.offer = o
    BY <2>1, <2>2 DEF PanelRec
  <2>4. W = [T EXCEPT !.panel[k] = r]
    BY <2>1 DEF Tabs
  <2> HIDE DEF r, W
  <2>5. /\ W \in Tabs /\ W.call = T.call /\ W.page = T.page /\ W.pending = T.pending
        /\ W.panel[k] = r /\ \A l \in Panel : l # k => W.panel[l] = T.panel[l]
    BY <1>3, <2>1, <2>3, <2>4 DEF Tabs
  <2>6. Unique(T, {}, asked) /\ IsLive(T, c)
    BY <1>1, <1>2, <1>4, QuieterOK, LessUnique DEF Live, IsLive
  <2>7. W.panel[k].offer \in {T.panel[k].offer, T.call[c].prompt}
    BY <1>4, <2>2, <2>3, <2>5
  <2>8. Sound(W) /\ Unique(W, {c}, asked)
    BY <1>3, <1>5, <2>3, <2>5, <2>6, <2>7, OfferOK
  <2>9. Good(tab', asked) /\ Made(tab', tab)
    BY <1>2, <1>4, <1>7, <2>5, <2>8, EndOK
  <2>10. QED
    BY <1>2, <2>9, TabStep
<1>8. QED
  BY <1>2, <1>6, <1>7

LEMMA ClosedStep == ASSUME IInv, NEW c \in Call, Closed(c) PROVE IInv'
<1> DEFINE T == Clear(tab)
           Said == [T EXCEPT !.store.msgs = TRUE]
<1>1. Sound(tab)
  BY SoundTab
<1>2. /\ Live(c) /\ UNCHANGED <<server, asked>> /\ back' \in Named
      /\ Become(Finally(T, {c})) \/ Become(Finally(Said, {c}))
  BY DEF Closed, IInv, Served
<1>3. Quieter(T, tab)
  BY <1>1, ClearOK
<1>4. Sound(T)
  BY <1>1, <1>3, QuieterSound
<1> HIDE DEF T
<1>5. Quieter(Said, T)
  BY <1>4, MsgsOK
<1>6. Quieter(Said, tab)
  BY <1>3, <1>5, QuieterTrans
<1> HIDE DEF Said
<1>7. Good(tab', asked) /\ Made(tab', tab)
  BY <1>2, <1>3, <1>6, QuietEnd
<1>8. QED
  BY <1>2, <1>7, TabStep

LEMMA BrokenStep == ASSUME IInv, NEW c \in Call, Broken(c) PROVE IInv'
<1> DEFINE T == Caught(tab, c)
<1>1. Sound(tab) /\ Unique(tab, {}, asked) /\ Live(c) /\ Become(Finally(T, {c}))
  BY SoundTab DEF Broken
<1>2. Sound(T) /\ Unique(T, {c}, asked) /\ T.call = tab.call
  BY <1>1, CaughtOK DEF Live
<1> HIDE DEF T
<1>3. Good(tab', asked) /\ Made(tab', tab)
  BY <1>1, <1>2, EndOK
<1>4. back' \in Named /\ UNCHANGED <<server, asked>>
  BY DEF Broken, IInv, Served
<1>5. QED
  BY <1>3, <1>4, TabStep

-----------------------------------------------------------------------------
LEMMA InitInv == Init => IInv
<1> SUFFICES ASSUME Init PROVE IInv
  OBVIOUS
<1>1. \A k \in Panel : tab.panel[k] = NoPanel
  BY DEF Init, Blank
<1>2. \A c \in Call : tab.call[c] = NoCall
  BY DEF Init, Blank
<1>3. /\ tab.pending = NULL /\ tab.store.streaming = FALSE
  BY DEF Init, Blank, NoStore
<1>4. NoPanel \in PanelRec /\ NoPanel.at = "new" /\ NoPanel.ctrl = NULL
  BY DEF NoPanel, PanelRec, Named
<1>5. NoCall \in CallRec /\ NoCall.at = "new"
  BY DEF NoCall, CallRec, Named
<1>6. tab \in Tabs
  <2>1. NoStore \in Stores
    BY DEF NoStore, Stores, Named
  <2>2. QED
    BY <1>4, <1>5, <2>1 DEF Init, Blank, Tabs, Named
<1>7. Sound(tab)
  BY <1>1, <1>2, <1>4, <1>5, <1>6 DEF Sound, PanelsOK, CallsOK, Open, IsLive
<1>8. Unique(tab, {}, asked) /\ Streams(tab)
  BY <1>1, <1>2, <1>3, <1>4, <1>5 DEF Unique, Streams, Carries, Offers, Open, IsLive
<1>9. Served
  BY DEF Init, Served, Docs, Named
<1>10. QED
  BY <1>7, <1>8, <1>9 DEF IInv, Good

LEMMA StepInv == IInv /\ [Next]_vars => IInv'
<1> SUFFICES ASSUME IInv, [Next]_vars PROVE IInv'
  OBVIOUS
<1>1. CASE UNCHANGED vars
  BY <1>1 DEF vars, server, IInv, Good, Served, Sound, Streams, Unique, PanelsOK, CallsOK,
              Carries, Offers, Open, IsLive, Tabs, PanelRec, CallRec, Stores, Docs, Named
<1>2. CASE User
  <2>1. CASE \E p \in Project : Ask(p) \/ OpenPage(p) \/ Switch(p)
    BY <2>1, AskStep, OpenPageStep, SwitchStep
  <2>2. CASE \E k \in Panel : Send(k) \/ Cancel(k) \/ Resume(k) \/ Dismiss(k)
    BY <2>2, SendStep, CancelStep, ResumeStep, DismissStep
  <2>3. CASE Leave \/ Toggle \/ Restart \/ CloseDialogue \/ Pay \/ Return \/ Abandon
    BY <2>3, LeaveStep, ToggleStep, RestartStep, CloseDialogueStep, PayStep, ReturnStep,
       AbandonStep
  <2>4. QED
    BY <1>2, <2>1, <2>2, <2>3 DEF User
<1>3. CASE Serve
  BY <1>3, BeginStep, SaveStep, FailStep DEF Serve
<1>4. CASE Reload
  BY <1>4, ReloadStep
<1>5. CASE \E k \in Panel : Synced(k) \/ NotSynced(k)
  BY <1>5, SyncedStep, NotSyncedStep
<1>6. CASE \E c \in Call : Delta(c) \/ Ends(c)
  BY <1>6, DeltaStep, RefusedStep, DoneStep, ErrorEventStep, ClosedStep, BrokenStep DEF Ends
<1>7. QED
  BY <1>1, <1>2, <1>3, <1>4, <1>5, <1>6 DEF Next

LEMMA Invariance == Spec => []IInv
BY InitInv, StepInv, PTL DEF Spec

(* What the tab's scripts and the server hold is of its type: a controller *)
(* a panel keeps is that of a call that is going on, and every such call   *)
(* has a panel.                                                            *)
THEOREM PanelTypeTheorem == Spec => []TypeOK
BY Invariance, InvImplies, PTL

(* Whatever panels, effects, payments and calls do in whatever order, the  *)
(* prompt of a project waits in the tab's storage, or one call carries it, *)
(* or one panel offers to resume it: it is never generated twice.          *)
THEOREM PromptTheorem == Spec => []PromptInOnePlace
BY Invariance, InvImplies, PTL

(* isStreaming and an open panel's isSubmittingRef are set only while a    *)
(* call is going on, in the panel's case one of its own: no end of a call, *)
(* cancellation or change of page leaves the input blocked by nothing.     *)
THEOREM BlockedTheorem == Spec => []BlockedByCall
BY Invariance, InvImplies, PTL
=============================================================================
