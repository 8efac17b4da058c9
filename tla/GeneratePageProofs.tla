-------------------------- MODULE GeneratePageProofs --------------------------
(* Proofs about GeneratePage.  A step of the browser is a few effects, one *)
(* after the other, each of which takes the pages, the calls and the       *)
(* guards as the one before left them; the invariant is therefore stated   *)
(* of such a triple, and shown to be kept by every effect.                 *)
EXTENDS GeneratePage, TLAPS

PageRec == [at : {"new", "open", "gone"},
                   proj : Project \cup {NULL}, loaded : BOOLEAN,
                   shown : Project \cup {NULL}, gen : BOOLEAN,
                   seen : BOOLEAN, error : BOOLEAN, unsaved : BOOLEAN,
                   save : (Project \X Call) \cup {NULL}, text : Call \cup {NULL},
                   busy : BOOLEAN, abort : Call \cup {NULL},
                   auto : BOOLEAN, sync : Project \cup {NULL},
                   muted : Project \cup {NULL}]

Pages == [Page -> PageRec]

CallRec == [at : {"new", "wait", "fetch", "stream", "done"},
                   page : Page \cup {NULL}, proj : Project \cup {NULL},
                   by : {"visit", "click", "resume", NULL},
                   aborted : BOOLEAN, got : {"none", "part", "all"}]

Calls == [Call -> CallRec]

Guards == [Project -> Call \cup {NULL}]

Answers == [Call -> {"none", "sent", "credit", "plan", "refused", "conflict", "working",
                     "written", "cut", "lost", "unpaid", "done"}]

IsLive(C, c) == C[c].at \in {"fetch", "stream"}

(* A page that is open or checks a payment knows its project, and what it  *)
(* offers for saving is a text.                                            *)
PageInv(Pg) ==
  \A m \in Page :
    /\ Pg[m].at = "open" \/ Pg[m].sync # NULL => Pg[m].proj \in Project
    /\ Pg[m].unsaved => Pg[m].text # NULL

CallInv(C) ==
  \A c \in Call :
    /\ C[c].at = "new" => C[c].page = NULL
    /\ C[c].at \in {"new", "wait"} => ~C[c].aborted
    /\ C[c].at \in {"wait", "fetch", "stream"} => C[c].page \in Page /\ C[c].proj \in Project

(* A call that is going on has the guard of its project, and a guard is of *)
(* a call that is going on or whose continuation has not run yet.          *)
GuardInv(C, G) ==
  /\ \A c \in Call : IsLive(C, c) /\ ~C[c].aborted => G[C[c].proj] = c
  /\ \A p \in Project : G[p] # NULL => IsLive(C, G[p]) /\ C[G[p]].proj = p

(* The controller of a page is that of a call of its own.                  *)
AbortInv(Pg, C) ==
  \A m \in Page : Pg[m].abort # NULL => C[Pg[m].abort].page = m

(* A criteria page that shows a generation has a call that will end it:    *)
(* the one its controller belongs to, or, when it has none, an aborted one *)
(* whose continuation has not run yet.                                     *)
GenInv(Pg, C) ==
  \A m \in Page : Ac /\ Pg[m].gen =>
    IF Pg[m].abort = NULL
      THEN \E c \in Call : IsLive(C, c) /\ C[c].aborted /\ C[c].page = m
      ELSE IsLive(C, Pg[m].abort) /\ ~C[Pg[m].abort].aborted

Consistent(Pg, C, G) ==
  /\ Pg \in Pages /\ C \in Calls /\ G \in Guards
  /\ PageInv(Pg) /\ CallInv(C) /\ GuardInv(C, G) /\ AbortInv(Pg, C) /\ GenInv(Pg, C)

(* The server has heard of the calls that were sent only, and the claim on *)
(* a project is that of a call of this project that is being served.       *)
Served(C, R, O) ==
  /\ R \in Answers /\ O \in [Project -> Call \cup {NULL}]
  /\ \A c \in Call : C[c].at \in {"new", "wait"} => R[c] = "none"
  /\ \A c \in Call : R[c] # "none" => C[c].proj \in Project
  /\ \A p \in Project : O[p] # NULL =>
        C[O[p]].proj = p /\ R[O[p]] \in {"working", "written"}

RestOK ==
  /\ stored \in [Project -> {"none", "cut", "foreign", "whole"}]
  /\ {suppress, intent, back} \subseteq Project \cup {NULL}
  /\ exhausted \in BOOLEAN /\ reload \in BOOLEAN
  /\ empty \subseteq Project
  /\ scene \in Scene

IInv == Consistent(page, call, guard) /\ Served(call, req, owner) /\ RestOK

(* What the invariant is for.                                              *)
LEMMA InvImplies == IInv => TypeOK /\ OneStream /\ GuardHasCall /\ NeverDeadEnd
<1> SUFFICES ASSUME IInv PROVE TypeOK /\ OneStream /\ GuardHasCall /\ NeverDeadEnd
  OBVIOUS
<1>1. TypeOK
  BY DEF IInv, Consistent, Served, RestOK, Pages, PageRec, Calls, CallRec, Guards, TypeOK
<1>2. OneStream /\ GuardHasCall
  BY DEF IInv, Consistent, GuardInv, IsLive, OneStream, GuardHasCall, Live
<1>3. ASSUME Ac, NEW m \in Page, DeadEnd(m) PROVE FALSE
  <2>1. ~page[m].gen
    <3> SUFFICES ASSUME page[m].gen PROVE FALSE
      OBVIOUS
    <3>1. page[m].abort # NULL => page[m].abort \in Call
      BY DEF IInv, Consistent, Pages, PageRec
    <3>2. \E c \in Call : IsLive(call, c) /\ call[c].page = m
      BY <1>3, <3>1 DEF IInv, Consistent, GenInv, AbortInv
    <3>3. QED
      BY <1>3, <3>2 DEF DeadEnd, Waits, IsLive
  <2>2. CanGenerate(page[m]) \/ CanReload(page[m])
    BY <1>3, <2>1 DEF DeadEnd, CanGenerate, CanReload
  <2>3. QED
    BY <1>3, <2>2 DEF DeadEnd
<1>4. QED
  BY <1>1, <1>2, <1>3 DEF NeverDeadEnd

-----------------------------------------------------------------------------
(* The parts of a step.                                                    *)

LEMMA Aborted ==
  ASSUME NEW C \in Calls, NEW c \in Call \cup {NULL}
  PROVE  /\ Aborting(C, c) \in Calls
         /\ \A d \in Call :
              /\ Aborting(C, c)[d].at = C[d].at
              /\ Aborting(C, c)[d].page = C[d].page /\ Aborting(C, c)[d].proj = C[d].proj
              /\ d # c \/ ~IsLive(C, d) => Aborting(C, c)[d] = C[d]
              /\ d = c /\ IsLive(C, d) => Aborting(C, c)[d].aborted
<1>1. CASE c \in Call /\ IsLive(C, c)
  <2>1. Aborting(C, c) = [C EXCEPT ![c].aborted = TRUE]
    BY <1>1, PageAssumption DEF Aborting, IsLive
  <2>2. C[c] \in CallRec
    BY <1>1 DEF Calls
  <2>3. /\ [C[c] EXCEPT !.aborted = TRUE] \in CallRec
        /\ Aborting(C, c) = [C EXCEPT ![c] = [C[c] EXCEPT !.aborted = TRUE]]
    BY <2>1, <2>2 DEF CallRec
  <2>4. /\ Aborting(C, c) \in Calls
        /\ Aborting(C, c)[c] = [C[c] EXCEPT !.aborted = TRUE]
        /\ \A d \in Call : d # c => Aborting(C, c)[d] = C[d]
    BY <1>1, <2>3 DEF Calls
  <2>5. QED
    BY <1>1, <2>2, <2>4 DEF CallRec
<1>2. CASE ~(c \in Call /\ IsLive(C, c))
  BY <1>2, PageAssumption DEF Aborting, IsLive
<1>3. QED
  BY <1>1, <1>2

LEMMA New ==
  ASSUME HasCall, scene \in Scene
  PROVE  NewCall \in Call /\ call[NewCall].at = "new"
<1>1. \E c \in scene.calls : call[c].at = "new"
  BY DEF HasCall
<1>2. NewCall \in scene.calls /\ call[NewCall].at = "new"
  BY <1>1 DEF NewCall
<1>3. scene.calls \subseteq Call
  BY PageAssumption
<1>4. QED
  BY <1>2, <1>3

(* A call that has waited for its guard starts.                            *)
LEMMA Acquired ==
  ASSUME NEW m \in Page, NEW P, NEW C, NEW G, NEW c \in Call,
         page \in Pages, Consistent([page EXCEPT ![m] = P], C, G), Served(C, req, owner),
         C[c].at = "wait", C[c].page = m, G[C[c].proj] = NULL,
         Acquire(c, m, P, C, G)
  PROVE  Consistent(page', call', guard') /\ Served(call', req', owner)
<1> DEFINE Q == [P EXCEPT !.gen = TRUE, !.busy = ~Ac, !.error = FALSE,
                          !.unsaved = FALSE, !.text = NULL, !.abort = c]
           Pg == [page EXCEPT ![m] = P]
           D == Aborting(C, P.abort)
           p == C[c].proj
<1>1. Pg \in Pages /\ Pg[m] = P /\ \A n \in Page : n # m => Pg[n] = page[n]
  BY DEF Consistent, Pages
<1>2. C \in Calls /\ G \in Guards /\ p \in Project /\ P.abort \in Call \cup {NULL}
  BY <1>1 DEF Consistent, CallInv, Pages, PageRec
<1>3. /\ D \in Calls
      /\ \A d \in Call :
           /\ D[d].at = C[d].at /\ D[d].page = C[d].page /\ D[d].proj = C[d].proj
           /\ d # P.abort \/ ~IsLive(C, d) => D[d] = C[d]
           /\ d = P.abort /\ IsLive(C, d) => D[d].aborted
  BY <1>2, Aborted
<1>4. page' = [page EXCEPT ![m] = Q] /\ call' = [D EXCEPT ![c].at = "fetch"]
      /\ guard' = [G EXCEPT ![p] = c] /\ req' = [req EXCEPT ![c] = "sent"]
  BY DEF Acquire
<1>a. P \in PageRec
  BY <1>1 DEF Pages
<1>b. /\ Q \in PageRec /\ Q.abort = c /\ ~Q.unsaved
      /\ Q.at = P.at /\ Q.sync = P.sync /\ Q.proj = P.proj
  <2>1. \E b \in BOOLEAN : Q = [P EXCEPT !.gen = TRUE, !.busy = b, !.error = FALSE,
                                 !.unsaved = FALSE, !.text = NULL, !.abort = c]
    BY DEF Ac
  <2> HIDE DEF Q
  <2>2. QED
    BY ZenonT(30), <1>a, <2>1 DEF PageRec
<1> HIDE DEF Q, D
<1>5. page' \in Pages /\ page'[m] = Q /\ \A n \in Page : n # m => page'[n] = Pg[n]
  BY <1>1, <1>4, <1>b DEF Pages
<1>6. /\ call' \in Calls
      /\ call'[c].at = "fetch" /\ call'[c].aborted = D[c].aborted
      /\ call'[c].page = D[c].page /\ call'[c].proj = D[c].proj
      /\ \A d \in Call : d # c => call'[d] = D[d]
  BY <1>3, <1>4 DEF Calls, CallRec
<1>7. guard' \in Guards /\ guard'[p] = c /\ \A q \in Project : q # p => guard'[q] = G[q]
  BY <1>2, <1>4 DEF Guards
<1>8. /\ call'[c].at = "fetch" /\ ~call'[c].aborted
      /\ call'[c].page = m /\ call'[c].proj = p
  BY <1>2, <1>3, <1>6 DEF Consistent, CallInv, IsLive
<1>9. \A d \in Call : d # c =>
         /\ call'[d].at = C[d].at /\ call'[d].page = C[d].page /\ call'[d].proj = C[d].proj
         /\ d # P.abort \/ ~IsLive(C, d) => call'[d].aborted = C[d].aborted
         /\ d = P.abort /\ IsLive(C, d) => call'[d].aborted
  BY <1>2, <1>3, <1>6
<1>10. PageInv(page')
  BY <1>1, <1>5, <1>b DEF Consistent, PageInv
<1>11. CallInv(call')
  BY <1>2, <1>8, <1>9 DEF Consistent, CallInv, IsLive
<1>12. GuardInv(call', guard')
  <2>1. \A d \in Call : IsLive(call', d) /\ ~call'[d].aborted => guard'[call'[d].proj] = d
    BY <1>2, <1>7, <1>8, <1>9, PageAssumption DEF Consistent, CallInv, GuardInv, IsLive
  <2>2. ASSUME NEW q \in Project, guard'[q] # NULL
        PROVE  IsLive(call', guard'[q]) /\ call'[guard'[q]].proj = q
    <3>1. CASE q = p
      BY <1>7, <1>8, <3>1 DEF IsLive
    <3>2. CASE q # p
      <4>1. guard'[q] = G[q] /\ G[q] \in Call /\ IsLive(C, G[q]) /\ C[G[q]].proj = q
        BY <1>1, <1>7, <2>2, <3>2 DEF Consistent, GuardInv, Guards
      <4>2. G[q] # c
        BY <1>2, <4>1 DEF IsLive
      <4>3. QED
        BY <1>9, <4>1, <4>2 DEF IsLive
    <3>3. QED
      BY <3>1, <3>2
  <2>3. QED
    BY <2>1, <2>2 DEF GuardInv
<1>13. AbortInv(page', call')
  <2> SUFFICES ASSUME NEW n \in Page, page'[n].abort # NULL
               PROVE  call'[page'[n].abort].page = n
    BY DEF AbortInv
  <2>1. CASE n = m
    BY <1>5, <1>8, <1>b, <2>1
  <2>2. CASE n # m
    <3>1. Pg[n].abort \in Call /\ C[Pg[n].abort].page = n
      BY <1>1, <1>5, <2>2 DEF Consistent, AbortInv, Pages, PageRec
    <3>2. QED
      BY <1>5, <1>8, <1>9, <2>2, <3>1
  <2>3. QED
    BY <2>1, <2>2
<1>14. GenInv(page', call')
  <2> SUFFICES ASSUME NEW n \in Page, Ac, page'[n].gen
               PROVE  IF page'[n].abort = NULL
                      THEN \E d \in Call : IsLive(call', d) /\ call'[d].aborted /\ call'[d].page = n
                      ELSE IsLive(call', page'[n].abort) /\ ~call'[page'[n].abort].aborted
    BY DEF GenInv
  <2>1. CASE n = m
    <3>1. page'[n].abort = c
      BY <1>5, <1>b, <2>1
    <3>2. QED
      BY <3>1, <1>8, PageAssumption DEF IsLive
  <2>2. CASE n # m /\ Pg[n].abort = NULL
    <3>1. PICK d \in Call : IsLive(C, d) /\ C[d].aborted /\ C[d].page = n
      BY <1>5, <2>2 DEF Consistent, GenInv
    <3>2. d # c /\ (P.abort # NULL => C[P.abort].page = m)
      BY <1>1, <3>1 DEF IsLive, Consistent, AbortInv
    <3>3. d # P.abort
      BY <3>1, <3>2, <2>2, PageAssumption
    <3>4. QED
      BY <1>5, <1>9, <2>2, <3>1, <3>2, <3>3 DEF IsLive
  <2>3. CASE n # m /\ Pg[n].abort # NULL
    <3>1. /\ Pg[n].abort \in Call /\ IsLive(C, Pg[n].abort) /\ ~C[Pg[n].abort].aborted
          /\ C[Pg[n].abort].page = n
      BY <1>1, <1>5, <2>3 DEF Consistent, GenInv, AbortInv, Pages, PageRec
    <3>2. Pg[n].abort # c /\ (P.abort # NULL => C[P.abort].page = m)
      BY <1>1, <3>1 DEF IsLive, Consistent, AbortInv
    <3>3. Pg[n].abort # P.abort
      BY <3>1, <3>2, <2>3
    <3>4. QED
      BY <1>5, <1>9, <2>3, <3>1, <3>2, <3>3 DEF IsLive
  <2>4. QED
    BY <1>5, <2>1, <2>2, <2>3
<1>15. Served(call', req', owner)
  <2>1. req' \in Answers /\ req'[c] = "sent" /\ \A d \in Call : d # c => req'[d] = req[d]
    BY <1>4 DEF Served, Answers
  <2>2. req[c] = "none"
    BY DEF Served
  <2>3. \A q \in Project : owner[q] # NULL => owner[q] # c
    BY <2>2 DEF Served
  <2>4. \A q \in Project : owner[q] # NULL =>
           call'[owner[q]].proj = q /\ req'[owner[q]] \in {"working", "written"}
    BY <1>8, <1>9, <2>1, <2>3 DEF Served, Answers
  <2>5. QED
    BY <1>2, <1>8, <1>9, <2>1, <2>2, <2>4 DEF Served
<1>16. QED
  BY <1>5, <1>6, <1>7, <1>10, <1>11, <1>12, <1>13, <1>14, <1>15 DEF Consistent

(* A page is changed in what the invariant does not speak of, or stops     *)
(* showing a generation.                                                   *)
LEMMA Changed ==
  ASSUME NEW m \in Page, NEW P, NEW Q \in PageRec, NEW C, NEW G,
         page \in Pages, Consistent([page EXCEPT ![m] = P], C, G),
         Q.at = "open" \/ Q.sync # NULL => Q.proj \in Project,
         Q.unsaved => Q.text # NULL,
         Q.abort \in {P.abort, NULL},
         Ac /\ Q.gen => P.gen /\ Q.abort = P.abort
  PROVE  Consistent([page EXCEPT ![m] = Q], C, G)
<1> DEFINE Pg == [page EXCEPT ![m] = P]
           Qg == [page EXCEPT ![m] = Q]
<1>1. /\ Pg[m] = P /\ Qg \in Pages /\ Qg[m] = Q
      /\ \A n \in Page : n # m => Qg[n] = Pg[n]
  BY DEF Pages
<1>2. Consistent(Pg, C, G)
  OBVIOUS
<1> HIDE DEF Pg, Qg
<1>3. PageInv(Qg)
  BY <1>1, <1>2 DEF Consistent, PageInv
<1>4. AbortInv(Qg, C)
  BY <1>1, <1>2 DEF Consistent, AbortInv
<1>5. GenInv(Qg, C)
  <2> SUFFICES ASSUME NEW n \in Page, Ac, Qg[n].gen
               PROVE  IF Qg[n].abort = NULL
                      THEN \E d \in Call : IsLive(C, d) /\ C[d].aborted /\ C[d].page = n
                      ELSE IsLive(C, Qg[n].abort) /\ ~C[Qg[n].abort].aborted
    BY DEF GenInv
  <2>1. Pg[n].gen /\ Qg[n].abort = Pg[n].abort
    BY <1>1
  <2>2. QED
    BY <1>2, <2>1 DEF Consistent, GenInv
<1>6. QED
  BY <1>1, <1>2, <1>3, <1>4, <1>5 DEF Consistent, Qg

LEMMA Same ==
  ASSUME NEW m \in Page, page \in Pages
  PROVE  page[m] \in PageRec /\ page = [page EXCEPT ![m] = page[m]]
BY DEF Pages

(* handleGenerate begins.                                                  *)
Asked(C, c, m, p, by) ==
  [C EXCEPT ![c] = [NoCall EXCEPT !.at = "wait", !.page = m, !.proj = p, !.by = by]]

LEMMA Begun ==
  ASSUME NEW Pg, NEW C, NEW G, NEW m \in Page, NEW p \in Project, NEW c \in Call,
         NEW by \in {"visit", "click", "resume"},
         Consistent(Pg, C, G), Served(C, req, owner), C[c].at = "new"
  PROVE  LET D == Asked(C, c, m, p, by) IN
         /\ Consistent(Pg, D, G) /\ Served(D, req, owner)
         /\ D[c].at = "wait" /\ D[c].page = m /\ D[c].proj = p
<1> DEFINE D == Asked(C, c, m, p, by)
           r == [NoCall EXCEPT !.at = "wait", !.page = m, !.proj = p, !.by = by]
<1>1. r \in CallRec /\ r.at = "wait" /\ r.page = m /\ r.proj = p /\ ~r.aborted
  BY DEF NoCall, CallRec
<1>a. D = [C EXCEPT ![c] = r]
  BY DEF Asked
<1> HIDE DEF r, D
<1>2. D \in Calls /\ D[c] = r /\ \A d \in Call : d # c => D[d] = C[d]
  BY <1>a, <1>1 DEF Consistent, Calls
<1>3. CallInv(D) /\ GuardInv(D, G)
  <2>1. \A q \in Project : G[q] # NULL => G[q] \in Call /\ G[q] # c
    BY DEF Consistent, GuardInv, Guards, IsLive
  <2>2. QED
    BY <1>1, <1>2, <2>1 DEF Consistent, CallInv, GuardInv, IsLive
<1>4. \A n \in Page : Pg[n].abort # NULL => Pg[n].abort \in Call /\ Pg[n].abort # c
  <2> SUFFICES ASSUME NEW n \in Page, Pg[n].abort # NULL
               PROVE  Pg[n].abort \in Call /\ Pg[n].abort # c
    OBVIOUS
  <2>1. Pg[n].abort \in Call /\ C[Pg[n].abort].page = n
    BY DEF Consistent, AbortInv, Pages, PageRec
  <2>2. C[c].page = NULL
    BY DEF Consistent, CallInv
  <2>3. QED
    BY <2>1, <2>2, PageAssumption
<1>5. AbortInv(Pg, D)
  BY <1>2, <1>4 DEF Consistent, AbortInv
<1>6. GenInv(Pg, D)
  <2> SUFFICES ASSUME NEW n \in Page, Ac, Pg[n].gen
               PROVE  IF Pg[n].abort = NULL
                      THEN \E d \in Call : IsLive(D, d) /\ D[d].aborted /\ D[d].page = n
                      ELSE IsLive(D, Pg[n].abort) /\ ~D[Pg[n].abort].aborted
    BY DEF GenInv
  <2>1. CASE Pg[n].abort = NULL
    <3>1. PICK d \in Call : IsLive(C, d) /\ C[d].aborted /\ C[d].page = n
      BY <2>1 DEF Consistent, GenInv
    <3>2. D[d] = C[d]
      BY <1>2, <3>1 DEF IsLive
    <3>3. QED
      BY <2>1, <3>1, <3>2 DEF IsLive
  <2>2. CASE Pg[n].abort # NULL
    BY <1>2, <1>4, <2>2 DEF Consistent, GenInv, IsLive
  <2>3. QED
    BY <2>1, <2>2
<1>7. Served(D, req, owner)
  <2>1. req[c] = "none"
    BY DEF Served
  <2>2. \A q \in Project : owner[q] # NULL => owner[q] \in Call /\ owner[q] # c
    BY <2>1 DEF Served
  <2>3. QED
    BY <1>1, <1>2, <2>1, <2>2 DEF Served
<1>8. QED
  BY <1>1, <1>2, <1>3, <1>5, <1>6, <1>7 DEF Consistent, D

LEMMA Started ==
  ASSUME NEW m \in Page, NEW p \in Project, NEW by \in {"visit", "click", "resume"},
         NEW P, NEW C, NEW G, page \in Pages, scene \in Scene,
         Consistent([page EXCEPT ![m] = P], C, G), Served(C, req, owner),
         \A d \in Call : C[d].at = call[d].at,
         Start(m, p, by, P, C, G)
  PROVE  Consistent(page', call', guard') /\ Served(call', req', owner)
<1> DEFINE Pg == [page EXCEPT ![m] = P]
           c == NewCall
           D == Asked(C, c, m, p, by)
<1>b. Consistent(Pg, C, G)
  OBVIOUS
<1> HIDE DEF Pg, c
<1>1. CASE Keep(m, P, C, G)
  BY <1>1 DEF Keep
<1>2. CASE HasCall /\ G[p] # NULL /\ Keep(m, P, D, G)
  <2>1. c \in Call /\ C[c].at = "new"
    BY <1>2, New DEF c
  <2>2. Consistent(Pg, D, G) /\ Served(D, req, owner)
    BY <1>b, <2>1, Begun
  <2>3. QED
    BY <1>2, <2>2 DEF Keep, Pg
<1>3. CASE HasCall /\ G[p] = NULL /\ Acquire(c, m, P, D, G)
  <2>1. c \in Call /\ C[c].at = "new"
    BY <1>3, New DEF c
  <2>2. /\ Consistent(Pg, D, G) /\ Served(D, req, owner)
        /\ D[c].at = "wait" /\ D[c].page = m /\ D[c].proj = p
    BY <1>b, <2>1, Begun
  <2>3. QED
    BY <1>3, <2>1, <2>2, Acquired DEF Pg
<1>4. QED
  BY <1>1, <1>2, <1>3 DEF Start, Asked, c

LEMMA Effect ==
  ASSUME NEW m \in Page, NEW P \in PageRec, NEW C, NEW G, page \in Pages, scene \in Scene,
         Consistent([page EXCEPT ![m] = P], C, G), Served(C, req, owner), P.proj \in Project,
         \A d \in Call : C[d].at = call[d].at,
         suppress \in Project \cup {NULL},
         AutoEffect(m, P, C, G)
  PROVE  /\ Consistent(page', call', guard') /\ Served(call', req', owner)
         /\ suppress' \in Project \cup {NULL}
<1>1. CASE Keep(m, P, C, G) /\ UNCHANGED suppress
  BY <1>1 DEF Keep
<1>2. CASE suppress' = NULL /\ Keep(m, [P EXCEPT !.muted = P.proj], C, G)
  <2> DEFINE Q == [P EXCEPT !.muted = P.proj]
  <2>1. /\ Q \in PageRec /\ Q.at = P.at /\ Q.sync = P.sync /\ Q.proj = P.proj
        /\ Q.unsaved = P.unsaved /\ Q.text = P.text /\ Q.abort = P.abort /\ Q.gen = P.gen
    BY DEF PageRec
  <2> HIDE DEF Q
  <2>2. P.unsaved => P.text # NULL
    BY DEF Consistent, PageInv, Pages
  <2>3. Consistent([page EXCEPT ![m] = Q], C, G)
    BY <2>1, <2>2, Changed
  <2>4. QED
    BY <1>2, <2>3 DEF Keep, Q
<1>3. CASE Start(m, P.proj, "visit", [P EXCEPT !.auto = TRUE], C, G) /\ UNCHANGED suppress
  <2> DEFINE Q == [P EXCEPT !.auto = TRUE]
  <2>1. /\ Q \in PageRec /\ Q.at = P.at /\ Q.sync = P.sync /\ Q.proj = P.proj
        /\ Q.unsaved = P.unsaved /\ Q.text = P.text /\ Q.abort = P.abort /\ Q.gen = P.gen
    BY DEF PageRec
  <2>2. Start(m, P.proj, "visit", Q, C, G)
    BY <1>3
  <2> HIDE DEF Q
  <2>3. P.unsaved => P.text # NULL
    BY DEF Consistent, PageInv, Pages
  <2>4. Consistent([page EXCEPT ![m] = Q], C, G)
    BY <2>1, <2>3, Changed
  <2>5. QED
    BY <1>3, <2>2, <2>4, Started
<1>4. QED
  BY <1>1, <1>2, <1>3 DEF AutoEffect

(* A call that is going on ends, and with it what its page shows of it.    *)
LEMMA Ends ==
  ASSUME NEW c \in Call, NEW P \in PageRec, IInv, IsLive(call, c),
         LET Q == page[call[c].page] IN
           /\ P.at = Q.at /\ P.sync = Q.sync /\ P.proj = Q.proj
           /\ P.unsaved => P.text # NULL
           /\ P.abort \in {Q.abort, NULL}
           /\ Ac /\ P.gen => Q.gen /\ P.abort = Q.abort /\ P.abort \notin {NULL, c},
         Over(c, P)
  PROVE  /\ Consistent(page', call', guard') /\ Served(call', req', owner')
         /\ UNCHANGED <<req, owner, stored, suppress, intent, back, scene>>
<1> DEFINE m == call[c].page
<1>1. /\ m \in Page /\ call[c].proj \in Project
      /\ page \in Pages /\ call \in Calls /\ guard \in Guards
  BY DEF IInv, Consistent, CallInv, IsLive
<1>2. /\ call' = [call EXCEPT ![c].at = "done", ![c].aborted = FALSE]
      /\ guard' = Releasing(guard, call[c].proj, c)
      /\ page' = [page EXCEPT ![m] = P]
      /\ UNCHANGED <<req, owner, stored, suppress, intent, back, scene>>
  BY DEF Over, server, session
<1>3. Consistent(page', call, guard)
  <2>1. Consistent([page EXCEPT ![m] = page[m]], call, guard)
    BY <1>1, Same DEF IInv
  <2>2. page[m].at = "open" \/ page[m].sync # NULL => page[m].proj \in Project
    BY <1>1 DEF IInv, Consistent, PageInv
  <2>3. QED
    BY <1>1, <1>2, <2>1, <2>2, Changed
<1>4. /\ call' \in Calls /\ call'[c].at = "done" /\ ~call'[c].aborted
      /\ call'[c].page = m /\ call'[c].proj = call[c].proj
      /\ \A d \in Call : d # c => call'[d] = call[d]
  <2> DEFINE r == [call[c] EXCEPT !.at = "done", !.aborted = FALSE]
  <2>a. call[c] \in CallRec
    BY <1>1 DEF Calls
  <2>1. /\ r \in CallRec /\ r.at = "done" /\ ~r.aborted
        /\ r.page = m /\ r.proj = call[c].proj
    BY <2>a DEF CallRec
  <2>2. call' = [call EXCEPT ![c] = r]
    BY <1>1, <1>2 DEF Calls
  <2> HIDE DEF r
  <2>3. QED
    BY <1>1, <2>1, <2>2 DEF Calls
<1>5. /\ guard' \in Guards
      /\ \A p \in Project : guard[p] # c => guard'[p] = guard[p]
  BY <1>1, <1>2 DEF Releasing, Guards
<1>6. CallInv(call') /\ GuardInv(call', guard') /\ AbortInv(page', call')
  <2>1. CallInv(call')
    BY <1>3, <1>4 DEF Consistent, CallInv
  <2>2. GuardInv(call', guard')
    <3>1. \A p \in Project : guard'[p] # NULL =>
            guard'[p] = guard[p] /\ guard[p] \in Call \ {c}
            /\ call[guard[p]].proj = p /\ IsLive(call, guard[p])
      BY <1>1, <1>2, <1>3 DEF Consistent, GuardInv, Guards, Releasing
    <3>2. QED
      BY <1>3, <1>4, <1>5, <3>1 DEF Consistent, CallInv, GuardInv, IsLive
  <2>3. AbortInv(page', call')
    BY <1>3, <1>4 DEF Consistent, AbortInv, Pages, PageRec
  <2>4. QED
    BY <2>1, <2>2, <2>3
<1>7. GenInv(page', call')
  <2> SUFFICES ASSUME NEW n \in Page, Ac, page'[n].gen
               PROVE  IF page'[n].abort = NULL
                      THEN \E d \in Call : IsLive(call', d) /\ call'[d].aborted /\ call'[d].page = n
                      ELSE IsLive(call', page'[n].abort) /\ ~call'[page'[n].abort].aborted
    BY DEF GenInv
  <2>1. page'[n].abort # c
    <3>1. CASE n = m
      BY <1>1, <1>2, <3>1 DEF Pages
    <3>2. CASE n # m
      BY <1>3, <3>2, PageAssumption DEF Consistent, AbortInv
    <3>3. QED
      BY <3>1, <3>2
  <2>2. CASE page'[n].abort = NULL
    <3>1. n # m
      BY <1>1, <1>2, <2>2 DEF Pages
    <3>2. PICK d \in Call : IsLive(call, d) /\ call[d].aborted /\ call[d].page = n
      BY <1>3, <2>2 DEF Consistent, GenInv
    <3>3. call'[d] = call[d]
      BY <1>4, <3>1, <3>2
    <3>4. QED
      BY <2>2, <3>2, <3>3 DEF IsLive
  <2>3. CASE page'[n].abort # NULL
    <3>1. page'[n].abort \in Call
      BY <1>3, <2>3 DEF Consistent, Pages, PageRec
    <3>2. QED
      BY <1>3, <1>4, <2>1, <2>3, <3>1 DEF Consistent, GenInv, IsLive
  <2>4. QED
    BY <2>2, <2>3
<1>8. Served(call', req', owner')
  <2>1. Served(call, req, owner) /\ req' = req /\ owner' = owner
    BY <1>2 DEF IInv
  <2>2. \A p \in Project : owner[p] # NULL => call'[owner[p]].proj = call[owner[p]].proj
    BY <1>4, <2>1 DEF Served
  <2>3. QED
    BY <1>4, <2>1, <2>2 DEF Served
<1>9. QED
  BY <1>2, <1>3, <1>4, <1>5, <1>6, <1>7, <1>8 DEF Consistent

-----------------------------------------------------------------------------
(* The calls.                                                              *)

(* What a step leads to; Consistent speaks of the scene, which is constant. *)
LEMMA Primed ==
  ASSUME Consistent(page', call', guard'), Served(call', req', owner'), RestOK',
         scene' = scene
  PROVE  IInv'
<1>1. Ac' = Ac
  BY DEF Ac
<1>2. Consistent(page, call, guard)'
  BY <1>1 DEF Consistent, GenInv, PageInv, CallInv, GuardInv, AbortInv, IsLive
<1>3. QED
  BY <1>2 DEF IInv, Served

LEMMA Rest ==
  ASSUME RestOK
  PROVE  /\ UNCHANGED <<stored, session, tab>> => RestOK'
         /\ UNCHANGED <<stored, session, empty>> /\ exhausted' \in BOOLEAN
               /\ reload' \in BOOLEAN => RestOK'
BY DEF RestOK, session, tab

LEMMA WaitOverStep ==
  ASSUME IInv, NEW c \in Call, WaitOver(c)
  PROVE  IInv'
<1> DEFINE m == call[c].page
<1>1. /\ call[c].at = "wait" /\ guard[call[c].proj] = NULL
      /\ Acquire(c, m, page[m], call, guard)
      /\ UNCHANGED <<owner, stored, session, tab>>
  BY DEF WaitOver
<1>2. m \in Page /\ page \in Pages
  BY <1>1 DEF IInv, Consistent, CallInv
<1>3. Consistent([page EXCEPT ![m] = page[m]], call, guard) /\ Served(call, req, owner)
  BY <1>2, Same DEF IInv
<1>4. Consistent(page', call', guard') /\ Served(call', req', owner)
  BY <1>1, <1>2, <1>3, Acquired
<1>5. RestOK' /\ owner' = owner
  BY <1>1, Rest DEF IInv
<1>6. QED
  BY <1>1, <1>4, <1>5, Primed DEF session

(* What is done to a call that keeps its page and its project.             *)
LEMMA CallChanged ==
  ASSUME IInv, NEW c \in Call, NEW r \in CallRec,
         call[c].at \in {"wait", "fetch", "stream"},
         r.page = call[c].page, r.proj = call[c].proj, r.aborted = call[c].aborted,
         <<call[c].at, r.at>> \in {<<"wait", "done">>, <<"fetch", "stream">>}
           \/ r.at = call[c].at,
         call' \in Calls, call'[c] = r, \A d \in Call : d # c => call'[d] = call[d]
  PROVE  Consistent(page, call', guard) /\ Served(call', req, owner)
<1>1. /\ call \in Calls /\ call' \in Calls /\ call'[c] = r
      /\ \A d \in Call : d # c => call'[d] = call[d]
  BY DEF IInv, Consistent
<1>2. CallInv(call') /\ GuardInv(call', guard)
  <2>1. \A p \in Project : guard[p] # NULL => guard[p] \in Call
    BY DEF IInv, Consistent, Guards
  <2>2. QED
    BY <1>1, <2>1 DEF IInv, Consistent, CallInv, GuardInv, IsLive
<1>3. AbortInv(page, call')
  BY <1>1 DEF IInv, Consistent, AbortInv, Pages, PageRec
<1>4. GenInv(page, call')
  <2> SUFFICES ASSUME NEW n \in Page, Ac, page[n].gen
               PROVE  IF page[n].abort = NULL
                      THEN \E d \in Call : IsLive(call', d) /\ call'[d].aborted /\ call'[d].page = n
                      ELSE IsLive(call', page[n].abort) /\ ~call'[page[n].abort].aborted
    BY DEF GenInv
  <2>1. \A d \in Call : IsLive(call, d) =>
          /\ IsLive(call', d) /\ call'[d].page = call[d].page
          /\ call'[d].aborted = call[d].aborted
    BY <1>1 DEF IsLive
  <2>2. page[n].abort # NULL => page[n].abort \in Call
    BY DEF IInv, Consistent, Pages, PageRec
  <2>3. CASE page[n].abort = NULL
    <3>1. PICK d \in Call : IsLive(call, d) /\ call[d].aborted /\ call[d].page = n
      BY <2>3 DEF IInv, Consistent, GenInv
    <3>2. QED
      BY <2>1, <2>3, <3>1
  <2>4. CASE page[n].abort # NULL
    <3>1. IsLive(call, page[n].abort) /\ ~call[page[n].abort].aborted
      BY <2>4 DEF IInv, Consistent, GenInv
    <3>2. QED
      BY <2>1, <2>2, <2>4, <3>1
  <2>5. QED
    BY <2>3, <2>4
<1>5. Served(call', req, owner)
  <2>1. \A p \in Project : owner[p] # NULL => owner[p] \in Call
    BY DEF IInv, Served
  <2>2. \A d \in Call : call'[d].proj = call[d].proj
    BY <1>1
  <2>3. \A d \in Call : call'[d].at \in {"new", "wait"} => call[d].at \in {"new", "wait"}
    BY <1>1 DEF IsLive
  <2>4. QED
    BY <2>1, <2>2, <2>3 DEF IInv, Served
<1>6. QED
  BY <1>1, <1>2, <1>3, <1>4, <1>5 DEF IInv, Consistent

LEMMA GiveUpStep ==
  ASSUME IInv, NEW c \in Call, GiveUp(c)
  PROVE  IInv'
<1> DEFINE r == [call[c] EXCEPT !.at = "done"]
<1>1. /\ call[c].at = "wait" /\ call' = [call EXCEPT ![c] = r]
      /\ UNCHANGED <<page, guard, req, owner, stored, session, tab>>
  BY DEF GiveUp, server
<1>2. call[c] \in CallRec
  BY DEF IInv, Consistent, Calls
<1>3. /\ r \in CallRec /\ r.at = "done" /\ r.page = call[c].page
      /\ r.proj = call[c].proj /\ r.aborted = call[c].aborted
  BY <1>2 DEF CallRec
<1> HIDE DEF r
<1>p. /\ call' \in Calls /\ call'[c] = r
      /\ \A d \in Call : d # c => call'[d] = call[d]
  BY <1>1, <1>3 DEF IInv, Consistent, Calls
<1>4. Consistent(page, call', guard) /\ Served(call', req, owner)
  BY <1>1, <1>3, <1>p, CallChanged
<1>5. RestOK'
  BY <1>1, Rest DEF IInv
<1>6. QED
  BY <1>1, <1>4, <1>5, Primed DEF session

LEMMA OpenedStep ==
  ASSUME IInv, NEW c \in Call, Opened(c)
  PROVE  IInv'
<1> DEFINE r == [call[c] EXCEPT !.at = "stream"]
<1>1. /\ call[c].at = "fetch" /\ call' = [call EXCEPT ![c] = r]
      /\ UNCHANGED <<page, guard, req, owner, stored, session, tab>>
  BY DEF Opened, server
<1>2. call[c] \in CallRec
  BY DEF IInv, Consistent, Calls
<1>3. /\ r \in CallRec /\ r.at = "stream" /\ r.page = call[c].page
      /\ r.proj = call[c].proj /\ r.aborted = call[c].aborted
  BY <1>2 DEF CallRec
<1> HIDE DEF r
<1>p. /\ call' \in Calls /\ call'[c] = r
      /\ \A d \in Call : d # c => call'[d] = call[d]
  BY <1>1, <1>3 DEF IInv, Consistent, Calls
<1>4. Consistent(page, call', guard) /\ Served(call', req, owner)
  BY <1>1, <1>3, <1>p, CallChanged DEF IsLive
<1>5. RestOK'
  BY <1>1, Rest DEF IInv
<1>6. QED
  BY <1>1, <1>4, <1>5, Primed DEF session

LEMMA DeltaStep ==
  ASSUME IInv, NEW c \in Call, Delta(c)
  PROVE  IInv'
<1> DEFINE m == call[c].page
           Q == [page[m] EXCEPT !.text = c]
<1>1. PICK got \in {"part", "all"} : call' = [call EXCEPT ![c].got = got]
  BY DEF Delta
<1> DEFINE r == [call[c] EXCEPT !.got = got]
<1>2. /\ call[c].at = "stream" /\ call' = [call EXCEPT ![c] = r]
      /\ page' = IF Ac THEN [page EXCEPT ![m].text = c] ELSE page
      /\ UNCHANGED <<guard, req, owner, stored, session, tab>>
  BY <1>1 DEF Delta, Reading, server
<1>3. call[c] \in CallRec /\ m \in Page /\ page \in Pages /\ page[m] \in PageRec
  BY <1>2 DEF IInv, Consistent, Calls, CallInv, Pages
<1>4. /\ r \in CallRec /\ r.at = call[c].at /\ r.page = call[c].page
      /\ r.proj = call[c].proj /\ r.aborted = call[c].aborted
  BY <1>3 DEF CallRec
<1> HIDE DEF r
<1>p. /\ call' \in Calls /\ call'[c] = r
      /\ \A d \in Call : d # c => call'[d] = call[d]
  BY <1>2, <1>4 DEF IInv, Consistent, Calls
<1>5. Consistent(page, call', guard) /\ Served(call', req, owner)
  BY <1>2, <1>4, <1>p, CallChanged
<1>6. Consistent(page', call', guard)
  <2>1. CASE ~Ac
    BY <1>2, <1>5, <2>1
  <2>2. CASE Ac
    <3>1. /\ Q \in PageRec /\ Q.at = page[m].at /\ Q.sync = page[m].sync
          /\ Q.proj = page[m].proj /\ Q.text # NULL /\ Q.abort = page[m].abort
          /\ Q.gen = page[m].gen
      BY <1>3, PageAssumption DEF PageRec
    <3>2. page' = [page EXCEPT ![m] = Q]
      BY <1>2, <2>2
    <3> HIDE DEF Q
    <3>3. Consistent([page EXCEPT ![m] = page[m]], call', guard)
      BY <1>3, <1>5, Same
    <3>4. Q.at = "open" \/ Q.sync # NULL => Q.proj \in Project
      BY <1>3, <3>1 DEF IInv, Consistent, PageInv
    <3>5. QED
      BY ZenonT(30), <1>3, <3>1, <3>2, <3>3, <3>4, Changed
  <2>3. QED
    BY <2>1, <2>2
<1>7. RestOK'
  BY <1>2, Rest DEF IInv
<1>8. QED
  BY <1>2, <1>5, <1>6, <1>7, Primed DEF session

(* What the ends of a call make of its page.                               *)
EndsOf(P, p) ==
  {Stopped(P), Failed(P), FailedStream(P), [Stopped(P) EXCEPT !.error = TRUE],
   [Ended(P) EXCEPT !.shown = p]}

LEMMA Endings ==
  ASSUME NEW P \in PageRec, NEW p \in Project \cup {NULL}, NEW Q \in EndsOf(P, p)
  PROVE  /\ Q \in PageRec /\ ~Q.gen
         /\ Q.at = P.at /\ Q.sync = P.sync /\ Q.proj = P.proj
         /\ Q.unsaved => P.unsaved \/ P.text # NULL
         /\ Q.text = P.text /\ Q.abort \in {P.abort, NULL}
<1> DEFINE S == Stopped(P)
           E == Ended(P)
<1>1. /\ S \in PageRec /\ ~S.gen /\ S.at = P.at /\ S.sync = P.sync /\ S.proj = P.proj
      /\ S.unsaved = P.unsaved /\ S.text = P.text /\ S.abort = P.abort
  BY DEF Stopped, PageRec
<1>2. /\ E \in PageRec /\ ~E.gen /\ E.at = P.at /\ E.sync = P.sync /\ E.proj = P.proj
      /\ E.unsaved = P.unsaved /\ E.text = P.text /\ E.abort \in {P.abort, NULL}
  <2>1. E = [Stopped(P) EXCEPT !.abort = P.abort] \/ E = [Stopped(P) EXCEPT !.abort = NULL]
    BY DEF Ended, Stopped
  <2> HIDE DEF E
  <2>2. S.abort = P.abort /\ P.abort \in Call \cup {NULL}
    BY <1>1 DEF PageRec
  <2>3. QED
    BY <1>1, <2>1, <2>2 DEF PageRec
<1>3. \/ Q = S \/ Q = [S EXCEPT !.error = TRUE]
      \/ Q = [E EXCEPT !.error = TRUE] \/ Q = [E EXCEPT !.shown = p]
      \/ P.text # NULL /\ Q = [E EXCEPT !.unsaved = TRUE]
  BY DEF EndsOf, Streamed, FailedStream, Failed
<1> HIDE DEF E, S
<1>4. CASE Q = S \/ Q = [S EXCEPT !.error = TRUE]
  BY ZenonT(30), <1>1, <1>4 DEF PageRec
<1>5. CASE Q = [E EXCEPT !.error = TRUE]
  BY <1>2, <1>5 DEF PageRec
<1>6. CASE Q = [E EXCEPT !.shown = p]
  BY <1>2, <1>6 DEF PageRec
<1>7. CASE P.text # NULL /\ Q = [E EXCEPT !.unsaved = TRUE]
  BY <1>2, <1>7 DEF PageRec
<1>8. QED
  BY <1>3, <1>4, <1>5, <1>6, <1>7

LEMMA EndStep ==
  ASSUME IInv, NEW c \in Call, IsLive(call, c), NEW P,
         P \in EndsOf(Of(c), call[c].proj),
         Over(c, P), exhausted' \in BOOLEAN, reload' \in BOOLEAN, UNCHANGED empty
  PROVE  IInv'
<1>1. /\ page[call[c].page] \in PageRec /\ call[c].proj \in Project \cup {NULL}
      /\ call[c].page \in Page
  BY DEF IInv, Consistent, CallInv, IsLive, Pages
<1> DEFINE Q == page[call[c].page]
<1>2. /\ P \in PageRec /\ ~P.gen /\ P.at = Q.at /\ P.sync = Q.sync /\ P.proj = Q.proj
      /\ P.unsaved => Q.unsaved \/ Q.text # NULL
      /\ P.text = Q.text /\ P.abort \in {Q.abort, NULL}
  BY <1>1, Endings DEF Of
<1>3. P.unsaved => P.text # NULL
  BY <1>1, <1>2 DEF IInv, Consistent, PageInv
<1>4. /\ Consistent(page', call', guard') /\ Served(call', req', owner')
      /\ UNCHANGED <<req, owner, stored, suppress, intent, back, scene>>
  BY <1>1, <1>2, <1>3, Ends
<1>5. RestOK'
  BY <1>4, Rest DEF IInv, session
<1>6. QED
  BY <1>4, <1>5, Primed

LEMMA SettlesStep ==
  ASSUME IInv, NEW c \in Call, AbortSettles(c)
  PROVE  IInv'
<1>1. Live(c) /\ call[c].aborted /\ UNCHANGED tab
  BY DEF AbortSettles
<1>2. IsLive(call, c) /\ UNCHANGED <<exhausted, empty, reload>>
  BY <1>1 DEF Live, IsLive, tab
<1>3. exhausted' \in BOOLEAN /\ reload' \in BOOLEAN
  BY <1>2 DEF IInv, RestOK
<1>4. CASE Over(c, [Stopped(Of(c)) EXCEPT !.error = TRUE])
  BY <1>2, <1>3, <1>4, EndStep DEF EndsOf
<1>5. CASE Of(c).abort # NULL /\ Over(c, Of(c))
  <2> DEFINE Q == page[call[c].page]
  <2>1. call[c].page \in Page /\ Q \in PageRec
    BY <1>2 DEF IInv, Consistent, CallInv, IsLive, Pages
  <2>2. Q.unsaved => Q.text # NULL
    BY <2>1 DEF IInv, Consistent, PageInv
  <2>3. Ac /\ Q.gen => Q.abort \notin {NULL, c}
    BY <1>1, <1>5, <2>1 DEF IInv, Consistent, GenInv, Of
  <2>4. Over(c, Q)
    BY <1>5 DEF Of
  <2>5. /\ Consistent(page', call', guard') /\ Served(call', req', owner')
        /\ UNCHANGED <<req, owner, stored, suppress, intent, back, scene>>
    BY <1>2, <2>1, <2>2, <2>3, <2>4, Ends
  <2>6. RestOK'
    BY <1>1, <2>5, Rest DEF IInv, session
  <2>7. QED
    BY <2>5, <2>6, Primed
<1>6. QED
  BY <1>4, <1>5 DEF AbortSettles

LEMMA EndSteps ==
  ASSUME IInv, NEW c \in Call,
         Refused(c) \/ Conflict(c) \/ Thrown(c) \/ Done(c) \/ ErrorEvent(c) \/ Closed(c)
  PROVE  IInv'
<1>1. exhausted \in BOOLEAN /\ reload \in BOOLEAN
  BY DEF IInv, RestOK
<1>2. IsLive(call, c)
  BY DEF Refused, Conflict, Thrown, Done, ErrorEvent, Closed, Reading, Live, IsLive
<1>3. CASE Refused(c)
  <2>1. Over(c, Stopped(Of(c))) /\ exhausted' \in BOOLEAN /\ UNCHANGED <<empty, reload>>
    BY <1>1, <1>3 DEF Refused
  <2>2. QED
    BY <1>1, <1>2, <2>1, EndStep DEF EndsOf
<1>4. CASE Conflict(c)
  <2>1. \/ Over(c, [Stopped(Of(c)) EXCEPT !.error = TRUE])
        \/ Over(c, Stopped(Of(c)))
    BY <1>4 DEF Conflict
  <2>2. UNCHANGED <<exhausted, empty, reload>>
    BY <1>4 DEF Conflict, tab
  <2>3. QED
    BY <1>1, <1>2, <2>1, <2>2, EndStep DEF EndsOf
<1>5. CASE Thrown(c)
  <2>1. Over(c, Failed(Of(c))) /\ UNCHANGED <<exhausted, empty, reload>>
    BY <1>5 DEF Thrown, tab
  <2>2. QED
    BY <1>1, <1>2, <2>1, EndStep DEF EndsOf
<1>6. CASE Done(c)
  <2>1. /\ Over(c, [Ended(Of(c)) EXCEPT !.shown = call[c].proj])
        /\ reload' \in BOOLEAN /\ UNCHANGED <<exhausted, empty>>
    BY <1>1, <1>6 DEF Done
  <2>2. QED
    BY <1>1, <1>2, <2>1, EndStep DEF EndsOf
<1>7. CASE ErrorEvent(c) \/ Closed(c)
  <2>1. Over(c, FailedStream(Of(c))) /\ UNCHANGED <<exhausted, empty, reload>>
    BY <1>7 DEF ErrorEvent, Closed, tab
  <2>2. QED
    BY <1>1, <1>2, <2>1, EndStep DEF EndsOf
<1>8. QED
  BY <1>3, <1>4, <1>5, <1>6, <1>7

LEMMA ServerSteps ==
  ASSUME IInv, NEW c \in Call, ServerStep(c)
  PROVE  IInv'
<1> DEFINE p == call[c].proj
<1>1. /\ UNCHANGED <<page, call, guard, suppress, intent, back, scene, exhausted, empty, reload>>
      /\ req[c] \in {"sent", "working", "written"}
  BY DEF ServerStep, Refuse, Claim, Write, Fail, Finish, Browser, session, tab
<1>2. p \in Project /\ call[c].at \notin {"new", "wait"}
  BY <1>1 DEF IInv, Served
<1>3. PICK r : /\ req' = [req EXCEPT ![c] = r]
               /\ r \in {"credit", "plan", "refused", "conflict", "working", "written", "cut",
                         "lost", "unpaid", "done"}
               /\ \/ r \in {"credit", "plan", "refused", "conflict"} /\ owner' = owner
                     /\ req[c] = "sent" /\ stored' = stored
                  \/ r = "working" /\ owner' = [owner EXCEPT ![p] = c] /\ req[c] = "sent"
                     /\ stored' = stored
                  \/ r = "written" /\ owner' = owner /\ stored' = stored
                  \/ /\ r \in {"cut", "lost", "unpaid", "done"}
                     /\ owner' = [owner EXCEPT ![p] = NULL]
                     /\ stored' \in {stored, [stored EXCEPT ![p] = "whole"]}
                     /\ req[c] \in {"working", "written"}
  <2>1. CASE Refuse(c)
    BY <2>1 DEF Refuse, Answer
  <2>2. CASE Claim(c)
    BY <2>2 DEF Claim, Answer
  <2>3. CASE Write(c)
    BY <2>3 DEF Write, Answer
  <2>4. CASE Fail(c)
    BY <2>4 DEF Fail, Answer, Unclaim, Store
  <2>5. CASE Finish(c)
    BY <2>5 DEF Finish, Answer, Unclaim, Store
  <2>6. QED
    BY <2>1, <2>2, <2>3, <2>4, <2>5 DEF ServerStep
<1>4. Served(call, req', owner')
  <2>1. /\ req' \in Answers /\ req'[c] = r
        /\ \A d \in Call : d # c => req'[d] = req[d]
    BY <1>3 DEF IInv, Served, Answers
  <2>2. /\ owner' \in [Project -> Call \cup {NULL}]
        /\ \A q \in Project : q # p => owner'[q] = owner[q]
        /\ owner'[p] \in {owner[p], c, NULL}
        /\ owner'[p] = c => owner[p] = c \/ r = "working"
    BY <1>2, <1>3, PageAssumption DEF IInv, Served
  <2>3. ASSUME NEW q \in Project, owner'[q] # NULL
        PROVE  call[owner'[q]].proj = q /\ req'[owner'[q]] \in {"working", "written"}
    <3>1. CASE owner'[q] = c
      <4>1. call[c].proj = q
        BY <2>2, <2>3, <3>1 DEF IInv, Served
      <4>2. owner[q] = c => req[c] \in {"working", "written"}
        BY <2>3, <3>1 DEF IInv, Served
      <4>3. r \in {"working", "written"}
        BY <1>2, <1>3, <2>2, <2>3, <3>1, <4>1, <4>2, PageAssumption DEF IInv, Served
      <4>4. QED
        BY <2>1, <3>1, <4>1, <4>3
    <3>2. CASE owner'[q] # c
      <4>1. owner'[q] = owner[q]
        BY <2>2, <2>3, <3>2
      <4>2. owner[q] \in Call
        BY <2>3, <4>1 DEF IInv, Served
      <4>3. QED
        BY <2>1, <2>3, <3>2, <4>1, <4>2 DEF IInv, Served
    <3>3. QED
      BY <3>1, <3>2
  <2>4. QED
    BY <1>2, <1>3, <2>1, <2>2, <2>3 DEF IInv, Served
<1>5. stored' \in [Project -> {"none", "cut", "foreign", "whole"}]
  BY <1>2, <1>3 DEF IInv, RestOK
<1>6. RestOK'
  BY <1>1, <1>5 DEF IInv, RestOK
<1>7. QED
  BY <1>1, <1>4, <1>6, Primed DEF IInv

-----------------------------------------------------------------------------
(* The pages.                                                              *)

(* A step that changes one page in what the invariant does not speak of.   *)
LEMMA PageChanged ==
  ASSUME IInv, NEW m \in Page, NEW Q \in PageRec,
         Q.at = "open" \/ Q.sync # NULL => Q.proj \in Project,
         Q.unsaved => Q.text # NULL,
         Q.abort \in {page[m].abort, NULL},
         Ac /\ Q.gen => page[m].gen /\ Q.abort = page[m].abort
  PROVE  /\ page \in Pages /\ Consistent([page EXCEPT ![m] = Q], call, guard)
         /\ Served(call, req, owner)
<1>1. page \in Pages /\ Consistent([page EXCEPT ![m] = page[m]], call, guard)
  BY Same DEF IInv, Consistent
<1>2. QED
  BY <1>1, Changed DEF IInv

(* What is known of a page.                                                *)
LEMMA PageKnown ==
  ASSUME IInv, NEW m \in Page
  PROVE  /\ page \in Pages /\ page[m] \in PageRec
         /\ page[m].at = "open" \/ page[m].sync # NULL => page[m].proj \in Project
         /\ page[m].unsaved => page[m].text # NULL
BY DEF IInv, Consistent, PageInv, Pages

LEMMA MountedOK ==
  ASSUME IInv, NEW p \in Project, NEW loaded \in BOOLEAN
  PROVE  LET P == Mounted(p, loaded) IN
         /\ P \in PageRec /\ P.proj = p /\ P.abort = NULL /\ ~P.unsaved /\ ~(Ac /\ P.gen)
<1> DEFINE P == Mounted(p, loaded)
<1>1. PICK shown \in {p, NULL}, gen \in BOOLEAN, sync \in {p, NULL} :
        /\ P = [Blank EXCEPT !.at = "open", !.proj = p, !.loaded = loaded,
                             !.shown = shown, !.gen = gen, !.sync = sync]
        /\ Ac => ~gen
  BY DEF Mounted, Ac
<1> HIDE DEF P
<1>2. P \in PageRec /\ P.proj = p /\ P.abort = NULL /\ ~P.unsaved /\ ~(Ac /\ P.gen)
  BY <1>1 DEF Blank, PageRec
<1>3. QED
  BY <1>2 DEF P

LEMMA Data ==
  ASSUME IInv, NEW p \in Project, NEW loaded \in LoaderData(p)
  PROVE  /\ loaded \in BOOLEAN
         /\ Cached(p, loaded) => empty' \subseteq Project /\ reload' \in BOOLEAN
<1>1. HasDoc(p) \in BOOLEAN
  BY DEF HasDoc
<1>2. loaded \in BOOLEAN
  BY <1>1 DEF LoaderData
<1>3. ASSUME Cached(p, loaded) PROVE empty' \subseteq Project /\ reload' \in BOOLEAN
  <2>1. empty \subseteq Project
    BY DEF IInv, RestOK
  <2>2. QED
    BY <1>3, <2>1 DEF Cached
<1>4. QED
  BY <1>2, <1>3

LEMMA MountStep ==
  ASSUME IInv, NEW m \in Page, NEW p \in Project, Mount(m, p)
  PROVE  IInv'
<1>1. PICK loaded \in LoaderData(p) :
        AutoEffect(m, Mounted(p, loaded), call, guard) /\ Cached(p, loaded)
  BY DEF Mount
<1>2. loaded \in BOOLEAN /\ empty' \subseteq Project /\ reload' \in BOOLEAN
  BY <1>1, Data
<1>3. UNCHANGED <<owner, stored, intent, back, exhausted, scene>>
  BY DEF Mount
<1> DEFINE P == Mounted(p, loaded)
<1>4. P \in PageRec /\ P.proj = p /\ P.abort = NULL /\ ~P.unsaved /\ ~(Ac /\ P.gen)
  BY <1>2, MountedOK
<1> HIDE DEF P
<1>5. /\ page \in Pages /\ Consistent([page EXCEPT ![m] = P], call, guard)
      /\ Served(call, req, owner)
  BY <1>4, PageChanged
<1>6. /\ scene \in Scene /\ suppress \in Project \cup {NULL}
      /\ AutoEffect(m, P, call, guard)
  BY <1>1 DEF IInv, RestOK, P
<1>7. /\ Consistent(page', call', guard') /\ Served(call', req', owner)
      /\ suppress' \in Project \cup {NULL}
  BY <1>4, <1>5, <1>6, Effect
<1>8. RestOK'
  BY <1>2, <1>3, <1>7 DEF IInv, RestOK
<1>9. QED
  BY <1>3, <1>7, <1>8, Primed

LEMMA UnmountStep ==
  ASSUME IInv, NEW m \in Page, Unmount(m)
  PROVE  IInv'
<1> DEFINE Q == [page[m] EXCEPT !.at = "gone", !.loaded = FALSE, !.shown = NULL,
                                !.gen = FALSE, !.seen = FALSE, !.error = FALSE,
                                !.unsaved = FALSE]
<1>1. /\ page' = [page EXCEPT ![m] = Q] /\ back' = NULL /\ reload' = FALSE
      /\ UNCHANGED <<call, guard, req, owner, stored, suppress, intent, exhausted, empty, scene>>
  BY DEF Unmount, server
<1>2. /\ Q \in PageRec /\ Q.at = "gone" /\ Q.sync = page[m].sync
      /\ Q.proj = page[m].proj /\ ~Q.unsaved /\ ~Q.gen /\ Q.abort = page[m].abort
  BY ZenonT(30), PageKnown DEF PageRec
<1> HIDE DEF Q
<1>3. Consistent(page', call, guard) /\ Served(call, req, owner)
  BY <1>1, <1>2, PageKnown, PageChanged
<1>4. RestOK'
  BY <1>1 DEF IInv, RestOK
<1>5. QED
  BY <1>1, <1>3, <1>4, Primed

LEMMA UnloadStep ==
  ASSUME IInv, Unload, UNCHANGED scene,
         {suppress', intent', back'} \subseteq Project \cup {NULL}
  PROVE  IInv'
<1>1. /\ page' = [m \in Page |-> IF page[m].at = "new" THEN Blank
                                 ELSE [Blank EXCEPT !.at = "gone"]]
      /\ call' = [c \in Call |-> IF call[c].at = "new" THEN NoCall
                                 ELSE [NoCall EXCEPT !.at = "done", !.proj = call[c].proj]]
      /\ guard' = [p \in Project |-> NULL]
      /\ exhausted' = FALSE /\ empty' = {} /\ reload' = FALSE
      /\ UNCHANGED <<req, owner, stored>>
  BY DEF Unload, server
<1>2. ASSUME NEW m \in Page
      PROVE  /\ page'[m] \in PageRec /\ page'[m].at # "open" /\ page'[m].sync = NULL
             /\ ~page'[m].unsaved /\ ~page'[m].gen /\ page'[m].abort = NULL
  BY <1>1 DEF Blank, PageRec
<1>3. ASSUME NEW c \in Call
      PROVE  /\ call'[c] \in CallRec /\ call'[c].page = NULL /\ ~call'[c].aborted
             /\ call'[c].at = IF call[c].at = "new" THEN "new" ELSE "done"
             /\ call[c].at # "new" => call'[c].proj = call[c].proj
  <2>1. call[c].proj \in Project \cup {NULL}
    BY DEF IInv, Consistent, Calls, CallRec
  <2>2. QED
    BY <1>1, <2>1 DEF NoCall, CallRec
<1>4. page' \in Pages /\ call' \in Calls /\ guard' \in Guards
  BY <1>1, <1>2, <1>3 DEF Pages, Calls, Guards
<1>5. Consistent(page', call', guard')
  <2>1. GuardInv(call', guard')
    <3>1. \A p \in Project : guard'[p] = NULL
      BY <1>1
    <3>2. \A c \in Call : ~IsLive(call', c)
      BY <1>3 DEF IsLive
    <3>3. QED
      BY <3>1, <3>2 DEF GuardInv
  <2>2. QED
    BY <1>2, <1>3, <1>4, <2>1 DEF Consistent, PageInv, CallInv, AbortInv, GenInv, IsLive
<1>6. Served(call', req', owner')
  <2>1. \A c \in Call : req[c] # "none" => call[c].at # "new"
    BY DEF IInv, Served
  <2>2. \A p \in Project : owner[p] # NULL => owner[p] \in Call /\ req[owner[p]] # "none"
    BY DEF IInv, Served
  <2>3. \A c \in Call : call'[c].at \in {"new", "wait"} => req[c] = "none"
    BY <1>3 DEF IInv, Served
  <2>4. \A c \in Call : req[c] # "none" => call'[c].proj \in Project
    BY <1>3, <2>1 DEF IInv, Served
  <2>5. \A p \in Project : owner[p] # NULL =>
           call'[owner[p]].proj = p /\ req[owner[p]] \in {"working", "written"}
    BY <1>3, <2>1, <2>2 DEF IInv, Served
  <2>6. QED
    BY <1>1, <2>3, <2>4, <2>5 DEF IInv, Served
<1>7. RestOK'
  BY <1>1 DEF IInv, RestOK
<1>8. QED
  BY <1>5, <1>6, <1>7, Primed

LEMMA LoadedStep ==
  ASSUME IInv, NEW m \in Page, Loaded(m)
  PROVE  IInv'
<1>1. page[m].at = "open" /\ page[m] \in PageRec /\ page \in Pages /\ page[m].proj \in Project
  BY PageKnown DEF Loaded, Open
<1>2. PICK shown \in Project \cup {NULL} :
        page' = [page EXCEPT ![m].loaded = HasDoc(page[m].proj), ![m].shown = shown]
  <2>1. page[m].shown \in Project \cup {NULL}
    BY <1>1 DEF PageRec
  <2>2. \E shown \in {page[m].proj, page[m].shown} :
          page' = [page EXCEPT ![m].loaded = HasDoc(page[m].proj), ![m].shown = shown]
    BY <1>1 DEF Loaded, Pages
  <2>3. QED
    BY <1>1, <2>1, <2>2
<1> DEFINE Q == [page[m] EXCEPT !.loaded = HasDoc(page[m].proj), !.shown = shown]
<1>3. page' = [page EXCEPT ![m] = Q]
  BY <1>1, <1>2 DEF Pages
<1>4. /\ Q \in PageRec /\ Q.at = page[m].at /\ Q.sync = page[m].sync /\ Q.gen = page[m].gen
      /\ Q.unsaved = page[m].unsaved /\ Q.text = page[m].text
      /\ Q.proj = page[m].proj /\ Q.abort = page[m].abort
  <2>1. HasDoc(page[m].proj) \in BOOLEAN
    BY DEF HasDoc
  <2>2. QED
    BY <1>1, <2>1 DEF PageRec
<1> HIDE DEF Q
<1>5. Consistent(page', call, guard) /\ Served(call, req, owner)
  BY <1>3, <1>4, PageKnown, PageChanged
<1>6. UNCHANGED <<call, guard, req, owner, scene>> /\ RestOK'
  BY <1>1 DEF Loaded, server, session, IInv, RestOK
<1>7. QED
  BY <1>5, <1>6, Primed

LEMMA RenderStep ==
  ASSUME IInv, NEW m \in Page, Render(m)
  PROVE  IInv'
<1> DEFINE Q == [page[m] EXCEPT !.seen = page[m].gen]
<1>1. /\ page[m].at = "open" /\ AutoEffect(m, Q, call, guard)
      /\ UNCHANGED <<owner, stored, intent, back, exhausted, empty, reload, scene>>
  BY DEF Render, Open, tab
<1>2. /\ Q \in PageRec /\ Q.at = page[m].at /\ Q.sync = page[m].sync /\ Q.gen = page[m].gen
      /\ Q.unsaved = page[m].unsaved /\ Q.text = page[m].text
      /\ Q.proj = page[m].proj /\ Q.abort = page[m].abort
  BY PageKnown DEF PageRec
<1> HIDE DEF Q
<1>3. /\ page \in Pages /\ Consistent([page EXCEPT ![m] = Q], call, guard)
      /\ Served(call, req, owner) /\ Q.proj \in Project
  BY <1>1, <1>2, PageKnown, PageChanged
<1>4. scene \in Scene /\ suppress \in Project \cup {NULL}
  BY DEF IInv, RestOK
<1>5. /\ Consistent(page', call', guard') /\ Served(call', req', owner)
      /\ suppress' \in Project \cup {NULL}
  BY <1>1, <1>2, <1>3, <1>4, Effect
<1>6. RestOK'
  BY <1>1, <1>5 DEF IInv, RestOK
<1>7. QED
  BY <1>1, <1>5, <1>6, Primed

(* A page that is given another project gives its controller up and aborts *)
(* its call; nobody but this call loses a guard.                           *)
LEMMA Left ==
  ASSUME IInv, NEW m \in Page, NEW Q \in PageRec, NEW G \in Guards,
         Q.proj \in Project, Q.abort = NULL, Q.unsaved => Q.text # NULL,
         Ac /\ Q.gen => page[m].gen,
         \A p \in Project : guard[p] # page[m].abort \/ page[m].abort = NULL => G[p] = guard[p],
         \A p \in Project : G[p] \in {guard[p], NULL}
  PROVE  LET C == Aborting(call, page[m].abort) IN
         /\ Consistent([page EXCEPT ![m] = Q], C, G)
         /\ Served(C, req, owner)
<1> DEFINE a == page[m].abort
           C == Aborting(call, a)
           Qg == [page EXCEPT ![m] = Q]
<1>1. /\ page \in Pages /\ call \in Calls /\ guard \in Guards /\ a \in Call \cup {NULL}
      /\ a # NULL => call[a].page = m
  BY PageKnown DEF IInv, Consistent, AbortInv, PageRec
<1>2. /\ Qg \in Pages /\ Qg[m] = Q /\ \A n \in Page : n # m => Qg[n] = page[n]
  BY <1>1 DEF Pages
<1>3. /\ C \in Calls
      /\ \A d \in Call :
           /\ C[d].at = call[d].at /\ C[d].page = call[d].page /\ C[d].proj = call[d].proj
           /\ d # a \/ ~IsLive(call, d) => C[d] = call[d]
           /\ d = a /\ IsLive(call, d) => C[d].aborted
  BY <1>1, Aborted
<1> HIDE DEF a, C, Qg
<1>4. PageInv(Qg)
  BY <1>2 DEF IInv, Consistent, PageInv
<1>5. CallInv(C)
  BY <1>3 DEF IInv, Consistent, CallInv, IsLive
<1>6. GuardInv(C, G)
  <2>1. ASSUME NEW d \in Call, IsLive(C, d), ~C[d].aborted
        PROVE  G[C[d].proj] = d
    <3>1. IsLive(call, d) /\ d # a /\ C[d] = call[d]
      BY <1>3, <2>1 DEF IsLive
    <3>2. guard[call[d].proj] = d /\ call[d].proj \in Project
      BY <2>1, <3>1 DEF IInv, Consistent, GuardInv, CallInv, IsLive
    <3>3. QED
      BY <3>1, <3>2 DEF a
  <2>2. ASSUME NEW p \in Project, G[p] # NULL
        PROVE  IsLive(C, G[p]) /\ C[G[p]].proj = p
    <3>1. G[p] = guard[p] /\ G[p] \in Call
      BY <1>1, <2>2 DEF Guards
    <3>2. IsLive(call, G[p]) /\ call[G[p]].proj = p
      BY <2>2, <3>1 DEF IInv, Consistent, GuardInv
    <3>3. QED
      BY <1>3, <3>1, <3>2 DEF IsLive
  <2>3. QED
    BY <2>1, <2>2 DEF GuardInv
<1>7. AbortInv(Qg, C)
  BY <1>1, <1>2, <1>3 DEF IInv, Consistent, AbortInv, Pages, PageRec
<1>8. GenInv(Qg, C)
  <2> SUFFICES ASSUME NEW n \in Page, Ac, Qg[n].gen
               PROVE  IF Qg[n].abort = NULL
                      THEN \E d \in Call : IsLive(C, d) /\ C[d].aborted /\ C[d].page = n
                      ELSE IsLive(C, Qg[n].abort) /\ ~C[Qg[n].abort].aborted
    BY DEF GenInv
  <2>1. page[n].gen
    BY <1>2
  <2>2. CASE page[n].abort = NULL
    <3>1. PICK d \in Call : IsLive(call, d) /\ call[d].aborted /\ call[d].page = n
      BY <2>1, <2>2 DEF IInv, Consistent, GenInv
    <3>2. IsLive(C, d) /\ C[d].aborted /\ C[d].page = n
      BY <1>3, <3>1 DEF IsLive
    <3>3. Qg[n].abort = NULL
      BY <1>2, <2>2
    <3>4. QED
      BY <3>2, <3>3
  <2>3. CASE n = m /\ page[n].abort # NULL
    <3>1. IsLive(call, a) /\ a \in Call
      BY <1>1, <2>1, <2>3 DEF IInv, Consistent, GenInv, a
    <3>2. IsLive(C, a) /\ C[a].aborted /\ C[a].page = m
      BY <1>1, <1>3, <2>3, <3>1 DEF IsLive, a
    <3>3. QED
      BY <1>2, <2>3, <3>1, <3>2
  <2>4. CASE n # m /\ page[n].abort # NULL
    <3> DEFINE b == page[n].abort
    <3>1. b \in Call /\ call[b].page = n /\ IsLive(call, b) /\ ~call[b].aborted
      BY <1>1, <2>1, <2>4 DEF IInv, Consistent, GenInv, AbortInv, Pages, PageRec
    <3>2. b # a
      BY <1>1, <2>4, <3>1, PageAssumption
    <3>3. IsLive(C, b) /\ ~C[b].aborted /\ Qg[n].abort = b
      BY <1>2, <1>3, <2>4, <3>1, <3>2 DEF IsLive
    <3>4. QED
      BY <2>4, <3>3
  <2>5. QED
    BY <2>2, <2>3, <2>4
<1>9. Served(C, req, owner)
  <2>1. \A p \in Project : owner[p] # NULL => owner[p] \in Call
    BY DEF IInv, Served
  <2>2. QED
    BY <1>3, <2>1 DEF IInv, Served
<1>10. QED
  BY <1>2, <1>3, <1>4, <1>5, <1>6, <1>7, <1>8, <1>9 DEF Consistent, C, Qg, a

LEMMA SwitchTaskStep ==
  ASSUME IInv, ~Ac, NEW m \in Page, NEW q \in Project, NEW loaded \in BOOLEAN,
         SwitchTask(m, q, loaded)
  PROVE  /\ Consistent(page', call', guard') /\ Served(call', req', owner)
         /\ suppress' \in Project \cup {NULL}
<1> DEFINE Q == [page[m] EXCEPT !.proj = q, !.loaded = loaded, !.abort = NULL,
                                !.busy = FALSE, !.auto = FALSE, !.muted = NULL]
           C == Aborting(call, page[m].abort)
           G == IF page[m].abort = NULL THEN guard
                ELSE Releasing(guard, page[m].proj, page[m].abort)
<1>1. AutoEffect(m, Q, C, G)
  BY DEF SwitchTask
<1>2. Q \in PageRec /\ Q.proj = q /\ Q.abort = NULL /\ Q.unsaved = page[m].unsaved
      /\ Q.text = page[m].text
  BY ZenonT(30), PageKnown DEF PageRec
<1>3. /\ G \in Guards
      /\ \A p \in Project : guard[p] # page[m].abort \/ page[m].abort = NULL => G[p] = guard[p]
      /\ \A p \in Project : G[p] \in {guard[p], NULL}
  BY DEF IInv, Consistent, Guards, Releasing
<1>4. /\ page \in Pages /\ call \in Calls /\ page[m].abort \in Call \cup {NULL}
      /\ Q.unsaved => Q.text # NULL
  BY <1>2, PageKnown DEF IInv, Consistent, PageRec
<1>5. \A d \in Call : C[d].at = call[d].at
  BY <1>4, Aborted
<1> HIDE DEF Q, C, G
<1>6. Consistent([page EXCEPT ![m] = Q], C, G) /\ Served(C, req, owner)
  BY <1>2, <1>3, <1>4, Left DEF C
<1>7. scene \in Scene /\ suppress \in Project \cup {NULL}
  BY DEF IInv, RestOK
<1>8. QED
  BY <1>1, <1>2, <1>4, <1>5, <1>6, <1>7, Effect

LEMMA ClearedOK ==
  ASSUME NEW P \in PageRec, NEW q \in Project, NEW loaded \in BOOLEAN
  PROVE  LET Q == Cleared([P EXCEPT !.proj = q, !.loaded = loaded]) IN
         /\ Q \in PageRec /\ Q.proj = q /\ Q.abort = NULL /\ ~Q.unsaved /\ Q.gen = P.gen
         /\ Q.at = P.at /\ Q.sync = P.sync
BY ZenonT(30) DEF Cleared, PageRec

(* The criteria page starts a call and aborts it at once.                  *)
Dropped(P, Q) ==
  /\ Q \in PageRec /\ Q.proj = P.proj /\ Q.at = P.at /\ Q.sync = P.sync
  /\ Q.unsaved = P.unsaved /\ Q.text = P.text /\ Q.abort = NULL

SentAborted(C, D, c, m, q) ==
  /\ D \in Calls /\ \A d \in Call : d # c => D[d] = C[d]
  /\ D[c].at = "fetch" /\ D[c].aborted /\ D[c].page = m /\ D[c].proj = q

LEMMA BegunAborted ==
  ASSUME NEW C, NEW G, NEW m \in Page, NEW q \in Project, NEW c \in Call,
         NEW P, NEW Q, NEW D, NEW H,
         page \in Pages, Consistent([page EXCEPT ![m] = P], C, G), Served(C, req, owner),
         C[c].at = "new", G[q] = NULL, Dropped(P, Q), SentAborted(C, D, c, m, q),
         H \in Guards, H[q] \in {c, NULL}, \A p \in Project : p # q => H[p] = G[p],
         req' \in Answers, \A d \in Call : d # c => req'[d] = req[d]
  PROVE  Consistent([page EXCEPT ![m] = Q], D, H) /\ Served(D, req', owner)
<1>a. /\ Q \in PageRec /\ Q.proj = P.proj /\ Q.at = P.at /\ Q.sync = P.sync
      /\ Q.unsaved = P.unsaved /\ Q.text = P.text /\ Q.abort = NULL
      /\ D \in Calls /\ \A d \in Call : d # c => D[d] = C[d]
      /\ D[c].at = "fetch" /\ D[c].aborted /\ D[c].page = m /\ D[c].proj = q
  BY DEF Dropped, SentAborted
<1> DEFINE Pp == [page EXCEPT ![m] = P]
           Qg == [page EXCEPT ![m] = Q]
<1>1. /\ Qg \in Pages /\ Qg[m] = Q /\ Pp[m] = P /\ \A n \in Page : n # m => Qg[n] = Pp[n]
  BY <1>a DEF Pages
<1>2. Consistent(Pp, C, G)
  OBVIOUS
<1> HIDE DEF Pp, Qg
<1>3. PageInv(Qg)
  BY <1>a, <1>1, <1>2 DEF Consistent, PageInv
<1>4. CallInv(D)
  BY <1>a, <1>2 DEF Consistent, CallInv
<1>5. GuardInv(D, H)
  <2>1. ASSUME NEW d \in Call, IsLive(D, d), ~D[d].aborted
        PROVE  H[D[d].proj] = d
    <3>1. d # c /\ IsLive(C, d) /\ ~C[d].aborted /\ D[d] = C[d]
      BY <1>a, <2>1 DEF IsLive
    <3>2. G[C[d].proj] = d /\ C[d].proj \in Project
      BY <1>2, <3>1 DEF Consistent, GuardInv, CallInv, IsLive
    <3>3. C[d].proj # q
      BY <3>2, PageAssumption
    <3>4. QED
      BY <3>1, <3>2, <3>3
  <2>2. ASSUME NEW p \in Project, H[p] # NULL
        PROVE  IsLive(D, H[p]) /\ D[H[p]].proj = p
    <3>1. CASE p = q
      BY <1>a, <2>2, <3>1 DEF IsLive
    <3>2. CASE p # q
      <4>1. H[p] = G[p] /\ H[p] \in Call
        BY <2>2, <3>2 DEF Guards
      <4>2. IsLive(C, H[p]) /\ C[H[p]].proj = p
        BY <1>2, <2>2, <4>1 DEF Consistent, GuardInv
      <4>3. H[p] # c
        BY <4>2 DEF IsLive
      <4>4. QED
        BY <1>a, <4>1, <4>2, <4>3 DEF IsLive
    <3>3. QED
      BY <3>1, <3>2
  <2>3. QED
    BY <2>1, <2>2 DEF GuardInv
<1>6. \A n \in Page : Qg[n].abort # NULL =>
         Qg[n].abort \in Call /\ Qg[n].abort # c /\ n # m /\ C[Qg[n].abort].page = n
  <2> SUFFICES ASSUME NEW n \in Page, Qg[n].abort # NULL
               PROVE  Qg[n].abort \in Call /\ Qg[n].abort # c /\ n # m /\ C[Qg[n].abort].page = n
    OBVIOUS
  <2>1. n # m /\ Qg[n] = Pp[n]
    BY <1>a, <1>1
  <2>2. Pp[n].abort \in Call /\ C[Pp[n].abort].page = n
    BY <1>2, <2>1 DEF Consistent, AbortInv, Pages, PageRec
  <2>3. C[c].page = NULL
    BY <1>2 DEF Consistent, CallInv
  <2>4. QED
    BY <2>1, <2>2, <2>3, PageAssumption
<1>7. AbortInv(Qg, D)
  BY <1>a, <1>6 DEF AbortInv
<1>8. GenInv(Qg, D)
  <2> SUFFICES ASSUME NEW n \in Page, Ac, Qg[n].gen
               PROVE  IF Qg[n].abort = NULL
                      THEN \E d \in Call : IsLive(D, d) /\ D[d].aborted /\ D[d].page = n
                      ELSE IsLive(D, Qg[n].abort) /\ ~D[Qg[n].abort].aborted
    BY DEF GenInv
  <2>1. CASE n = m
    <3>1. IsLive(D, c) /\ D[c].aborted /\ D[c].page = n
      BY <1>a, <2>1 DEF IsLive
    <3>2. QED
      BY <1>a, <1>1, <2>1, <3>1
  <2>2. CASE n # m /\ Qg[n].abort = NULL
    <3>1. PICK d \in Call : IsLive(C, d) /\ C[d].aborted /\ C[d].page = n
      BY <1>1, <1>2, <2>2 DEF Consistent, GenInv
    <3>2. d # c
      BY <3>1 DEF IsLive
    <3>3. IsLive(D, d) /\ D[d].aborted /\ D[d].page = n
      BY <1>a, <3>1, <3>2 DEF IsLive
    <3>4. QED
      BY <2>2, <3>3
  <2>3. CASE n # m /\ Qg[n].abort # NULL
    <3>1. IsLive(C, Qg[n].abort) /\ ~C[Qg[n].abort].aborted
      BY <1>1, <1>2, <2>3 DEF Consistent, GenInv
    <3>2. QED
      BY <1>a, <1>6, <2>3, <3>1 DEF IsLive
  <2>4. QED
    BY <2>1, <2>2, <2>3
<1>9. Served(D, req', owner)
  <2>1. req[c] = "none" /\ \A p \in Project : owner[p] # NULL => owner[p] \in Call /\ owner[p] # c
    BY DEF Served
  <2>2. \A p \in Project : owner[p] # NULL => D[owner[p]] = C[owner[p]] /\ req'[owner[p]] = req[owner[p]]
    BY <1>a, <2>1
  <2>3. QED
    BY <1>a, <2>1, <2>2 DEF Served
<1>10. QED
  BY <1>a, <1>1, <1>3, <1>4, <1>5, <1>7, <1>8, <1>9 DEF Consistent, Qg

LEMMA SwitchAcStep ==
  ASSUME IInv, NEW m \in Page, NEW q \in Project, NEW loaded \in BOOLEAN,
         SwitchAc(m, q, loaded)
  PROVE  /\ Consistent(page', call', guard') /\ Served(call', req', owner)
         /\ suppress' \in Project \cup {NULL}
<1> DEFINE P == Cleared([page[m] EXCEPT !.proj = q, !.loaded = loaded])
           C == Aborting(call, page[m].abort)
           c == NewCall
           r(at) == [NoCall EXCEPT !.at = at, !.page = m, !.proj = q, !.by = "visit",
                                   !.aborted = (at = "fetch")]
<1>1. /\ P \in PageRec /\ P.proj = q /\ P.abort = NULL /\ ~P.unsaved /\ P.gen = page[m].gen
      /\ P.at = page[m].at /\ P.sync = page[m].sync
  BY PageKnown, ClearedOK
<1>2. /\ page \in Pages /\ call \in Calls /\ guard \in Guards /\ req \in Answers
      /\ page[m].abort \in Call \cup {NULL} /\ scene \in Scene
      /\ suppress \in Project \cup {NULL}
  BY PageKnown DEF IInv, Consistent, Served, RestOK, PageRec
<1>3. C \in Calls /\ \A d \in Call : C[d].at = call[d].at
  BY <1>2, Aborted
<1>4. \/ Keep(m, P, C, guard) /\ UNCHANGED suppress
      \/ Keep(m, [P EXCEPT !.muted = q], C, guard) /\ suppress' = NULL
      \/ HasCall /\ Keep(m, P, [C EXCEPT ![c] = r("wait")], guard) /\ UNCHANGED suppress
      \/ /\ HasCall /\ guard[q] = NULL
         /\ page' = [page EXCEPT ![m] = [P EXCEPT !.gen = TRUE]]
         /\ call' = [C EXCEPT ![c] = r("fetch")]
         /\ guard' = [guard EXCEPT ![q] = c]
         /\ req' \in {req, [req EXCEPT ![c] = "sent"]}
         /\ UNCHANGED suppress
  BY DEF SwitchAc
<1> HIDE DEF P
<1>5. Consistent([page EXCEPT ![m] = P], C, guard) /\ Served(C, req, owner)
  BY <1>1, <1>2, Left
<1> HIDE DEF C, c
<1>6. CASE Keep(m, P, C, guard) /\ UNCHANGED suppress
  BY <1>2, <1>5, <1>6 DEF Keep
<1>7. CASE Keep(m, [P EXCEPT !.muted = q], C, guard) /\ suppress' = NULL
  <2> DEFINE Q == [P EXCEPT !.muted = q]
  <2>1. /\ Q \in PageRec /\ Q.at = P.at /\ Q.sync = P.sync /\ Q.proj = P.proj
        /\ ~Q.unsaved /\ Q.abort = P.abort /\ Q.gen = P.gen
    BY <1>1 DEF PageRec
  <2> HIDE DEF Q
  <2>2. Consistent([page EXCEPT ![m] = Q], C, guard)
    BY <1>1, <1>2, <1>5, <2>1, Changed
  <2>3. QED
    BY <1>5, <1>7, <2>2 DEF Keep, Q
<1>8. CASE HasCall /\ Keep(m, P, [C EXCEPT ![c] = r("wait")], guard) /\ UNCHANGED suppress
  <2>1. c \in Call /\ C[c].at = "new"
    BY <1>2, <1>3, <1>8, New DEF c
  <2>2. [C EXCEPT ![c] = r("wait")] = Asked(C, c, m, q, "visit")
    <3>1. r("wait") = [NoCall EXCEPT !.at = "wait", !.page = m, !.proj = q, !.by = "visit"]
      <4>1. ("wait" = "fetch") = FALSE
        OBVIOUS
      <4>2. r("wait") = [NoCall EXCEPT !.at = "wait", !.page = m, !.proj = q, !.by = "visit",
                                       !.aborted = FALSE]
        BY <4>1
      <4> DEFINE X == [NoCall EXCEPT !.at = "wait", !.page = m, !.proj = q, !.by = "visit"]
      <4>3. X \in CallRec /\ X.aborted = FALSE /\ r("wait") = [X EXCEPT !.aborted = FALSE]
        BY <4>2 DEF NoCall, CallRec
      <4> HIDE DEF X, r
      <4>4. r("wait") = X
        BY <4>3 DEF CallRec
      <4>5. QED
        BY <4>4 DEF X
    <3> HIDE DEF r
    <3>2. QED
      BY <3>1 DEF Asked
  <2> DEFINE Pg == [page EXCEPT ![m] = P]
             D == Asked(C, c, m, q, "visit")
  <2>3. Keep(m, P, D, guard)
    BY <1>8, <2>2
  <2>4. Consistent(Pg, C, guard)
    BY <1>5
  <2> HIDE DEF Pg, D
  <2>5. Consistent(Pg, D, guard) /\ Served(D, req, owner)
    BY <1>5, <2>1, <2>4, Begun DEF D
  <2>6. QED
    BY <1>2, <1>8, <2>3, <2>5 DEF Keep, Pg
<1>9. CASE /\ HasCall /\ guard[q] = NULL
           /\ page' = [page EXCEPT ![m] = [P EXCEPT !.gen = TRUE]]
           /\ call' = [C EXCEPT ![c] = r("fetch")]
           /\ guard' = [guard EXCEPT ![q] = c]
           /\ req' \in {req, [req EXCEPT ![c] = "sent"]}
           /\ UNCHANGED suppress
  <2> DEFINE Q == [P EXCEPT !.gen = TRUE]
             R == r("fetch")
  <2>1. c \in Call /\ C[c].at = "new"
    BY <1>2, <1>3, <1>9, New DEF c
  <2>2. R \in CallRec /\ R.at = "fetch" /\ R.aborted /\ R.page = m /\ R.proj = q
    BY DEF NoCall, CallRec
  <2>3. /\ Q \in PageRec /\ Q.at = P.at /\ Q.sync = P.sync /\ Q.proj = P.proj
        /\ Q.unsaved = P.unsaved /\ Q.text = P.text /\ Q.abort = NULL
    BY <1>1 DEF PageRec
  <2>4. page' = [page EXCEPT ![m] = Q] /\ call' = [C EXCEPT ![c] = R]
    BY <1>9
  <2> HIDE DEF Q, R, r
  <2>5. call' \in Calls /\ call'[c] = R /\ \A d \in Call : d # c => call'[d] = C[d]
    BY <1>3, <2>1, <2>2, <2>4 DEF Calls
  <2>6. /\ guard' \in Guards /\ guard'[q] \in {c, NULL}
        /\ \A p \in Project : p # q => guard'[p] = guard[p]
    BY <1>2, <1>9, <2>1 DEF Guards
  <2>7. req' \in Answers /\ \A d \in Call : d # c => req'[d] = req[d]
    BY <1>2, <1>9, <2>1 DEF Answers
  <2>8. Dropped(P, Q) /\ SentAborted(C, call', c, m, q) /\ guard[q] = NULL
    BY <1>9, <2>2, <2>3, <2>5 DEF Dropped, SentAborted
  <2>9. Consistent([page EXCEPT ![m] = Q], call', guard') /\ Served(call', req', owner)
    BY <1>2, <1>5, <2>1, <2>6, <2>7, <2>8, BegunAborted
  <2>10. QED
    BY <1>2, <1>9, <2>4, <2>9
<1>10. QED
  BY <1>4, <1>6, <1>7, <1>8, <1>9

LEMMA SwitchStep ==
  ASSUME IInv, NEW m \in Page, NEW q \in Project, Switch(m, q)
  PROVE  IInv'
<1>1. PICK loaded \in LoaderData(q) :
        /\ IF Ac THEN SwitchAc(m, q, loaded) ELSE SwitchTask(m, q, loaded)
        /\ Cached(q, loaded)
  BY DEF Switch
<1>2. loaded \in BOOLEAN /\ empty' \subseteq Project /\ reload' \in BOOLEAN
  BY <1>1, Data
<1>3. back' = NULL /\ UNCHANGED <<owner, stored, intent, exhausted, scene>>
  BY DEF Switch
<1>4. /\ Consistent(page', call', guard') /\ Served(call', req', owner)
      /\ suppress' \in Project \cup {NULL}
  BY <1>1, <1>2, SwitchAcStep, SwitchTaskStep
<1>5. RestOK'
  BY <1>2, <1>3, <1>4 DEF IInv, RestOK
<1>6. QED
  BY <1>3, <1>4, <1>5, Primed

LEMMA ClickStep ==
  ASSUME IInv, NEW m \in Page, Click(m)
  PROVE  IInv'
<1>1. /\ page[m].at = "open" /\ Start(m, page[m].proj, "click", page[m], call, guard)
      /\ UNCHANGED <<owner, stored, session, tab>>
  BY DEF Click, Open
<1>2. /\ page \in Pages /\ scene \in Scene /\ page[m].proj \in Project
      /\ Consistent([page EXCEPT ![m] = page[m]], call, guard) /\ Served(call, req, owner)
  BY <1>1, PageKnown, Same DEF IInv, RestOK
<1>3. Consistent(page', call', guard') /\ Served(call', req', owner)
  BY <1>1, <1>2, Started
<1>4. RestOK'
  BY <1>1, Rest DEF IInv
<1>5. QED
  BY <1>1, <1>3, <1>4, Primed DEF session

LEMMA SaveTextStep ==
  ASSUME IInv, NEW m \in Page, SaveText(m)
  PROVE  IInv'
<1> DEFINE Q == [page[m] EXCEPT !.save = <<page[m].proj, page[m].text>>]
<1>1. /\ page[m].at = "open" /\ page[m].unsaved /\ page' = [page EXCEPT ![m] = Q]
      /\ UNCHANGED <<call, guard, req, owner, stored, session, tab>>
  BY PageKnown DEF SaveText, CanSave, Open, server, Pages
<1>2. page[m].proj \in Project /\ page[m].text \in Call /\ page[m] \in PageRec
  BY <1>1, PageKnown DEF PageRec
<1>3. /\ Q \in PageRec /\ Q.at = page[m].at /\ Q.sync = page[m].sync /\ Q.gen = page[m].gen
      /\ Q.unsaved = page[m].unsaved /\ Q.text = page[m].text
      /\ Q.proj = page[m].proj /\ Q.abort = page[m].abort
  BY <1>2 DEF PageRec
<1> HIDE DEF Q
<1>4. Consistent(page', call, guard) /\ Served(call, req, owner)
  BY <1>1, <1>3, PageKnown, PageChanged
<1>5. RestOK'
  BY <1>1, Rest DEF IInv
<1>6. QED
  BY <1>1, <1>4, <1>5, Primed DEF session

LEMMA TextSavedStep ==
  ASSUME IInv, NEW m \in Page, TextSaved(m)
  PROVE  IInv'
<1> DEFINE P == page[m]
           Q1 == [P EXCEPT !.save = NULL, !.unsaved = FALSE, !.error = FALSE]
           Q2 == [P EXCEPT !.save = NULL]
<1>1. PICK kind \in {"foreign", "whole", "cut"} :
        /\ P.save # NULL
        /\ stored' \in {stored, [stored EXCEPT ![P.save[1]] = kind]}
        /\ page' = [page EXCEPT ![m] = Q1] \/ page' = [page EXCEPT ![m] = Q2]
        /\ reload' \in BOOLEAN
        /\ UNCHANGED <<call, guard, req, owner, session, exhausted, empty>>
  BY DEF TextSaved, IInv, RestOK
<1>2. P \in PageRec /\ P.save[1] \in Project
  BY <1>1, PageKnown DEF PageRec
<1>3. ASSUME NEW Q \in {Q1, Q2}
      PROVE  /\ Q \in PageRec /\ Q.at = P.at /\ Q.sync = P.sync /\ Q.gen = P.gen
             /\ Q.unsaved => P.unsaved
             /\ Q.text = P.text /\ Q.proj = P.proj /\ Q.abort = P.abort
  BY <1>2 DEF PageRec
<1>4. PICK Q \in {Q1, Q2} : page' = [page EXCEPT ![m] = Q]
  BY <1>1
<1> HIDE DEF Q1, Q2
<1>5. Consistent(page', call, guard) /\ Served(call, req, owner)
  BY <1>3, <1>4, PageKnown, PageChanged
<1>6. stored' \in [Project -> {"none", "cut", "foreign", "whole"}]
  BY <1>1, <1>2 DEF IInv, RestOK
<1>7. RestOK'
  BY <1>1, <1>6 DEF IInv, RestOK, session
<1>8. QED
  BY <1>1, <1>5, <1>7, Primed DEF session

LEMMA SyncSteps ==
  ASSUME IInv, NEW m \in Page, SyncSucceeded(m) \/ SyncFailed(m)
  PROVE  IInv'
<1> DEFINE P == page[m]
           Q == [P EXCEPT !.sync = NULL]
           R == [Q EXCEPT !.auto = TRUE]
<1>1. P.sync \in Project /\ P \in PageRec /\ P.proj \in Project
  BY PageKnown DEF SyncSucceeded, SyncFailed, PageRec
<1>2. /\ Q \in PageRec /\ Q.at = P.at /\ Q.sync = NULL /\ Q.gen = P.gen
      /\ Q.unsaved = P.unsaved /\ Q.text = P.text /\ Q.proj = P.proj /\ Q.abort = P.abort
  BY <1>1 DEF PageRec
<1>3. /\ R \in PageRec /\ R.at = P.at /\ R.sync = NULL /\ R.gen = P.gen
      /\ R.unsaved = P.unsaved /\ R.text = P.text /\ R.proj = P.proj /\ R.abort = P.abort
  BY <1>1 DEF PageRec
<1>4. CASE SyncFailed(m)
  <2>1. /\ page' = [page EXCEPT ![m] = Q]
        /\ UNCHANGED <<call, guard, req, owner, stored, session, tab>>
    BY <1>4, PageKnown DEF SyncFailed, server, Pages
  <2> HIDE DEF Q
  <2>2. Consistent(page', call, guard) /\ Served(call, req, owner)
    BY <1>1, <1>2, <2>1, PageKnown, PageChanged
  <2>3. RestOK'
    BY <2>1, Rest DEF IInv
  <2>4. QED
    BY <2>1, <2>2, <2>3, Primed DEF session
<1>5. CASE SyncSucceeded(m)
  <2>1. /\ \/ Keep(m, Q, call, guard)
           \/ \E p \in {P.sync, P.proj} : Start(m, p, "resume", R, call, guard)
        /\ intent' = NULL /\ back' = NULL
        /\ UNCHANGED <<owner, stored, suppress, tab, scene>>
    BY <1>5 DEF SyncSucceeded
  <2> HIDE DEF Q, R
  <2>2. /\ page \in Pages /\ scene \in Scene
        /\ Consistent([page EXCEPT ![m] = Q], call, guard) /\ Served(call, req, owner)
    BY <1>1, <1>2, PageKnown, PageChanged DEF IInv, RestOK
  <2>3. Consistent([page EXCEPT ![m] = R], call, guard)
    BY <1>1, <1>3, PageKnown, PageChanged
  <2>4. Consistent(page', call', guard') /\ Served(call', req', owner)
    <3>1. CASE Keep(m, Q, call, guard)
      BY <2>2, <3>1 DEF Keep
    <3>2. CASE \E p \in {P.sync, P.proj} : Start(m, p, "resume", R, call, guard)
      BY <1>1, <2>2, <2>3, <3>2, Started
    <3>3. QED
      BY <2>1, <3>1, <3>2
  <2>5. RestOK'
    BY <2>1 DEF IInv, RestOK, tab
  <2>6. QED
    BY <2>1, <2>4, <2>5, Primed
<1>6. QED
  BY <1>4, <1>5

LEMMA OtherSteps ==
  ASSUME IInv,
         \/ \E p \in Project : ClickHistory(p)
         \/ \E m \in Page : CloseDialogue(m) \/ Pay(m) \/ Reload(m)
  PROVE  IInv'
<1>1. CASE \E p \in Project : ClickHistory(p)
  <2>1. UNCHANGED <<page, call, guard, req, owner, scene>> /\ RestOK'
    BY <1>1 DEF ClickHistory, server, IInv, RestOK
  <2>2. QED
    BY <2>1, Primed DEF IInv
<1>2. ASSUME NEW m \in Page, CloseDialogue(m) PROVE IInv'
  <2>1. UNCHANGED <<page, call, guard, req, owner, scene>> /\ RestOK'
    BY <1>2 DEF CloseDialogue, server, session, IInv, RestOK
  <2>2. QED
    BY <2>1, Primed DEF IInv
<1>3. ASSUME NEW m \in Page, Reload(m) PROVE IInv'
  <2>1. Unload /\ UNCHANGED scene /\ {suppress', intent', back'} \subseteq Project \cup {NULL}
    BY <1>3 DEF Reload, session, IInv, RestOK
  <2>2. QED
    BY <2>1, UnloadStep
<1>4. ASSUME NEW m \in Page, Pay(m) PROVE IInv'
  <2>1. page[m].proj \in Project
    BY <1>4, PageKnown DEF Pay, Open
  <2>2. CASE UNCHANGED <<page, call, guard, server, suppress, back, tab>>
    <3>1. UNCHANGED <<page, call, guard, req, owner, scene>> /\ RestOK'
      BY <1>4, <2>1, <2>2 DEF Pay, server, tab, IInv, RestOK
    <3>2. QED
      BY <3>1, Primed DEF IInv
  <2>3. CASE Unload /\ back' \in {NULL, page[m].proj} /\ UNCHANGED suppress
    <3>1. UNCHANGED scene /\ {suppress', intent', back'} \subseteq Project \cup {NULL}
      BY <1>4, <2>1, <2>3 DEF Pay, IInv, RestOK
    <3>2. QED
      BY <2>3, <3>1, UnloadStep
  <2>4. QED
    BY <1>4, <2>2, <2>3 DEF Pay
<1>5. QED
  BY <1>1, <1>2, <1>3, <1>4

-----------------------------------------------------------------------------
LEMMA InitInv == Init => IInv
<1> SUFFICES ASSUME Init PROVE IInv
  OBVIOUS
<1>1. \A m \in Page : page[m] = Blank
  BY DEF Init
<1>2. \A c \in Call : call[c] = NoCall
  BY DEF Init
<1>3. Blank \in PageRec /\ NoCall \in CallRec
  BY DEF Blank, NoCall, PageRec, CallRec
<1>4. page \in Pages /\ call \in Calls /\ guard \in Guards
  BY <1>3 DEF Init, Pages, Calls, Guards
<1>5. Consistent(page, call, guard)
  <2>1. \A p \in Project : guard[p] = NULL
    BY DEF Init
  <2>2. QED
    BY <1>1, <1>2, <1>4, <2>1
       DEF Consistent, PageInv, CallInv, GuardInv, AbortInv, GenInv, IsLive, Blank, NoCall
<1>6. Served(call, req, owner)
  BY DEF Init, Served, Answers
<1>7. RestOK
  BY DEF Init, RestOK
<1>8. QED
  BY <1>5, <1>6, <1>7 DEF IInv

LEMMA StepInv == IInv /\ [Next]_vars => IInv'
<1> SUFFICES ASSUME IInv, [Next]_vars PROVE IInv'
  OBVIOUS
<1>1. CASE UNCHANGED vars
  <2>1. UNCHANGED <<page, call, guard, req, owner, scene>> /\ RestOK'
    BY <1>1 DEF vars, server, session, tab, IInv, RestOK
  <2>2. QED
    BY <2>1, Primed DEF IInv
<1>2. ASSUME NEW c \in Call, AbortSettles(c) PROVE IInv'
  BY <1>2, SettlesStep
<1>3. ASSUME NEW c \in Call, ServerStep(c) PROVE IInv'
  BY <1>3, ServerSteps
<1>4. ASSUME NEW c \in Call, ClientStep(c) PROVE IInv'
  <2>1. CASE WaitOver(c) \/ GiveUp(c) \/ Opened(c) \/ Delta(c)
    BY <2>1, WaitOverStep, GiveUpStep, OpenedStep, DeltaStep
  <2>2. CASE \/ Refused(c) \/ Conflict(c) \/ Thrown(c)
             \/ Done(c) \/ ErrorEvent(c) \/ Closed(c)
    BY <2>2, EndSteps
  <2>3. QED
    BY <1>4, <2>1, <2>2 DEF ClientStep
<1>5. ASSUME NEW m \in Page, Render(m) PROVE IInv'
  BY <1>5, RenderStep
<1>6. ASSUME NEW m \in Page, PageStep(m) PROVE IInv'
  <2>1. CASE Unmount(m) \/ Loaded(m) \/ Click(m) \/ SaveText(m) \/ TextSaved(m)
    BY <2>1, UnmountStep, LoadedStep, ClickStep, SaveTextStep, TextSavedStep
  <2>2. CASE Reload(m) \/ CloseDialogue(m) \/ Pay(m)
    BY <2>2, OtherSteps
  <2>3. CASE SyncSucceeded(m) \/ SyncFailed(m)
    BY <2>3, SyncSteps
  <2>4. CASE \E p \in Project : Mount(m, p) \/ Switch(m, p)
    BY <2>4, MountStep, SwitchStep
  <2>5. QED
    BY <1>6, <2>1, <2>2, <2>3, <2>4 DEF PageStep
<1>7. ASSUME NEW p \in Project, ClickHistory(p) PROVE IInv'
  BY <1>7, OtherSteps
<1>8. QED
  BY <1>1, <1>2, <1>3, <1>4, <1>5, <1>6, <1>7 DEF Next

(* The state of the pages, the calls and the server is of its type, and a  *)
(* claim is that of a call the server works on.                            *)
THEOREM PageTypeTheorem == Spec => []TypeOK
<1>1. Spec => []IInv
  BY InitInv, StepInv, PTL DEF Spec
<1>2. QED
  BY <1>1, InvImplies, PTL

(* Of the calls of one project that have not been aborted at most one is   *)
(* going on, for any number of pages, calls and projects.                  *)
THEOREM OneStreamTheorem == Spec => []OneStream
<1>1. Spec => []IInv
  BY InitInv, StepInv, PTL DEF Spec
<1>2. QED
  BY <1>1, InvImplies, PTL

(* A guard that is held has a call to give it back, so that no project is  *)
(* shut out by a generation that is over.                                  *)
THEOREM GuardTheorem == Spec => []GuardHasCall
<1>1. Spec => []IInv
  BY InitInv, StepInv, PTL DEF Spec
<1>2. QED
  BY <1>1, InvImplies, PTL

(* A criteria page that is open has a document, a button or a call to wait *)
(* for: its indicator is never left on without a call that will end it.    *)
THEOREM DeadEndTheorem == Spec => []NeverDeadEnd
<1>1. Spec => []IInv
  BY InitInv, StepInv, PTL DEF Spec
<1>2. QED
  BY <1>1, InvImplies, PTL

=============================================================================
