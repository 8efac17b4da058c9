------------------------- MODULE CreditServiceProofs -------------------------
(***************************************************************************)
(* Theorems about CreditService, for every set of accounts, every finite   *)
(* set of operations, every quote and every number of reconcilers.         *)
(*                                                                         *)
(* The argument.  TypeOK is inductive.  On top of it HoldIsMaximum is      *)
(* inductive, and with it each of LedgerExplains, ReservedIsHeld and       *)
(* UsedIsCharged; the last two count units of credit (CreditService!Units) *)
(* and rest on UnitsUpdate, which says how the count follows one           *)
(* operation.  NoOverdraft is inductive by itself, HoldsCanReturn follows  *)
(* from ReservedIsHeld, and the refinement of CreditWallet needs           *)
(* HoldIsMaximum: a refund gives back the charge and nothing besides.      *)
(***************************************************************************)
EXTENDS CreditService, FiniteSetTheorems, TLAPS

LEMMA InitType == Init => TypeOK
<1> SUFFICES ASSUME Init PROVE TypeOK
  OBVIOUS
<1> USE CreditAssumption DEF Init
<1>1. wallet \in [Accounts -> [credits : Nat, used : Int, reserved : Nat]]
  OBVIOUS
<1>2. op \in [Ops -> [state : States, reserved : Nat, charge : Nat,
                      expiresAt : Nat \cup {NULL}]]
  BY DEF NoRow, States
<1>3. ledger \in [Ops -> [EntryTypes -> Int]]
  OBVIOUS
<1>4. sweep \in [Sweepers -> [todo : SUBSET Ops, doomed : SUBSET Ops]]
  BY DEF Idle
<1>5. now \in 0 .. MaxTime
  OBVIOUS
<1>7. periodEnd \in [Accounts -> Nat \cup {NULL}]
  OBVIOUS
<1>6. QED
  BY <1>1, <1>2, <1>3, <1>4, <1>5, <1>7 DEF TypeOK

LEMMA TypeStep == TypeOK /\ [CreditNext]_creditVars => TypeOK'
<1> SUFFICES ASSUME TypeOK, [CreditNext]_creditVars PROVE TypeOK'
  OBVIOUS
<1>1. ASSUME NEW o \in Ops, NEW e \in Expiries, Reserve(o, e) PROVE TypeOK'
  <2>1. Owner[o] \in Accounts /\ MaxCharge[o] \in Nat
    BY CreditAssumption
  <2>2. wallet' \in [Accounts -> [credits : Nat, used : Int, reserved : Nat]]
    <3>1. wallet[Owner[o]].reserved + MaxCharge[o] \in Nat
      BY <2>1 DEF TypeOK
    <3>2. QED
      BY <1>1, <2>1, <3>1 DEF TypeOK, Reserve
  <2>3. op' \in [Ops -> [state : States, reserved : Nat, charge : Nat,
                         expiresAt : Nat \cup {NULL}]]
    BY <1>1, <2>1, CreditAssumption DEF TypeOK, Reserve, States, Active
  <2>4. ledger' \in [Ops -> [EntryTypes -> Int]]
    BY <1>1, <2>1 DEF TypeOK, Reserve, EntryTypes
  <2>5. QED
    BY <1>1, <2>2, <2>3, <2>4 DEF TypeOK, Reserve
<1>2. ASSUME NEW o \in Ops, MarkRunning(o) PROVE TypeOK'
  <2>1. op' \in [Ops -> [state : States, reserved : Nat, charge : Nat,
                         expiresAt : Nat \cup {NULL}]]
    BY <1>2 DEF TypeOK, MarkRunning, States, Active
  <2>2. QED
    BY <1>2, <2>1 DEF TypeOK, MarkRunning
<1>3. ASSUME NEW o \in Ops, NEW c \in 0 .. MaxCharge[o], Settle(o, c) PROVE TypeOK'
  <2>1. Owner[o] \in Accounts /\ MaxCharge[o] \in Nat
    BY CreditAssumption
  <2>2. wallet' \in [Accounts -> [credits : Nat, used : Int, reserved : Nat]]
    BY SMTT(30), <1>3, <2>1 DEF TypeOK, Settle, CanSettle, CanUnreserve
  <2>3. c \in Nat /\ op[o].reserved - c \in Int /\ op[o].reserved \in Nat
    BY <2>1 DEF TypeOK
  <2>4. op' \in [Ops -> [state : States, reserved : Nat, charge : Nat,
                         expiresAt : Nat \cup {NULL}]]
    <3>1. [op[o] EXCEPT !.state = "settled", !.reserved = 0, !.charge = c]
            \in [state : States, reserved : Nat, charge : Nat,
                 expiresAt : Nat \cup {NULL}]
      BY <2>3 DEF TypeOK, States
    <3>2. QED
      BY <1>3, <3>1 DEF TypeOK, Settle
  <2>5. ledger' \in [Ops -> [EntryTypes -> Int]]
    <3>1. ledger[o] \in [EntryTypes -> Int]
      BY DEF TypeOK
    <3>2. [ledger[o] EXCEPT !["release"] = @ + (op[o].reserved - c),
                            !["debit"] = @ - c] \in [EntryTypes -> Int]
      BY <2>3, <3>1 DEF EntryTypes
    <3>3. QED
      BY <1>3, <3>2 DEF TypeOK, Settle
  <2>6. QED
    BY <1>3, <2>2, <2>4, <2>5 DEF TypeOK, Settle
<1>4. ASSUME NEW o \in Ops, NEW entry \in EntryTypes,
              NEW state \in {"released", "quarantined"},
              CanUnreserve(o), Returned(o, state, entry)
       PROVE  /\ wallet' \in [Accounts -> [credits : Nat, used : Int, reserved : Nat]]
              /\ op' \in [Ops -> [state : States, reserved : Nat, charge : Nat,
                                   expiresAt : Nat \cup {NULL}]]
              /\ ledger' \in [Ops -> [EntryTypes -> Int]]
  <2>1. /\ Owner[o] \in Accounts
        /\ op[o].reserved \in Nat
        /\ wallet[Owner[o]].reserved - op[o].reserved \in Nat
    BY <1>4, CreditAssumption DEF TypeOK, CanUnreserve
  <2>2. wallet' \in [Accounts -> [credits : Nat, used : Int, reserved : Nat]]
    BY <1>4, <2>1 DEF TypeOK, Returned
  <2>3. op' \in [Ops -> [state : States, reserved : Nat, charge : Nat,
                         expiresAt : Nat \cup {NULL}]]
    <3>1. [op[o] EXCEPT !.state = state, !.reserved = 0]
            \in [state : States, reserved : Nat, charge : Nat,
                 expiresAt : Nat \cup {NULL}]
      BY DEF TypeOK, States
    <3>2. QED
      BY <1>4, <3>1 DEF TypeOK, Returned
  <2>4. ledger' \in [Ops -> [EntryTypes -> Int]]
    <3>1. ledger[o] \in [EntryTypes -> Int]
      BY DEF TypeOK
    <3>2. [ledger[o] EXCEPT ![entry] = @ + op[o].reserved] \in [EntryTypes -> Int]
      BY <2>1, <3>1
    <3>3. QED
      BY <1>4, <3>2 DEF TypeOK, Returned
  <2>5. QED
    BY <2>2, <2>3, <2>4
<1>5. "release" \in EntryTypes /\ "correction" \in EntryTypes
  BY DEF EntryTypes
<1>6. ASSUME NEW o \in Ops, Release(o) PROVE TypeOK'
  BY <1>6, <1>4, <1>5 DEF TypeOK, Release, CanRelease
<1>7. ASSUME NEW o \in Ops, Quarantine(o) PROVE TypeOK'
  BY <1>7, <1>4, <1>5 DEF TypeOK, Quarantine, CanQuarantine
<1>8. ASSUME NEW o \in Ops, Refund(o) PROVE TypeOK'
  <2>1. Owner[o] \in Accounts /\ MaxCharge[o] \in Nat
    BY CreditAssumption
  <2>2. wallet' \in [Accounts -> [credits : Nat, used : Int, reserved : Nat]]
    BY SMTT(30), <1>8, <2>1 DEF TypeOK, Refund
  <2>3. op' \in [Ops -> [state : States, reserved : Nat, charge : Nat,
                         expiresAt : Nat \cup {NULL}]]
    BY <1>8, <2>1 DEF TypeOK, Refund, States, Active
  <2>4. ledger' \in [Ops -> [EntryTypes -> Int]]
    BY <1>8, <2>1 DEF TypeOK, Refund, EntryTypes
  <2>5. QED
    BY <1>8, <2>2, <2>3, <2>4 DEF TypeOK, Refund
<1>9. ASSUME NEW s \in Sweepers, NEW a \in Accounts, SweepClaim(s, a) PROVE TypeOK'
  <2>1. op' \in [Ops -> [state : States, reserved : Nat, charge : Nat,
                         expiresAt : Nat \cup {NULL}]]
    BY SMTT(30), <1>9 DEF TypeOK, SweepClaim, Expired, States, Active
  <2>2. sweep' \in [Sweepers -> [todo : SUBSET Ops, doomed : SUBSET Ops]]
    BY <1>9 DEF TypeOK, SweepClaim, Expired
  <2>3. QED
    BY <1>9, <2>1, <2>2 DEF TypeOK, SweepClaim
<1>10. ASSUME NEW s \in Sweepers, NEW o \in Ops, SweepRelease(s, o) PROVE TypeOK'
  <2>1. CanRelease(o) /\ Returned(o, "released", "release")
    BY <1>10 DEF SweepRelease
  <2>2. sweep' \in [Sweepers -> [todo : SUBSET Ops, doomed : SUBSET Ops]]
    BY <1>10 DEF TypeOK, SweepRelease
  <2>3. QED
    BY <1>10, <1>4, <1>5, <2>1, <2>2 DEF TypeOK, SweepRelease, CanRelease
<1>11. ASSUME NEW s \in Sweepers, NEW o \in Ops, SweepReleaseFails(s, o) PROVE TypeOK'
  <2> DEFINE left == [sweep[s] EXCEPT !.todo = @ \ {o}]
  <2>1. sweep[s] \in [todo : SUBSET Ops, doomed : SUBSET Ops]
    BY DEF TypeOK
  <2>2. /\ left \in [todo : SUBSET Ops, doomed : SUBSET Ops]
        /\ [left EXCEPT !.doomed = {o}] \in [todo : SUBSET Ops, doomed : SUBSET Ops]
    BY <2>1
  <2>3. \/ sweep' = [sweep EXCEPT ![s] = left]
        \/ sweep' = [sweep EXCEPT ![s] = [left EXCEPT !.doomed = {o}]]
    BY <1>11 DEF TypeOK, SweepReleaseFails
  <2> HIDE DEF left
  <2>4. sweep' \in [Sweepers -> [todo : SUBSET Ops, doomed : SUBSET Ops]]
    BY <2>2, <2>3 DEF TypeOK
  <2>5. QED
    BY <1>11, <2>4 DEF TypeOK, SweepReleaseFails
<1>12. ASSUME NEW s \in Sweepers, NEW o \in Ops, SweepQuarantine(s, o) PROVE TypeOK'
  <2>1. CanQuarantine(o) /\ Returned(o, "quarantined", "correction")
    BY <1>12 DEF SweepQuarantine
  <2>2. sweep' \in [Sweepers -> [todo : SUBSET Ops, doomed : SUBSET Ops]]
    BY <1>12 DEF TypeOK, SweepQuarantine
  <2>3. QED
    BY <1>12, <1>4, <1>5, <2>1, <2>2 DEF TypeOK, SweepQuarantine, CanQuarantine
<1>13. ASSUME NEW s \in Sweepers, NEW o \in Ops, SweepThrows(s, o) PROVE TypeOK'
  <2>1. sweep' \in [Sweepers -> [todo : SUBSET Ops, doomed : SUBSET Ops]]
    BY <1>13 DEF TypeOK, SweepThrows, Idle
  <2>2. QED
    BY <1>13, <2>1 DEF TypeOK, SweepThrows
<1>14. ASSUME NEW s \in Sweepers, SweepCrash(s) PROVE TypeOK'
  <2>1. sweep' \in [Sweepers -> [todo : SUBSET Ops, doomed : SUBSET Ops]]
    BY <1>14 DEF TypeOK, SweepCrash, Idle
  <2>2. QED
    BY <1>14, <2>1 DEF TypeOK, SweepCrash
<1>15. CASE Tick
  BY <1>15, CreditAssumption DEF Tick, TypeOK
<1>16. CASE UNCHANGED creditVars
  BY <1>16 DEF creditVars, TypeOK
<1>17. QED
  BY <1>1, <1>2, <1>3, <1>6, <1>7, <1>8, <1>9, <1>10, <1>11, <1>12, <1>13,
     <1>14, <1>15, <1>16
     DEF CreditNext, OpNext, SweepNext, SweepTryRelease, SweepTryQuarantine

(* Every value the service writes has its column's type (the transactions  *)
(* that take from credits_reserved test its CHECK constraint first).       *)
THEOREM TypeCorrect == Spec => []TypeOK
BY InitType, TypeStep, PTL DEF Spec

-----------------------------------------------------------------------------
(* Counting units.                                                         *)

(* The units of one operation: as many as its amount.                      *)
LEMMA ColumnSize ==
  ASSUME NEW o, NEW n \in Nat
  PROVE  IsFiniteSet({o} \X (1 .. n)) /\ Cardinality({o} \X (1 .. n)) = n
<1>1. IsFiniteSet(1 .. n) /\ Cardinality(1 .. n) = n
  BY FS_Interval
<1>2. IsFiniteSet({o}) /\ Cardinality({o}) = 1
  BY FS_Singleton
<1>3. Cardinality({o} \X (1 .. n)) = 1 * n
  BY <1>1, <1>2, FS_Product
<1>4. IsFiniteSet({o} \X (1 .. n))
  BY <1>1, <1>2, FS_Product
<1>5. QED
  BY <1>3, <1>4

(* Finitely many operations have finitely many units.                      *)
LEMMA UnitsFinite ==
  ASSUME NEW amount \in [Ops -> Nat], NEW S \in SUBSET Ops
  PROVE  IsFiniteSet(UNION {{o} \X (1 .. amount[o]) : o \in S})
<1> DEFINE Columns == {{o} \X (1 .. amount[o]) : o \in S}
           f == [o \in S |-> {o} \X (1 .. amount[o])]
<1>1. IsFiniteSet(S)
  BY CreditAssumption, FS_Subset
<1>2. f \in Surjection(S, Columns)
  BY DEF Surjection
<1>3. IsFiniteSet(Columns)
  BY <1>1, <1>2, FS_Surjection
<1>4. \A c \in Columns : IsFiniteSet(c)
  BY ZenonT(30), ColumnSize
<1>5. QED
  BY <1>3, <1>4, FS_UNION

(* Changing the amount of one operation changes the sum of its owner by    *)
(* the difference and no other sum; and the sum is at least each amount.   *)
LEMMA UnitsUpdate ==
  ASSUME NEW amount \in [Ops -> Nat], NEW next \in [Ops -> Nat],
         NEW o \in Ops, \A p \in Ops : p # o => next[p] = amount[p],
         NEW a
  PROVE  /\ Cardinality(Units(amount, a)) \in Nat
         /\ Owner[o] = a => amount[o] <= Cardinality(Units(amount, a))
         /\ Cardinality(Units(next, a)) =
              IF Owner[o] = a
                THEN Cardinality(Units(amount, a)) - amount[o] + next[o]
                ELSE Cardinality(Units(amount, a))
<1> DEFINE S == {p \in Ops : Owner[p] = a}
           Rest == UNION {{p} \X (1 .. amount[p]) : p \in S \ {o}}
           B == {o} \X (1 .. amount[o])
           C == {o} \X (1 .. next[o])
<1>1. IsFiniteSet(Rest) /\ IsFiniteSet(Units(amount, a))
  BY UnitsFinite DEF Units
<1>2. IsFiniteSet(B) /\ Cardinality(B) = amount[o]
  BY ColumnSize
<1>3. IsFiniteSet(C) /\ Cardinality(C) = next[o]
  BY ColumnSize
<1>4. Cardinality(Rest) \in Nat /\ Cardinality(Units(amount, a)) \in Nat
  BY <1>1, FS_CardinalityType
<1>5. CASE Owner[o] = a
  <2>1. Units(amount, a) = Rest \cup B
    BY <1>5 DEF Units
  <2>2. Units(next, a) = Rest \cup C
    <3>1. \A p \in S \ {o} : next[p] = amount[p]
      OBVIOUS
    <3>2. o \in S
      BY <1>5
    <3>3. QED
      BY <3>1, <3>2 DEF Units
  <2>3. Rest \cap B = {} /\ Rest \cap C = {}
    OBVIOUS
  <2>4. Cardinality(Rest \cup B) = Cardinality(Rest) + amount[o]
    <3>1. Cardinality(Rest \cup B)
            = Cardinality(Rest) + Cardinality(B) - Cardinality(Rest \cap B)
      BY <1>1, <1>2, FS_Union
    <3>2. Cardinality(Rest \cap B) = 0
      BY <2>3, FS_EmptySet
    <3> HIDE DEF Rest, B
    <3>3. QED
      BY <1>2, <1>4, <3>1, <3>2
  <2>5. Cardinality(Rest \cup C) = Cardinality(Rest) + next[o]
    <3>1. Cardinality(Rest \cup C)
            = Cardinality(Rest) + Cardinality(C) - Cardinality(Rest \cap C)
      BY <1>1, <1>3, FS_Union
    <3>2. Cardinality(Rest \cap C) = 0
      BY <2>3, FS_EmptySet
    <3> HIDE DEF Rest, C
    <3>3. QED
      BY <1>3, <1>4, <3>1, <3>2
  <2>6. Cardinality(Units(amount, a)) = Cardinality(Rest) + amount[o]
    BY <2>1, <2>4
  <2>7. Cardinality(Units(next, a)) = Cardinality(Rest) + next[o]
    BY <2>2, <2>5
  <2> HIDE DEF Rest
  <2>8. Cardinality(Units(next, a)) = Cardinality(Units(amount, a)) - amount[o] + next[o]
    BY <1>4, <2>6, <2>7
  <2>9. amount[o] <= Cardinality(Units(amount, a))
    BY <1>4, <2>6
  <2>10. QED
    BY <1>4, <1>5, <2>8, <2>9
<1>6. CASE Owner[o] # a
  <2>1. Units(next, a) = Units(amount, a)
    BY <1>6 DEF Units
  <2>2. QED
    BY <1>4, <1>6, <2>1
<1>7. QED
  BY <1>5, <1>6

-----------------------------------------------------------------------------
(* Each property is preserved by every step.                               *)

(* A step leaves every live operation holding its quoted maximum and every *)
(* other holding nothing.                                                  *)
LEMMA HoldStep ==
  TypeOK /\ HoldIsMaximum /\ [CreditNext]_creditVars => HoldIsMaximum'
<1> SUFFICES ASSUME TypeOK, HoldIsMaximum, [CreditNext]_creditVars
             PROVE  HoldIsMaximum'
  OBVIOUS
<1> USE CreditAssumption DEF TypeOK, HoldIsMaximum, IsActive, Active
<1>1. ASSUME NEW o \in Ops, NEW e \in Expiries, Reserve(o, e) PROVE HoldIsMaximum'
  BY <1>1 DEF Reserve
<1>2. ASSUME NEW o \in Ops, MarkRunning(o) PROVE HoldIsMaximum'
  BY <1>2 DEF MarkRunning
<1>3. ASSUME NEW o \in Ops, NEW c \in 0 .. MaxCharge[o], Settle(o, c)
      PROVE  HoldIsMaximum'
  BY <1>3 DEF Settle
<1>4. ASSUME NEW o \in Ops, NEW s, NEW e, s \notin Active, Returned(o, s, e)
      PROVE  HoldIsMaximum'
  BY <1>4 DEF Returned
<1>5. ASSUME NEW o \in Ops, Refund(o) PROVE HoldIsMaximum'
  BY <1>5 DEF Refund
<1>6. ASSUME NEW s \in Sweepers, NEW a \in Accounts, SweepClaim(s, a)
      PROVE  HoldIsMaximum'
  BY <1>6 DEF SweepClaim, Expired
<1>7. CASE UNCHANGED op
  BY <1>7
<1>8. QED
  BY <1>1, <1>2, <1>3, <1>4, <1>5, <1>6, <1>7
     DEF CreditNext, OpNext, SweepNext, SweepTryRelease, SweepTryQuarantine,
         Release, Quarantine, SweepRelease, SweepReleaseFails, SweepQuarantine,
         SweepThrows, SweepCrash, Tick, creditVars

(* A step leaves the ledger entries of every operation the ones its state  *)
(* calls for; what settle, release and quarantine record is the whole      *)
(* maximum only because the hold is.                                       *)
LEMMA LedgerStep ==
  TypeOK /\ HoldIsMaximum /\ LedgerExplains /\ [CreditNext]_creditVars
    => LedgerExplains'
<1> SUFFICES ASSUME TypeOK, HoldIsMaximum, LedgerExplains, [CreditNext]_creditVars
             PROVE  LedgerExplains'
  OBVIOUS
<1> USE CreditAssumption DEF TypeOK, HoldIsMaximum, LedgerExplains, IsActive, Active, EntryTypes
<1>1. ASSUME NEW o \in Ops, NEW e \in Expiries, Reserve(o, e) PROVE LedgerExplains'
  BY <1>1 DEF Reserve
<1>2. ASSUME NEW o \in Ops, MarkRunning(o) PROVE LedgerExplains'
  BY <1>2 DEF MarkRunning
<1>3. ASSUME NEW o \in Ops, NEW c \in 0 .. MaxCharge[o], Settle(o, c)
      PROVE  LedgerExplains'
  BY <1>3 DEF Settle, CanSettle
<1>4. ASSUME NEW o \in Ops, CanQuarantine(o), 
        Returned(o, "released", "release") \/ Returned(o, "quarantined", "correction")
      PROVE  LedgerExplains'
  BY <1>4 DEF Returned, CanQuarantine
<1>5. ASSUME NEW o \in Ops, Refund(o) PROVE LedgerExplains'
  BY <1>5 DEF Refund
<1>6. ASSUME NEW s \in Sweepers, NEW a \in Accounts, SweepClaim(s, a)
      PROVE  LedgerExplains'
  BY <1>6 DEF SweepClaim, Expired
<1>7. CASE UNCHANGED <<op, ledger>>
  BY <1>7
<1>8. QED
  BY <1>1, <1>2, <1>3, <1>4, <1>5, <1>6, <1>7
     DEF CreditNext, OpNext, SweepNext, SweepTryRelease, SweepTryQuarantine,
         Release, Quarantine, SweepRelease, SweepReleaseFails, SweepQuarantine,
         SweepThrows, SweepCrash, Tick, creditVars, CanRelease, CanQuarantine

(* A step that changes one hold moves the aggregate of the owner by the    *)
(* same amount.                                                            *)
AggregateFollows(a) ==
  /\ Cardinality(Units(Held, a)) \in Nat
  /\ wallet'[a].reserved - wallet[a].reserved
       = Cardinality(Units(Held', a)) - Cardinality(Units(Held, a))

LEMMA AggregateStep ==
  ASSUME TypeOK, HoldIsMaximum, [CreditNext]_creditVars
  PROVE  \A a \in Accounts : AggregateFollows(a)
<1> DEFINE Follows == \A a \in Accounts : AggregateFollows(a)
<1>0. \A a \in Accounts : wallet[a].reserved \in Nat /\ Cardinality(Units(Held, a)) \in Nat
  <2>1. Held \in [Ops -> Nat]
    BY DEF Held, TypeOK
  <2>2. \A a \in Accounts : IsFiniteSet(Units(Held, a))
    BY <2>1, UnitsFinite DEF Units
  <2>3. QED
    BY <2>2, FS_CardinalityType DEF TypeOK
<1>1. ASSUME NEW o \in Ops, NEW n \in Nat,
             Held' = [Held EXCEPT ![o] = n],
             \A a \in Accounts : wallet'[a].reserved =
               IF Owner[o] = a THEN wallet[a].reserved - op[o].reserved + n
                               ELSE wallet[a].reserved
      PROVE  Follows
  <2>1. Held \in [Ops -> Nat] /\ Held[o] = op[o].reserved
    BY DEF Held, TypeOK
  <2>2. /\ Held' \in [Ops -> Nat] /\ Held'[o] = n
        /\ \A p \in Ops : p # o => Held'[p] = Held[p]
    BY <1>1, <2>1
  <2>3. ASSUME NEW a \in Accounts
        PROVE  AggregateFollows(a)
    <3>1. Cardinality(Units(Held', a))
            = IF Owner[o] = a
                THEN Cardinality(Units(Held, a)) - Held[o] + Held'[o]
                ELSE Cardinality(Units(Held, a))
      BY <2>1, <2>2, UnitsUpdate
    <3>2. op[o].reserved \in Nat
      BY DEF TypeOK
    <3>3. wallet'[a].reserved = IF Owner[o] = a THEN wallet[a].reserved - op[o].reserved + n
                                                ELSE wallet[a].reserved
      BY <1>1
    <3> HIDE DEF Follows
    <3>4. QED
      BY <1>0, <2>1, <2>2, <3>1, <3>2, <3>3 DEF AggregateFollows
  <2>4. QED
    BY <2>3
<1>2. ASSUME NEW o \in Ops, NEW e \in Expiries, Reserve(o, e) PROVE Follows
  <2>1. Held' = [Held EXCEPT ![o] = MaxCharge[o]]
    BY <1>2 DEF Reserve, Held, TypeOK
  <2>2. op[o].reserved = 0 /\ MaxCharge[o] \in Nat
    BY <1>2, CreditAssumption DEF Reserve, HoldIsMaximum, IsActive, Active
  <2>3. ASSUME NEW a \in Accounts
        PROVE  wallet'[a].reserved =
                 IF Owner[o] = a THEN wallet[a].reserved - op[o].reserved + MaxCharge[o]
                                 ELSE wallet[a].reserved
    BY <1>2, <2>2 DEF Reserve, TypeOK
  <2>4. QED
    BY <1>1, <2>1, <2>2, <2>3
<1>3. ASSUME NEW o \in Ops, NEW c \in 0 .. MaxCharge[o], Settle(o, c)
      PROVE  Follows
  <2>1. Held' = [Held EXCEPT ![o] = 0]
    BY <1>3 DEF Settle, Held, TypeOK
  <2>2. ASSUME NEW a \in Accounts
        PROVE  wallet'[a].reserved =
                 IF Owner[o] = a THEN wallet[a].reserved - op[o].reserved + 0
                                 ELSE wallet[a].reserved
    BY <1>3 DEF Settle, TypeOK
  <2>3. QED
    BY <1>1, <2>1, <2>2
<1>4. ASSUME NEW o \in Ops, NEW s, NEW e, Returned(o, s, e) PROVE Follows
  <2>1. Held' = [Held EXCEPT ![o] = 0]
    BY <1>4 DEF Returned, Held, TypeOK
  <2>2. ASSUME NEW a \in Accounts
        PROVE  wallet'[a].reserved =
                 IF Owner[o] = a THEN wallet[a].reserved - op[o].reserved + 0
                                 ELSE wallet[a].reserved
    BY <1>4 DEF Returned, TypeOK
  <2>3. QED
    BY <1>1, <2>1, <2>2
<1>5. ASSUME Held' = Held, \A a \in Accounts : wallet'[a].reserved = wallet[a].reserved
      PROVE  Follows
  BY <1>0, <1>5 DEF AggregateFollows
<1>6. ASSUME NEW o \in Ops, MarkRunning(o) \/ Refund(o) PROVE Follows
  <2>1. Held' = Held
    <3>1. CASE MarkRunning(o)
      BY <3>1 DEF MarkRunning, Held, TypeOK
    <3>2. CASE Refund(o)
      BY <3>2 DEF Refund, Held, TypeOK
    <3>3. QED
      BY <1>6, <3>1, <3>2
  <2>2. \A a \in Accounts : wallet'[a].reserved = wallet[a].reserved
    BY <1>6 DEF MarkRunning, Refund, TypeOK
  <2>3. QED
    BY <1>5, <2>1, <2>2
<1>7. ASSUME NEW s \in Sweepers, NEW a \in Accounts, SweepClaim(s, a)
      PROVE  Follows
  <2>1. Held' = Held
    BY <1>7 DEF SweepClaim, Held, TypeOK
  <2>2. QED
    BY <1>5, <1>7, <2>1 DEF SweepClaim
<1>8. CASE UNCHANGED <<op, wallet>>
  BY <1>5, <1>8 DEF Held
<1>9. QED
  BY <1>2, <1>3, <1>4, <1>6, <1>7, <1>8
     DEF CreditNext, OpNext, SweepNext, SweepTryRelease, SweepTryQuarantine,
         Release, Quarantine, SweepRelease, SweepReleaseFails, SweepQuarantine,
         SweepThrows, SweepCrash, Tick, creditVars

LEMMA ReservedStep ==
  TypeOK /\ HoldIsMaximum /\ ReservedIsHeld /\ [CreditNext]_creditVars
    => ReservedIsHeld'
<1> SUFFICES ASSUME TypeOK, HoldIsMaximum, ReservedIsHeld, [CreditNext]_creditVars
             PROVE  ReservedIsHeld'
  OBVIOUS
<1>1. TypeOK'
  BY TypeStep
<1>2. ASSUME NEW a \in Accounts
      PROVE  wallet'[a].reserved = Cardinality(Units(Held', a))
  <2>1. Held' \in [Ops -> Nat] /\ wallet'[a].reserved \in Nat
    BY <1>1 DEF Held, TypeOK
  <2>2. Cardinality(Units(Held', a)) \in Nat
    BY <2>1, UnitsFinite, FS_CardinalityType DEF Units
  <2>3. wallet[a].reserved = Cardinality(Units(Held, a))
    BY DEF ReservedIsHeld
  <2>4. AggregateFollows(a)
    BY AggregateStep
  <2>5. QED
    BY <2>1, <2>2, <2>3, <2>4 DEF AggregateFollows
<1>3. QED
  BY <1>2 DEF ReservedIsHeld, Units

(* A step that charges or refunds an operation moves creditsUsed of the    *)
(* owner by the same amount.                                               *)
LEMMA UsedStep ==
  TypeOK /\ HoldIsMaximum /\ UsedIsCharged /\ [CreditNext]_creditVars
    => UsedIsCharged'
<1> SUFFICES ASSUME TypeOK, HoldIsMaximum, UsedIsCharged, [CreditNext]_creditVars
             PROVE  UsedIsCharged'
  OBVIOUS
<1>1. ASSUME NEW o \in Ops, NEW n \in Nat,
             Charged' = [Charged EXCEPT ![o] = n],
             \A a \in Accounts : wallet'[a].used =
               IF Owner[o] = a THEN wallet[a].used - Charged[o] + n
                               ELSE wallet[a].used
      PROVE  UsedIsCharged'
  <2>1. Charged \in [Ops -> Nat]
    BY DEF Charged, TypeOK
  <2>2. /\ Charged' \in [Ops -> Nat] /\ Charged'[o] = n
        /\ \A p \in Ops : p # o => Charged'[p] = Charged[p]
    BY <1>1, <2>1
  <2>3. ASSUME NEW a \in Accounts
        PROVE  Cardinality(Units(Charged', a))
                 = IF Owner[o] = a
                     THEN Cardinality(Units(Charged, a)) - Charged[o] + Charged'[o]
                     ELSE Cardinality(Units(Charged, a))
    BY <2>1, <2>2, UnitsUpdate
  <2>4. QED
    BY ZenonT(30), <1>1, <2>1, <2>2, <2>3 DEF UsedIsCharged, Units
<1>2. ASSUME Charged' = Charged,
             \A a \in Accounts : wallet'[a].used = wallet[a].used
      PROVE  UsedIsCharged'
  BY <1>2 DEF UsedIsCharged, Units
<1>3. ASSUME NEW o \in Ops, NEW c \in 0 .. MaxCharge[o], Settle(o, c)
      PROVE  UsedIsCharged'
  <2>1. Charged[o] = 0 /\ c \in Nat
    BY <1>3, CreditAssumption DEF Settle, CanSettle, IsActive, Active, Charged, TypeOK
  <2>4. Charged' = [Charged EXCEPT ![o] = c]
    BY <1>3 DEF Settle, Charged, TypeOK
  <2>2. ASSUME NEW a \in Accounts
        PROVE  wallet'[a].used =
                 IF Owner[o] = a THEN wallet[a].used - Charged[o] + c
                                 ELSE wallet[a].used
    BY <1>3, <2>1 DEF Settle, TypeOK
  <2>3. QED
    BY <1>1, <2>1, <2>2, <2>4
<1>4. ASSUME NEW o \in Ops, Refund(o) PROVE UsedIsCharged'
  <2>1. Charged' = [Charged EXCEPT ![o] = 0] /\ Charged[o] = op[o].charge
    BY <1>4 DEF Refund, Charged, TypeOK
  <2>2. ASSUME NEW a \in Accounts
        PROVE  wallet'[a].used =
                 IF Owner[o] = a THEN wallet[a].used - Charged[o] + 0
                                 ELSE wallet[a].used
    BY <1>4, <2>1 DEF Refund, TypeOK
  <2>3. QED
    BY <1>1, <2>1, <2>2
<1>5. ASSUME NEW o \in Ops, NEW e \in Expiries, Reserve(o, e) PROVE UsedIsCharged'
  <2>1. Charged' = Charged
    BY <1>5 DEF Reserve, Charged, TypeOK
  <2>2. \A a \in Accounts : wallet'[a].used = wallet[a].used
    BY <1>5 DEF Reserve, TypeOK
  <2>3. QED
    BY <1>2, <2>1, <2>2
<1>6. ASSUME NEW o \in Ops, NEW s \in {"released", "quarantined"}, NEW e,
             IsActive(o), Returned(o, s, e)
      PROVE  UsedIsCharged'
  <2>1. Charged' = Charged
    BY <1>6 DEF Returned, Charged, IsActive, Active, TypeOK
  <2>2. \A a \in Accounts : wallet'[a].used = wallet[a].used
    BY <1>6 DEF Returned, TypeOK
  <2>3. QED
    BY <1>2, <2>1, <2>2
<1>7. ASSUME NEW o \in Ops, MarkRunning(o) PROVE UsedIsCharged'
  <2>1. Charged' = Charged
    BY <1>7 DEF MarkRunning, Charged, TypeOK
  <2>2. QED
    BY <1>2, <1>7, <2>1 DEF MarkRunning
<1>8. ASSUME NEW s \in Sweepers, NEW a \in Accounts, SweepClaim(s, a)
      PROVE  UsedIsCharged'
  <2>1. Charged' = Charged
    BY <1>8 DEF SweepClaim, Expired, Charged, IsActive, Active, TypeOK
  <2>2. QED
    BY <1>2, <1>8, <2>1 DEF SweepClaim
<1>9. CASE UNCHANGED <<op, wallet>>
  BY <1>2, <1>9 DEF Charged
<1>10. QED
  BY <1>3, <1>4, <1>5, <1>6, <1>7, <1>8, <1>9
     DEF CreditNext, OpNext, SweepNext, SweepTryRelease, SweepTryQuarantine,
         Release, CanRelease, Quarantine, CanQuarantine, SweepRelease,
         SweepReleaseFails, SweepQuarantine, SweepThrows, SweepCrash, Tick,
         creditVars

(* Reserve is guarded by the available balance, and no other transaction   *)
(* lowers it: settle charges no more than the hold it returns.             *)
LEMMA OverdraftStep ==
  TypeOK /\ NoOverdraft /\ [CreditNext]_creditVars => NoOverdraft'
<1> SUFFICES ASSUME TypeOK, NoOverdraft, [CreditNext]_creditVars PROVE NoOverdraft'
  OBVIOUS
<1> USE DEF NoOverdraft, Available
<1>1. ASSUME NEW o \in Ops, NEW e \in Expiries, Reserve(o, e) PROVE NoOverdraft'
  <2>1. MaxCharge[o] \in Nat /\ Owner[o] \in Accounts
    BY CreditAssumption
  <2>2. QED
    BY <1>1, <2>1 DEF Reserve, TypeOK
<1>2. ASSUME NEW o \in Ops, NEW c \in 0 .. MaxCharge[o], Settle(o, c) PROVE NoOverdraft'
  <2>1. c \in Nat /\ op[o].reserved \in Nat /\ c <= op[o].reserved
    BY <1>2, CreditAssumption DEF Settle, CanSettle, TypeOK
  <2>2. QED
    BY <1>2, <2>1 DEF Settle, TypeOK
<1>3. ASSUME NEW o \in Ops, NEW s, NEW e, Returned(o, s, e) PROVE NoOverdraft'
  <2>1. op[o].reserved \in Nat
    BY DEF TypeOK
  <2>2. QED
    BY <1>3, <2>1 DEF Returned, TypeOK
<1>4. ASSUME NEW o \in Ops, Refund(o) PROVE NoOverdraft'
  <2>1. op[o].charge \in Nat
    BY DEF TypeOK
  <2>2. QED
    BY <1>4, <2>1 DEF Refund, TypeOK
<1>5. CASE UNCHANGED wallet
  BY <1>5
<1>6. QED
  BY <1>1, <1>2, <1>3, <1>4, <1>5
     DEF CreditNext, OpNext, MarkRunning, SweepNext, SweepClaim, SweepTryRelease,
         SweepTryQuarantine, Release, Quarantine, SweepRelease,
         SweepReleaseFails, SweepQuarantine, SweepThrows, SweepCrash, Tick,
         creditVars

(* No transaction writes an operation in a finished state, except a refund *)
(* of a settled one.                                                       *)
LEMMA FinishedStep ==
  TypeOK /\ [CreditNext]_creditVars =>
    [\A o \in Ops : op[o].state \in Finished /\ op'[o] # op[o] =>
        op[o].state = "settled" /\ op'[o].state = "refunded"]_creditVars
<1> SUFFICES ASSUME TypeOK, CreditNext, NEW p \in Ops,
                    op[p].state \in Finished, op'[p] # op[p]
             PROVE  op[p].state = "settled" /\ op'[p].state = "refunded"
  OBVIOUS
<1> USE DEF TypeOK, Finished, Active, IsActive
<1>1. ASSUME NEW o \in Ops, NEW e \in Expiries, Reserve(o, e) PROVE FALSE
  BY <1>1 DEF Reserve
<1>2. ASSUME NEW o \in Ops, MarkRunning(o) PROVE FALSE
  BY <1>2 DEF MarkRunning
<1>3. ASSUME NEW o \in Ops, NEW c \in 0 .. MaxCharge[o], Settle(o, c) PROVE FALSE
  BY <1>3 DEF Settle, CanSettle
<1>4. ASSUME NEW o \in Ops, NEW s, NEW e, IsActive(o), Returned(o, s, e) PROVE FALSE
  BY <1>4 DEF Returned
<1>5. ASSUME NEW o \in Ops, Refund(o)
      PROVE  op[p].state = "settled" /\ op'[p].state = "refunded"
  <2>1. op' = [op EXCEPT ![o].state = "refunded"] /\ op[o].state = "settled"
    BY <1>5 DEF Refund
  <2>2. o = p
    BY <2>1
  <2>3. op'[o] = [op[o] EXCEPT !.state = "refunded"]
    BY <2>1
  <2>4. "state" \in DOMAIN op[o]
    OBVIOUS
  <2>5. op'[o].state = "refunded"
    BY <2>3, <2>4
  <2>6. op[p].state = "settled"
    BY <2>1, <2>2
  <2>7. op'[p].state = "refunded"
    BY <2>5, <2>2, Zenon
  <2>8. QED
    BY <2>6, <2>7
<1>6. ASSUME NEW s \in Sweepers, NEW a \in Accounts, SweepClaim(s, a) PROVE FALSE
  BY <1>6 DEF SweepClaim, Expired
<1>7. CASE UNCHANGED op
  BY <1>7
<1>8. ASSUME NEW o \in Ops, OpNext(o)
      PROVE  op[p].state = "settled" /\ op'[p].state = "refunded"
  <2>1. CASE \E e \in Expiries : Reserve(o, e)
    BY <1>1, <2>1
  <2>2. CASE MarkRunning(o)
    BY <1>2, <2>2
  <2>3. CASE \E c \in 0 .. MaxCharge[o] : Settle(o, c)
    BY <1>3, <2>3
  <2>4. CASE Release(o)
    BY <1>4, <2>4 DEF Release, CanRelease
  <2>5. CASE Quarantine(o)
    BY <1>4, <2>5 DEF Quarantine, CanQuarantine
  <2>6. CASE Refund(o)
    BY <1>5, <2>6
  <2>7. QED
    BY <1>8, <2>1, <2>2, <2>3, <2>4, <2>5, <2>6 DEF OpNext
<1>9. ASSUME NEW s \in Sweepers, SweepNext(s)
      PROVE  op[p].state = "settled" /\ op'[p].state = "refunded"
  <2>1. CASE \E a \in Accounts : SweepClaim(s, a)
    BY <1>6, <2>1
  <2>2. CASE SweepTryRelease(s)
    BY <1>4, <1>7, <2>2
       DEF SweepTryRelease, SweepRelease, SweepReleaseFails, CanRelease
  <2>3. CASE SweepTryQuarantine(s)
    BY <1>4, <1>7, <2>3
       DEF SweepTryQuarantine, SweepQuarantine, SweepThrows, CanQuarantine
  <2>4. CASE SweepCrash(s)
    BY <1>7, <2>4 DEF SweepCrash
  <2>5. QED
    BY <1>9, <2>1, <2>2, <2>3, <2>4 DEF SweepNext
<1>10. QED
  BY <1>7, <1>8, <1>9 DEF CreditNext, Tick


(* A hold is part of the aggregate, so the CHECK constraint never stops it *)
(* from going back.                                                        *)
LEMMA HoldFits ==
  TypeOK /\ ReservedIsHeld => HoldsCanReturn
<1> SUFFICES ASSUME TypeOK, ReservedIsHeld, NEW o \in Ops PROVE CanUnreserve(o)
  BY DEF HoldsCanReturn
<1>1. Held \in [Ops -> Nat] /\ Held[o] = op[o].reserved
  BY DEF Held, TypeOK
<1>2. Held[o] <= Cardinality(Units(Held, Owner[o]))
  BY <1>1, UnitsUpdate
<1>3. Owner[o] \in Accounts
  BY CreditAssumption
<1>4. QED
  BY <1>1, <1>2, <1>3 DEF ReservedIsHeld, CanUnreserve



-----------------------------------------------------------------------------
(* The refinement of CreditWallet.  Balance, Phases and Amount are the     *)
(* values the INSTANCE gives its variables.                                *)

Balance == [a \in Accounts |-> Available(a)]
Phases == [o \in Ops |-> PhaseOf(op[o].state)]
Amount == [o \in Ops |-> Held[o] + Charged[o]]
AmountOf(row) == row.reserved + (IF row.state = "settled" THEN row.charge ELSE 0)

(* What the wallet sees of an operation depends on its row alone.          *)
LEMMA AmountByRow ==
  /\ Amount = [o \in Ops |-> AmountOf(op[o])]
  /\ Amount' = [o \in Ops |-> AmountOf(op'[o])]
  BY DEF Amount, AmountOf, Held, Charged

(* Writing one operation row changes that operation's phase and amount.    *)
LEMMA RowChange ==
  ASSUME NEW o \in Ops, NEW row, TypeOK, op' = [op EXCEPT ![o] = row]
  PROVE  /\ Phases' = [Phases EXCEPT ![o] = PhaseOf(row.state)]
         /\ Amount' = [Amount EXCEPT ![o] = AmountOf(row)]
<1>1. \A p \in Ops : op'[p] = IF p = o THEN row ELSE op[p]
  BY DEF TypeOK
<1>2. Phases' = [Phases EXCEPT ![o] = PhaseOf(row.state)]
  <2>1. \A p \in Ops : PhaseOf(op'[p].state) =
          IF p = o THEN PhaseOf(row.state) ELSE PhaseOf(op[p].state)
    BY <1>1
  <2>2. Phases' = [p \in Ops |-> PhaseOf(op'[p].state)]
    BY DEF Phases
  <2>3. QED
    BY <2>1, <2>2 DEF Phases
<1>3. Amount' = [Amount EXCEPT ![o] = AmountOf(row)]
  <2>1. \A p \in Ops : AmountOf(op'[p]) =
          IF p = o THEN AmountOf(row) ELSE AmountOf(op[p])
    BY <1>1
  <2>2. QED
    BY <2>1, AmountByRow
<1>4. QED
  BY <1>2, <1>3

(* Writing one subscription row changes that account's balance.            *)
LEMMA WalletChange ==
  ASSUME NEW a \in Accounts, NEW row, TypeOK, wallet' = [wallet EXCEPT ![a] = row]
  PROVE  Balance' = [Balance EXCEPT ![a] = row.credits - row.used - row.reserved]
<1>1. \A b \in Accounts : wallet'[b] = IF b = a THEN row ELSE wallet[b]
  BY DEF TypeOK
<1>2. \A b \in Accounts : wallet'[b].credits - wallet'[b].used - wallet'[b].reserved =
        IF b = a THEN row.credits - row.used - row.reserved ELSE Available(b)
  BY <1>1 DEF Available
<1>3. Balance' = [b \in Accounts |->
                    wallet'[b].credits - wallet'[b].used - wallet'[b].reserved]
  BY DEF Balance, Available
<1>4. QED
  BY <1>2, <1>3 DEF Balance

(* The initial states of the service are initial states of the wallet.     *)
LEMMA WalletInit == Init => Wallet!Init
<1> SUFFICES ASSUME Init PROVE Wallet!Init
  OBVIOUS
<1>1. [a \in Accounts |-> Available(a)] = InitialCredits
  BY CreditAssumption DEF Init, Available
<1>2. [o \in Ops |-> PhaseOf(op[o].state)] = [o \in Ops |-> "new"]
  BY DEF Init, NoRow, PhaseOf
<1>3. [o \in Ops |-> Held[o] + Charged[o]] = [o \in Ops |-> 0]
  BY DEF Init, NoRow, Held, Charged
<1>4. QED
  BY <1>1, <1>2, <1>3 DEF Wallet!Init

(* Every transaction of the service is a step of the wallet or leaves it   *)
(* unchanged.                                                              *)
LEMMA WalletStep ==
  TypeOK /\ HoldIsMaximum /\ [CreditNext]_creditVars => [Wallet!Next]_(Wallet!vars)
<1> SUFFICES ASSUME TypeOK, HoldIsMaximum, [CreditNext]_creditVars
             PROVE  \/ Balance' = Balance /\ Phases' = Phases /\ Amount' = Amount
                    \/ Wallet!Next
  BY DEF Wallet!vars, Balance, Phases, Amount
<1>1. ASSUME NEW o \in Ops, NEW e \in Expiries, Reserve(o, e) PROVE Wallet!Next
  <2> DEFINE row == [state |-> "reserved", reserved |-> MaxCharge[o],
                     charge |-> 0, expiresAt |-> e]
             purse == [wallet[Owner[o]] EXCEPT !.reserved = @ + MaxCharge[o]]
  <2>1. MaxCharge[o] \in Nat /\ Owner[o] \in Accounts
    BY CreditAssumption
  <2>2. op' = [op EXCEPT ![o] = row] /\ wallet' = [wallet EXCEPT ![Owner[o]] = purse]
    BY <1>1 DEF Reserve
  <2>3. PhaseOf(row.state) = "held" /\ AmountOf(row) = MaxCharge[o]
    BY <2>1 DEF PhaseOf, Active, AmountOf
  <2>4. /\ purse.credits = wallet[Owner[o]].credits
        /\ purse.used = wallet[Owner[o]].used
        /\ purse.reserved = wallet[Owner[o]].reserved + MaxCharge[o]
    BY <2>1 DEF TypeOK
  <2>5. Balance[Owner[o]] = Available(Owner[o]) /\ Phases[o] = "new"
    BY <1>1, <2>1 DEF Reserve, Balance, Phases, PhaseOf
  <2>6. purse.credits - purse.used - purse.reserved = Balance[Owner[o]] - MaxCharge[o]
    BY <2>1, <2>4, <2>5 DEF Available, TypeOK
  <2> HIDE DEF row, purse
  <2>7. Balance' = [Balance EXCEPT ![Owner[o]] = Balance[Owner[o]] - MaxCharge[o]]
    BY <2>1, <2>2, <2>6, WalletChange
  <2>8. /\ Phases' = [Phases EXCEPT ![o] = "held"]
        /\ Amount' = [Amount EXCEPT ![o] = MaxCharge[o]]
    BY ZenonT(30), <2>2, <2>3, RowChange
  <2>9. Balance[Owner[o]] >= MaxCharge[o]
    BY <1>1, <2>5 DEF Reserve
  <2>10. QED
    BY <2>5, <2>7, <2>8, <2>9
       DEF Wallet!Next, Wallet!Hold, Balance, Phases, Amount
<1>2. ASSUME NEW o \in Ops, NEW c \in 0 .. MaxCharge[o], Settle(o, c) PROVE Wallet!Next
  <2> DEFINE row == [op[o] EXCEPT !.state = "settled", !.reserved = 0, !.charge = c]
             purse == [wallet[Owner[o]] EXCEPT !.reserved = @ - op[o].reserved,
                                               !.used = @ + c]
  <2>1. MaxCharge[o] \in Nat /\ Owner[o] \in Accounts
    BY CreditAssumption
  <2>2. c \in Nat /\ op[o].reserved \in Nat /\ c <= op[o].reserved /\ IsActive(o)
    BY <1>2, <2>1 DEF Settle, CanSettle, TypeOK
  <2>3. op' = [op EXCEPT ![o] = row]
    BY <1>2, <2>1 DEF Settle, TypeOK
  <2>4. wallet' = [wallet EXCEPT ![Owner[o]] = purse]
    BY <1>2, <2>1 DEF Settle, TypeOK
  <2>5. row.state = "settled" /\ row.reserved = 0 /\ row.charge = c
    BY DEF TypeOK
  <2>6. /\ purse.credits = wallet[Owner[o]].credits
        /\ purse.used = wallet[Owner[o]].used + c
        /\ purse.reserved = wallet[Owner[o]].reserved - op[o].reserved
    BY <2>1 DEF TypeOK
  <2>7. Phases[o] = "held" /\ Amount[o] = op[o].reserved
    BY <2>2, AmountByRow DEF Phases, PhaseOf, AmountOf, IsActive, Active
  <2>8. Balance[Owner[o]] = Available(Owner[o])
    BY <2>1 DEF Balance
  <2>9. purse.credits - purse.used - purse.reserved = Balance[Owner[o]] + (Amount[o] - c)
    BY <2>1, <2>2, <2>6, <2>7, <2>8 DEF Available, TypeOK
  <2>10. PhaseOf(row.state) = "captured" /\ AmountOf(row) = c
    BY <2>2, <2>5 DEF PhaseOf, Active, AmountOf
  <2> HIDE DEF row, purse
  <2>11. Balance' = [Balance EXCEPT ![Owner[o]] = Balance[Owner[o]] + (Amount[o] - c)]
    BY <2>1, <2>4, <2>9, WalletChange
  <2>12. /\ Phases' = [Phases EXCEPT ![o] = "captured"]
         /\ Amount' = [Amount EXCEPT ![o] = c]
    BY <2>3, <2>10, RowChange
  <2>13. Wallet!Capture(o)
    BY <2>2, <2>7, <2>11, <2>12 DEF Wallet!Capture, Balance, Phases, Amount
  <2>14. QED
    BY <2>13 DEF Wallet!Next
<1>3. ASSUME NEW o \in Ops, NEW s \in {"released", "quarantined"}, NEW e,
             IsActive(o), Returned(o, s, e)
      PROVE  Wallet!Next
  <2> DEFINE row == [op[o] EXCEPT !.state = s, !.reserved = 0]
             purse == [wallet[Owner[o]] EXCEPT !.reserved = @ - op[o].reserved]
  <2>1. op[o].reserved \in Nat /\ Owner[o] \in Accounts
    BY CreditAssumption DEF TypeOK
  <2>2. op' = [op EXCEPT ![o] = row]
    BY <1>3 DEF Returned, TypeOK
  <2>3. wallet' = [wallet EXCEPT ![Owner[o]] = purse]
    BY <1>3 DEF Returned
  <2>4. row.state = s /\ row.reserved = 0
    BY DEF TypeOK
  <2>5. /\ purse.credits = wallet[Owner[o]].credits
        /\ purse.used = wallet[Owner[o]].used
        /\ purse.reserved = wallet[Owner[o]].reserved - op[o].reserved
    BY <2>1 DEF TypeOK
  <2>6. Phases[o] = "held" /\ Amount[o] = op[o].reserved
    BY <1>3, <2>1, AmountByRow DEF Phases, PhaseOf, AmountOf, IsActive, Active
  <2>7. Balance[Owner[o]] = Available(Owner[o])
    BY <2>1 DEF Balance
  <2>8. purse.credits - purse.used - purse.reserved = Balance[Owner[o]] + Amount[o]
    BY <2>1, <2>5, <2>6, <2>7 DEF Available, TypeOK
  <2>9. PhaseOf(row.state) = "returned" /\ AmountOf(row) = 0
    BY <2>4 DEF PhaseOf, Active, AmountOf
  <2> HIDE DEF row, purse
  <2>10. Balance' = [Balance EXCEPT ![Owner[o]] = Balance[Owner[o]] + Amount[o]]
    BY <2>1, <2>3, <2>8, WalletChange
  <2>11. /\ Phases' = [Phases EXCEPT ![o] = "returned"]
         /\ Amount' = [Amount EXCEPT ![o] = 0]
    BY <2>2, <2>9, RowChange
  <2>12. Wallet!GiveBack(o)
    BY <2>6, <2>10, <2>11 DEF Wallet!GiveBack, Balance, Phases, Amount
  <2>13. QED
    BY <2>12 DEF Wallet!Next
<1>4. ASSUME NEW o \in Ops, Refund(o) PROVE Wallet!Next
  <2> DEFINE row == [op[o] EXCEPT !.state = "refunded"]
             purse == [wallet[Owner[o]] EXCEPT !.used = @ - op[o].charge]
  <2>1. op[o].charge \in Nat /\ Owner[o] \in Accounts /\ op[o].state = "settled"
    BY <1>4, CreditAssumption DEF Refund, TypeOK
  <2>2. op[o].reserved = 0
    BY <2>1 DEF HoldIsMaximum, IsActive, Active
  <2>3. op' = [op EXCEPT ![o] = row] /\ wallet' = [wallet EXCEPT ![Owner[o]] = purse]
    BY <1>4 DEF Refund
  <2>4. row.state = "refunded" /\ row.reserved = 0
    BY <2>2 DEF TypeOK
  <2>5. /\ purse.credits = wallet[Owner[o]].credits
        /\ purse.used = wallet[Owner[o]].used - op[o].charge
        /\ purse.reserved = wallet[Owner[o]].reserved
    BY <2>1 DEF TypeOK
  <2>6. Phases[o] = "captured" /\ Amount[o] = op[o].charge
    BY <2>1, <2>2, AmountByRow DEF Phases, PhaseOf, AmountOf, Active
  <2>7. Balance[Owner[o]] = Available(Owner[o])
    BY <2>1 DEF Balance
  <2>8. purse.credits - purse.used - purse.reserved = Balance[Owner[o]] + Amount[o]
    BY <2>1, <2>5, <2>6, <2>7 DEF Available, TypeOK
  <2>9. PhaseOf(row.state) = "returned" /\ AmountOf(row) = 0
    BY <2>4 DEF PhaseOf, Active, AmountOf
  <2> HIDE DEF row, purse
  <2>10. Balance' = [Balance EXCEPT ![Owner[o]] = Balance[Owner[o]] + Amount[o]]
    BY <2>1, <2>3, <2>8, WalletChange
  <2>11. /\ Phases' = [Phases EXCEPT ![o] = "returned"]
         /\ Amount' = [Amount EXCEPT ![o] = 0]
    BY <2>3, <2>9, RowChange
  <2>12. Wallet!GiveBack(o)
    BY <2>6, <2>10, <2>11 DEF Wallet!GiveBack, Balance, Phases, Amount
  <2>13. QED
    BY <2>12 DEF Wallet!Next
<1>5. ASSUME wallet' = wallet,
             \A o \in Ops : /\ op'[o].reserved = op[o].reserved
                            /\ op'[o].charge = op[o].charge
                            /\ \/ op'[o].state = op[o].state
                               \/ op'[o].state \in Active /\ op[o].state \in Active
      PROVE  Balance' = Balance /\ Phases' = Phases /\ Amount' = Amount
  <2>1. Balance' = Balance
    BY <1>5 DEF Balance, Available
  <2>2. \A o \in Ops : /\ PhaseOf(op'[o].state) = PhaseOf(op[o].state)
                       /\ AmountOf(op'[o]) = AmountOf(op[o])
    BY <1>5 DEF PhaseOf, AmountOf, Active
  <2>3. QED
    BY <2>1, <2>2, AmountByRow DEF Phases
<1>6. ASSUME NEW o \in Ops, MarkRunning(o)
      PROVE  Balance' = Balance /\ Phases' = Phases /\ Amount' = Amount
  BY <1>5, <1>6 DEF MarkRunning, TypeOK, Active
<1>7. ASSUME NEW s \in Sweepers, NEW a \in Accounts, SweepClaim(s, a)
      PROVE  Balance' = Balance /\ Phases' = Phases /\ Amount' = Amount
  BY <1>5, <1>7 DEF SweepClaim, Expired, IsActive, TypeOK, Active
<1>8. CASE UNCHANGED <<op, wallet>>
  BY <1>5, <1>8
<1>9. QED
  BY <1>1, <1>2, <1>3, <1>4, <1>6, <1>7, <1>8
     DEF CreditNext, OpNext, SweepNext, SweepTryRelease, SweepTryQuarantine,
         Release, CanRelease, Quarantine, CanQuarantine, SweepRelease,
         SweepReleaseFails, SweepQuarantine, SweepThrows, SweepCrash, Tick,
         creditVars

-----------------------------------------------------------------------------
(* A live operation always holds its whole quoted maximum, a finished one  *)
(* nothing.                                                                *)
THEOREM HoldTheorem == Spec => []HoldIsMaximum
<1>1. Init => HoldIsMaximum
  BY DEF Init, NoRow, HoldIsMaximum, IsActive, Active
<1>2. QED
  BY <1>1, HoldStep, TypeCorrect, PTL DEF Spec

(* The ledger explains every operation: the entries of a finished one      *)
(* account for each reserved unit exactly once.                            *)
THEOREM LedgerTheorem == Spec => []LedgerExplains
<1>1. Init => LedgerExplains
  BY DEF Init, NoRow, LedgerExplains, EntryTypes
<1>2. QED
  BY <1>1, LedgerStep, HoldTheorem, TypeCorrect, PTL DEF Spec

(* An amount that is zero everywhere has no units.                         *)
LEMMA NoUnits ==
  ASSUME NEW amount, amount = [o \in Ops |-> 0], NEW a
  PROVE  Cardinality(Units(amount, a)) = 0
<1>1. \A o \in Ops : {o} \X (1 .. amount[o]) = {}
  OBVIOUS
<1>2. Units(amount, a) = {}
  BY <1>1 DEF Units
<1>3. QED
  BY <1>2, FS_EmptySet

(* The aggregate creditsReserved is exactly what live operations hold.     *)
THEOREM ReservedTheorem == Spec => []ReservedIsHeld
<1>1. Init => ReservedIsHeld
  <2> SUFFICES ASSUME Init, NEW a \in Accounts
               PROVE  wallet[a].reserved = Cardinality(Units(Held, a))
    BY DEF ReservedIsHeld
  <2>1. Held = [o \in Ops |-> 0]
    BY DEF Init, NoRow, Held
  <2>2. wallet[a].reserved = 0
    BY DEF Init
  <2>3. QED
    BY <2>1, <2>2, NoUnits
<1>2. QED
  BY <1>1, ReservedStep, HoldTheorem, TypeCorrect, PTL DEF Spec

(* The aggregate creditsUsed is exactly what settled operations were       *)
(* charged and not refunded.                                               *)
THEOREM UsedTheorem == Spec => []UsedIsCharged
<1>1. Init => UsedIsCharged
  <2> SUFFICES ASSUME Init, NEW a \in Accounts
               PROVE  wallet[a].used = Cardinality(Units(Charged, a))
    BY DEF UsedIsCharged
  <2>1. Charged = [o \in Ops |-> 0]
    BY DEF Init, NoRow, Charged
  <2>2. wallet[a].used = 0
    BY DEF Init
  <2>3. QED
    BY <2>1, <2>2, NoUnits
<1>2. QED
  BY <1>1, UsedStep, HoldTheorem, TypeCorrect, PTL DEF Spec

(* Concurrent operations never promise more than the account has.          *)
THEOREM OverdraftTheorem == Spec => []NoOverdraft
<1>1. Init => NoOverdraft
  BY CreditAssumption DEF Init, NoOverdraft, Available
<1>2. QED
  BY <1>1, OverdraftStep, TypeCorrect, PTL DEF Spec

(* A live operation's hold can always be given back: the CHECK constraint  *)
(* on credits_reserved never aborts settle, release or quarantine.         *)
THEOREM ReturnTheorem == Spec => []HoldsCanReturn
  BY HoldFits, ReservedTheorem, TypeCorrect, PTL

(* No late or repeated call revives a finished operation.                  *)
THEOREM FinishedTheorem == Spec => FinishedStaysFinished
<1>1. [CreditNext]_creditVars /\ TypeOK =>
        [\A o \in Ops : op[o].state \in Finished /\ op'[o] # op[o] =>
           op[o].state = "settled" /\ op'[o].state = "refunded"]_creditVars
  BY FinishedStep
<1>2. QED
  BY <1>1, TypeCorrect, PTL DEF Spec, FinishedStaysFinished

(* The service implements the wallet: whatever its transactions, periods,  *)
(* ledger and reconcilers do, callers see holds that are captured once or  *)
(* given back once.                                                        *)
THEOREM WalletTheorem == Spec => ImplementsWallet
<1>1. Init => Wallet!Init
  BY WalletInit
<1>2. TypeOK /\ HoldIsMaximum /\ [CreditNext]_creditVars
        => [Wallet!Next]_(Wallet!vars)
  BY WalletStep
<1>3. QED
  BY <1>1, <1>2, HoldTheorem, TypeCorrect, PTL
     DEF Spec, ImplementsWallet, Wallet!Spec

(* No transaction leads back to "none" or "reserved".                      *)
LEMMA StatesMoveOn ==
  ASSUME TypeOK, [CreditNext]_creditVars, NEW o \in Ops,
         op[o].state \notin {"none", "reserved"}
  PROVE  op'[o].state \notin {"none", "reserved"}
<1>1. ASSUME NEW p \in Ops, NEW e \in Expiries, Reserve(p, e)
      PROVE  op'[o].state \notin {"none", "reserved"}
  BY <1>1 DEF Reserve, TypeOK
<1>2. ASSUME NEW p \in Ops, MarkRunning(p)
      PROVE  op'[o].state \notin {"none", "reserved"}
  BY <1>2 DEF MarkRunning, TypeOK
<1>3. ASSUME NEW p \in Ops, NEW c \in 0 .. MaxCharge[p], Settle(p, c)
      PROVE  op'[o].state \notin {"none", "reserved"}
  <2>1. op' = [op EXCEPT ![p].state = "settled", ![p].reserved = 0, ![p].charge = c]
    BY <1>3 DEF Settle
  <2>2. op'[o] = IF o = p THEN [op[o] EXCEPT !.state = "settled", !.reserved = 0,
                                             !.charge = c] ELSE op[o]
    BY <2>1 DEF TypeOK
  <2>3. QED
    BY <2>2 DEF TypeOK
<1>4. ASSUME NEW p \in Ops, NEW entry, NEW state \in {"released", "quarantined"},
             Returned(p, state, entry)
      PROVE  op'[o].state \notin {"none", "reserved"}
  BY <1>4 DEF Returned, TypeOK
<1>5. ASSUME NEW p \in Ops, Refund(p)
      PROVE  op'[o].state \notin {"none", "reserved"}
  BY <1>5 DEF Refund, TypeOK
<1>6. ASSUME NEW p \in Ops, Release(p) \/ Quarantine(p)
      PROVE  op'[o].state \notin {"none", "reserved"}
  BY <1>6, <1>4 DEF Release, Quarantine
<1>7. ASSUME NEW s \in Sweepers, SweepNext(s)
      PROVE  op'[o].state \notin {"none", "reserved"}
  <2>1. ASSUME NEW a \in Accounts, SweepClaim(s, a)
        PROVE  op'[o].state \notin {"none", "reserved"}
    BY <2>1 DEF SweepClaim, TypeOK
  <2>2. ASSUME NEW p \in Ops, SweepRelease(s, p) \/ SweepReleaseFails(s, p)
        PROVE  op'[o].state \notin {"none", "reserved"}
    BY <2>2, <1>4 DEF SweepRelease, SweepReleaseFails
  <2>3. ASSUME NEW p \in Ops, SweepQuarantine(s, p) \/ SweepThrows(s, p)
        PROVE  op'[o].state \notin {"none", "reserved"}
    BY <2>3, <1>4 DEF SweepQuarantine, SweepThrows
  <2>4. QED
    BY <1>7, <2>1, <2>2, <2>3 DEF SweepNext, SweepTryRelease, SweepTryQuarantine, SweepCrash
<1>8. CASE Tick \/ UNCHANGED creditVars
  BY <1>8 DEF Tick, creditVars
<1>9. QED
  BY <1>1, <1>2, <1>3, <1>5, <1>6, <1>7, <1>8 DEF CreditNext, OpNext

(* No transaction moves the end of a period, and time does not go back: a  *)
(* period that is over stays so.                                           *)
LEMMA CreditKeepsPeriods ==
  ASSUME TypeOK, [CreditNext]_creditVars, NEW a \in Accounts, ValidPeriod(a)'
  PROVE  ValidPeriod(a)
<1>1. periodEnd' = periodEnd /\ now' \in {now, now + 1}
  BY DEF CreditNext, OpNext, Reserve, MarkRunning, Settle, Release, Quarantine, Refund, Tick,
     SweepNext, SweepClaim, SweepTryRelease, SweepTryQuarantine, SweepRelease,
     SweepReleaseFails, SweepQuarantine, SweepThrows, SweepCrash, creditVars
<1>2. now \in Nat /\ periodEnd[a] \in Nat \cup {NULL}
  BY CreditAssumption DEF TypeOK
<1>3. QED
  BY <1>1, <1>2 DEF ValidPeriod

LEMMA NotRefused ==
  ASSUME TypeOK, HoldsCanReturn, NEW o \in Ops, IsActive(o), ValidPeriod(Owner[o])
  PROVE  CanRelease(o) /\ CanSettle(o, 0)
<1>1. /\ CanUnreserve(o) /\ MaxCharge[o] \in Nat /\ op[o].reserved \in Nat
  BY CreditAssumption DEF HoldsCanReturn, TypeOK
<1>2. QED
  BY <1>1 DEF CanRelease, CanSettle
=============================================================================
