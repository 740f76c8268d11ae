--------------------------- MODULE PaymentsProofs ---------------------------
(* Theorems about Payments, for any number of orders, payments, workers    *)
(* and attempts.                                                           *)
EXTENDS Payments, FiniteSetTheorems, NaturalsInduction, WellFoundedInduction,
        TLAPS

(* What transitions keep: a paid order never becomes payable again, and    *)
(* only PENDING_PAYMENT leads out of the unpaid statuses.                  *)
LEMMA TransitionFacts ==
  ASSUME NEW from \in OrderStatus, NEW to, isTransitionAllowed(from, to)
  PROVE  /\ to \in OrderStatus
         /\ from \notin Unpaid => to \notin Unpaid
         /\ from \in Unpaid /\ to \notin Unpaid => to = "PAID"
  BY DEF OrderStatus, isTransitionAllowed, ORDER_STATE_TRANSITIONS, Unpaid

LEMMA TransitionPaid ==
  isTransitionAllowed("PENDING_PAYMENT", "PAID")
  BY DEF isTransitionAllowed, ORDER_STATE_TRANSITIONS

LEMMA AttemptIdsAreNumbers == AttemptIds \subseteq Nat
  BY DEF AttemptIds

-----------------------------------------------------------------------------
(* What a handler in flight knows for certain of the rows it has read.     *)
OnPayment(s) == /\ s.order \in Orders /\ s.payment \in Payments
                /\ rzpOrder[s.order] # None
                /\ payment[s.payment].rzp = rzpOrder[s.order]

OnAttempt(s) == /\ s.attempt \in AttemptIds
                /\ attempts[s.attempt].status # "ABSENT"
                /\ attempts[s.attempt].order = s.order

SessionOK(s) ==
  /\ s.step = "associate" =>
       /\ s.order \in Orders /\ s.rzp \in minted
       /\ \A o \in Orders : rzpOrder[o] # s.rzp
  /\ s.step = "open" =>
       s.order \in Orders /\ s.rzp # None /\ rzpOrder[s.order] = s.rzp
  /\ s.step \in {"lookup", "find", "target"} => OnPayment(s)
  /\ s.step = "verify" => OnPayment(s) /\ OnAttempt(s)
  /\ s.step = "apply" =>
       OnPayment(s) /\ (OnAttempt(s) \/ (s.attempt = None /\ s.stamp))
  /\ s.step = "settle" => OnPayment(s) /\ s.rzp = rzpOrder[s.order]
  /\ s.step = "expire" => s.order \in Orders
  /\ s.step = "report" =>
       s.payment \in Payments /\ payment[s.payment].state # "none"

SessionsOK == \A w \in Workers : SessionOK(session[w])

(* A Razorpay order one initiatePayment created is in no other's hands.    *)
OwnMint ==
  \A v, w \in Workers :
    At(v, "associate") /\ At(w, "associate") /\ session[v].rzp = session[w].rzp
      => v = w

(* A Razorpay order is bound to one order and payments are made on bound   *)
(* ones only.                                                              *)
Binding ==
  /\ \A o \in Orders : rzpOrder[o] # None => rzpOrder[o] \in minted
  /\ \A o, q \in Orders : rzpOrder[o] = rzpOrder[q] /\ rzpOrder[o] # None => o = q
  /\ \A p \in Payments : payment[p].state # "none" =>
       \E o \in Orders : rzpOrder[o] # None /\ rzpOrder[o] = payment[p].rzp
  /\ \A p \in Payments : payment[p].state = "none" <=> payment[p].rzp = None

RowsOK ==
  \A a \in AttemptIds :
    IF attempts[a].status = "ABSENT" THEN attempts[a] = NoAttempt
    ELSE /\ attempts[a].order \in Orders
         /\ attempts[a].rzp # None
         /\ attempts[a].rzp = rzpOrder[attempts[a].order]
         /\ attempts[a].pay # None =>
              payment[attempts[a].pay].rzp = attempts[a].rzp

(* The two unique indexes of payment_attempts, as facts about its rows.    *)
UniquePayment ==
  \A a, b \in AttemptIds :
    attempts[a].pay = attempts[b].pay /\ attempts[a].pay # None => a = b

UniqueCapture ==
  \A a, b \in AttemptIds :
    attempts[a].status = "CAPTURED" /\ attempts[b].status = "CAPTURED"
      /\ attempts[a].order = attempts[b].order => a = b

HasCapture(o) == \E a \in AttemptIds : /\ attempts[a].order = o
                                       /\ attempts[a].status = "CAPTURED"

PaidHasCapture ==
  \A o \in Orders : status[o] \notin Unpaid /\ o \notin manual =>
                     HasCapture(o) /\ Announced(o, "ORDER_PAID")

ToldHasCapture ==
  \A o \in Orders : Announced(o, "ORDER_PAID") => HasCapture(o)

(* Razorpay reports only what has happened.                                *)
EventsEmitted ==
  \A e \in EventIds : event[e].status # "ABSENT" => payment[e[2]].state # "none"

Inv == /\ TypeOK /\ SessionsOK /\ OwnMint /\ Binding /\ RowsOK /\ EventsEmitted
       /\ UniquePayment /\ UniqueCapture /\ PaidHasCapture /\ ToldHasCapture

-----------------------------------------------------------------------------
(* Frame lemmas: what a step that touches little leaves standing.          *)

LEMMA IdleSession == Idle \in Sessions /\ SessionOK(Idle)
  BY DEF Idle, Sessions, Steps, OrderStatus, EventStatus, SessionOK

(* A step that only moves the handler w on to a session it may be in.      *)
LEMMA SessionStep ==
  ASSUME Inv, NEW w \in Workers, NEW s \in Sessions, Become(w, s),
         SessionOK(s), s.step # "associate",
         UNCHANGED <<db, minted, payment>>, txErrors' \in Nat /\ aged' \subseteq Orders
  PROVE  Inv'
  <1>1. TypeOK'
    BY DEF Inv, TypeOK, Become, db
  <1>2. SessionsOK'
    BY DEF Inv, TypeOK, SessionsOK, SessionOK, OnPayment, OnAttempt, Become, db
  <1>3. OwnMint'
    BY DEF Inv, TypeOK, OwnMint, At, Become
  <1>4. Binding' /\ RowsOK' /\ UniquePayment' /\ UniqueCapture' /\ EventsEmitted'
    BY DEF Inv, Binding, RowsOK, UniquePayment, UniqueCapture, EventsEmitted, db
  <1>5. PaidHasCapture' /\ ToldHasCapture'
    BY DEF Inv, PaidHasCapture, ToldHasCapture, HasCapture, Announced, db
  <1> QED BY <1>1, <1>2, <1>3, <1>4, <1>5 DEF Inv

(* Attempts are never deleted and never change hands.                      *)
RowsKept == \A a \in AttemptIds :
              attempts[a].status # "ABSENT" =>
                /\ attempts'[a].status # "ABSENT"
                /\ attempts'[a].order = attempts[a].order

(* A transaction that ends its handler and leaves Razorpay orders alone.   *)
LEMMA CommitFrame ==
  ASSUME Inv, NEW w \in Workers, Finish(w), RowsKept,
         UNCHANGED <<rzpOrder, minted, payment>>
  PROVE  /\ session' \in [Workers -> Sessions]
         /\ SessionsOK' /\ OwnMint' /\ Binding'
  <1> USE IdleSession
  <1>1. session' \in [Workers -> Sessions]
    BY DEF Inv, TypeOK, Finish, Become
  <1>2. SessionsOK'
    <2> SUFFICES ASSUME NEW v \in Workers PROVE SessionOK(session[v])'
      BY DEF SessionsOK
    <2>1. CASE v = w
      <3>1. session'[v] = Idle
        BY <2>1 DEF Finish, Become, Inv, TypeOK
      <3> QED BY <3>1 DEF SessionOK, Idle
    <2>2. CASE v # w
      <3>1. session'[v] = session[v] /\ SessionOK(session[v])
        BY <2>2 DEF Finish, Become, Inv, TypeOK, SessionsOK
      <3> QED BY <3>1 DEF SessionOK, OnPayment, OnAttempt, RowsKept
    <2> QED BY <2>1, <2>2
  <1>3. OwnMint'
    BY DEF Inv, TypeOK, OwnMint, At, Finish, Become, Idle
  <1>4. Binding'
    BY DEF Inv, Binding
  <1> QED BY <1>1, <1>2, <1>3, <1>4

(* What a transaction may write on attempt a, on behalf of order o.        *)
GoodRow(a, row, o) ==
  /\ row \in AttemptRows
  /\ row.order = o /\ row.status # "ABSENT"
  /\ attempts[a].status # "ABSENT" => attempts[a].order = o
  /\ rzpOrder[o] # None /\ row.rzp = rzpOrder[o]
  /\ row.pay # None => /\ payment[row.pay].rzp = row.rzp
                       /\ \A b \in AttemptIds : attempts[b].pay = row.pay => b = a
  /\ row.status = "CAPTURED" =>
       \A b \in AttemptIds : attempts[b].order = o /\ attempts[b].status = "CAPTURED"
                              => b = a
  /\ attempts[a].status = "CAPTURED" => row.status = "CAPTURED"

LEMMA WriteRow ==
  ASSUME Inv, NEW a \in AttemptIds, NEW o \in Orders, NEW row,
         GoodRow(a, row, o), attempts' = [attempts EXCEPT ![a] = row],
         UNCHANGED <<rzpOrder, payment>>
  PROVE  /\ attempts' \in [AttemptIds -> AttemptRows]
         /\ RowsKept /\ RowsOK' /\ UniquePayment' /\ UniqueCapture'
         /\ \A q \in Orders : HasCapture(q) => HasCapture(q)'
         /\ row.status = "CAPTURED" => HasCapture(o)'
  <1>0. /\ attempts \in [AttemptIds -> AttemptRows]
        /\ attempts'[a] = row
        /\ \A b \in AttemptIds : b # a => attempts'[b] = attempts[b]
    BY DEF Inv, TypeOK
  <1>1. attempts' \in [AttemptIds -> AttemptRows]
    BY <1>0 DEF GoodRow
  <1>2. RowsKept
    BY <1>0 DEF RowsKept, GoodRow
  <1>3. RowsOK'
    BY <1>0 DEF Inv, RowsOK, GoodRow
  <1>4. UniquePayment'
    BY <1>0 DEF Inv, UniquePayment, GoodRow
  <1>5. UniqueCapture'
    BY <1>0 DEF Inv, UniqueCapture, GoodRow
  <1>6. \A q \in Orders : HasCapture(q) => HasCapture(q)'
    <2> SUFFICES ASSUME NEW q \in Orders, NEW b \in AttemptIds,
                        attempts[b].order = q, attempts[b].status = "CAPTURED"
                 PROVE  attempts'[b].order = q /\ attempts'[b].status = "CAPTURED"
      BY DEF HasCapture
    <2> QED BY <1>0 DEF GoodRow
  <1>7. row.status = "CAPTURED" => HasCapture(o)'
    BY <1>0 DEF HasCapture, GoodRow
  <1> QED BY <1>1, <1>2, <1>3, <1>4, <1>5, <1>6, <1>7

-----------------------------------------------------------------------------
(* The reading steps and the rollbacks: only the session changes.          *)

LEMMA GiveUp ==
  ASSUME Inv, NEW w \in Workers, Finish(w), UNCHANGED <<db, minted, payment>>,
         UNCHANGED <<txErrors, aged>>
  PROVE  Inv'
  <1>1. txErrors' \in Nat /\ aged' \subseteq Orders
    BY DEF Inv, TypeOK
  <1>2. Idle.step # "associate"
    BY DEF Idle
  <1> QED BY IdleSession, SessionStep, <1>1, <1>2 DEF Finish

LEMMA VerifyReadStep ==
  ASSUME Inv, NEW w \in Workers, NEW p \in Payments, VerifyRead(w, p) PROVE Inv'
  <1>1. PICK o \in Orders :
          /\ rzpOrder[o] = payment[p].rzp
          /\ Become(w, [Idle EXCEPT !.step = "lookup", !.order = o, !.payment = p,
                                    !.seen = status[o]])
    BY DEF VerifyRead
  <1> DEFINE s == [Idle EXCEPT !.step = "lookup", !.order = o, !.payment = p,
                               !.seen = status[o]]
  <1>2. payment[p].rzp # None
    BY DEF VerifyRead, Inv, Binding
  <1>3. s \in Sessions /\ s.step = "lookup" /\ s.order = o /\ s.payment = p
    BY DEF Inv, TypeOK, Sessions, Steps, Idle, OrderStatus, EventStatus
  <1>4. SessionOK(s)
    BY <1>1, <1>2, <1>3 DEF SessionOK, OnPayment
  <1>5. txErrors' \in Nat /\ aged' \subseteq Orders
    BY DEF VerifyRead, Inv, TypeOK
  <1> QED BY <1>1, <1>3, <1>4, <1>5, SessionStep DEF VerifyRead

(* A set of attempt ids has a newest one.                                  *)
LEMMA NewestIn ==
  ASSUME NEW S, S \subseteq AttemptIds, S # {} PROVE Newest(S) \in S
  <1> DEFINE N == MaxWidgets + Cardinality(Payments)
             T == { N - a : a \in S }
             Less == OpToRel(<, Nat)
  <1>1. N \in Nat /\ AttemptIds = 1 .. N
    BY ConstantsAssumption, FS_CardinalityType DEF AttemptIds
  <1> HIDE DEF N
  <1>2. T \subseteq Nat /\ T # {}
    <2>1. \A a \in S : N - a \in Nat
      BY <1>1
    <2>2. PICK a \in S : TRUE
      OBVIOUS
    <2>3. N - a \in T
      BY <2>2
    <2> QED BY <2>1, <2>3
  <1>3. IsWellFoundedOn(Less, Nat)
    BY NatLessThanWellFounded
  <1>4. PICK k \in T : \A j \in T : <<j, k>> \notin Less
    <2> HIDE DEF T, Less
    <2> QED BY <1>2, <1>3, WFMin
  <1>5. \A j \in T : ~ (j < k)
    BY <1>2, <1>4 DEF OpToRel
  <1>6. PICK a \in S : k = N - a
    BY <1>4
  <1>7. \A b \in S : b <= a
    <2> SUFFICES ASSUME NEW b \in S PROVE b <= a
      OBVIOUS
    <2>1. ~ (N - b < N - a)
      BY <1>5, <1>6
    <2> QED BY <2>1, <1>1
  <1> QED BY <1>7 DEF Newest

LEMMA OpenRows ==
  ASSUME Inv, NEW o \in Orders, NEW a \in Open(o)
  PROVE  a \in AttemptIds /\ attempts[a].status # "ABSENT" /\ attempts[a].order = o
  BY DEF Open

(* An attempt that carries the payment a handler works on is an attempt of *)
(* the handler's order.                                                    *)
LEMMA RowsOfPayment ==
  ASSUME Inv, NEW s, OnPayment(s), NEW a \in WithPayment(s.payment)
  PROVE  /\ a \in AttemptIds /\ attempts[a].status # "ABSENT"
         /\ attempts[a].order = s.order
  <1>1. a \in AttemptIds /\ attempts[a].pay = s.payment /\ s.payment \in Payments
    BY DEF WithPayment, OnPayment
  <1>2. s.payment # None
    BY <1>1, ConstantsAssumption
  <1>3. attempts[a].status # "ABSENT"
    BY <1>1, <1>2 DEF Inv, RowsOK, NoAttempt
  <1>4. /\ attempts[a].order \in Orders
        /\ rzpOrder[attempts[a].order] = payment[s.payment].rzp
    BY <1>1, <1>2, <1>3 DEF Inv, RowsOK
  <1>5. attempts[a].order = s.order
    BY <1>4 DEF Inv, Binding, OnPayment
  <1> QED BY <1>1, <1>3, <1>5

LEMMA VerifyLookupStep ==
  ASSUME Inv, NEW w \in Workers, VerifyLookup(w) PROVE Inv'
  <1> DEFINE s == session[w]
  <1>1. s.step = "lookup" /\ OnPayment(s)
    BY DEF VerifyLookup, At, Inv, SessionsOK, SessionOK
  <1>2. s \in Sessions /\ txErrors' = txErrors /\ aged' = aged /\ UNCHANGED <<db, minted, payment>>
    BY DEF VerifyLookup, Inv, TypeOK
  <1>3. CASE Become(w, [s EXCEPT !.step = "find"])
    <2>1. [s EXCEPT !.step = "find"] \in Sessions
      BY <1>2 DEF Sessions, Steps
    <2>2. SessionOK([s EXCEPT !.step = "find"])
      BY <1>1, <1>2 DEF SessionOK, OnPayment, Sessions
    <2>3. txErrors' \in Nat /\ aged' \subseteq Orders /\ [s EXCEPT !.step = "find"].step = "find"
      BY <1>2 DEF Inv, TypeOK, Sessions
    <2> HIDE DEF s
    <2> QED BY <1>2, <1>3, <2>1, <2>2, <2>3, SessionStep
  <1>4. CASE Finish(w)
    BY <1>2, <1>4, GiveUp
  <1>5. ASSUME NEW a \in WithPayment(s.payment),
               Become(w, [s EXCEPT !.step = "verify", !.attempt = a])
        PROVE  Inv'
    <2> DEFINE t == [s EXCEPT !.step = "verify", !.attempt = a]
    <2>1. a \in AttemptIds /\ attempts[a].status # "ABSENT" /\ attempts[a].order = s.order
      BY <1>1, RowsOfPayment
    <2>2. t \in Sessions /\ t.step = "verify" /\ t.attempt = a /\ t.order = s.order
          /\ t.payment = s.payment
      BY <1>2, <2>1 DEF Sessions, Steps
    <2>3. SessionOK(t)
      BY <1>1, <2>1, <2>2 DEF SessionOK, OnPayment, OnAttempt
    <2>4. txErrors' \in Nat /\ aged' \subseteq Orders
      BY <1>2 DEF Inv, TypeOK
    <2> HIDE DEF t
    <2> QED BY <1>2, <1>5, <2>2, <2>3, <2>4, SessionStep DEF t
  <1> QED BY <1>3, <1>4, <1>5 DEF VerifyLookup

LEMMA VerifyFindStep ==
  ASSUME Inv, NEW w \in Workers, VerifyFind(w) PROVE Inv'
  <1> DEFINE s == session[w]
             a == Newest(Open(s.order))
             t == [s EXCEPT !.step = "verify", !.attempt = a]
  <1>1. OnPayment(s) /\ s \in Sessions /\ UNCHANGED <<db, minted, payment, txErrors, aged>>
    BY DEF VerifyFind, At, Inv, TypeOK, SessionsOK, SessionOK
  <1>2. CASE Open(s.order) = {}
    BY <1>1, <1>2, GiveUp DEF VerifyFind
  <1>3. CASE Open(s.order) # {}
    <2>1. a \in Open(s.order)
      BY <1>3, NewestIn DEF Open
    <2>2. a \in AttemptIds /\ attempts[a].status # "ABSENT" /\ attempts[a].order = s.order
      BY <1>1, <2>1, OpenRows DEF OnPayment
    <2>3. Become(w, t)
      BY <1>3 DEF VerifyFind
    <2> HIDE DEF a
    <2>4. t \in Sessions /\ t.step = "verify" /\ t.attempt = a /\ t.order = s.order
          /\ t.payment = s.payment
      BY <1>1, <2>2 DEF Sessions, Steps
    <2>5. SessionOK(t)
      BY <1>1, <2>2, <2>4 DEF SessionOK, OnPayment, OnAttempt
    <2>6. txErrors' \in Nat /\ aged' \subseteq Orders
      BY <1>1 DEF Inv, TypeOK
    <2> HIDE DEF t
    <2> QED BY <1>1, <2>3, <2>4, <2>5, <2>6, SessionStep
  <1> QED BY <1>2, <1>3

LEMMA WebhookTargetStep ==
  ASSUME Inv, NEW w \in Workers, WebhookTarget(w) PROVE Inv'
  <1> DEFINE s == session[w]
             mine == WithPayment(s.payment)
             a == IF mine # {} THEN CHOOSE b \in mine : TRUE
                  ELSE IF Open(s.order) # {} THEN Newest(Open(s.order)) ELSE None
             t == [s EXCEPT !.step = "apply", !.stamp = mine = {}, !.attempt = a]
  <1>1. /\ OnPayment(s) /\ s \in Sessions
        /\ UNCHANGED <<db, minted, payment, txErrors, aged>>
        /\ Become(w, t)
    BY DEF WebhookTarget, At, Inv, TypeOK, SessionsOK, SessionOK
  <1>2. \/ a = None /\ mine = {}
        \/ /\ a \in AttemptIds /\ attempts[a].status # "ABSENT"
           /\ attempts[a].order = s.order
    <2>1. CASE mine # {}
      <3>1. a \in mine
        BY <2>1
      <3> QED BY <1>1, <3>1, RowsOfPayment
    <2>2. CASE mine = {} /\ Open(s.order) # {}
      <3>1. a \in Open(s.order)
        BY <2>2, NewestIn DEF Open
      <3> QED BY <1>1, <3>1, OpenRows DEF OnPayment
    <2> QED BY <2>1, <2>2
  <1> DEFINE stamp == (mine = {})
  <1>3. stamp \in BOOLEAN /\ t = [s EXCEPT !.step = "apply", !.stamp = stamp, !.attempt = a]
        /\ (a = None => stamp)
    <2>1. None \notin AttemptIds
      BY ConstantsAssumption, AttemptIdsAreNumbers
    <2> HIDE DEF a, mine
    <2> QED BY <1>2, <2>1
  <1> HIDE DEF a, stamp, t, mine
  <1>4. t \in Sessions /\ t.step = "apply" /\ t.attempt = a /\ t.order = s.order
        /\ t.payment = s.payment /\ t.stamp = stamp
    BY <1>1, <1>2, <1>3 DEF Sessions, Steps
  <1>5. SessionOK(t)
    BY <1>1, <1>2, <1>3, <1>4 DEF SessionOK, OnPayment, OnAttempt
  <1>6. txErrors' \in Nat /\ aged' \subseteq Orders
    BY <1>1 DEF Inv, TypeOK
  <1> QED BY <1>1, <1>4, <1>5, <1>6, SessionStep

LEMMA ReconcileReadStep ==
  ASSUME Inv, NEW w \in Workers, NEW o \in Orders, ReconcileRead(w, o) PROVE Inv'
  <1>1. UNCHANGED <<db, minted, payment>> /\ txErrors' \in Nat /\ aged' \subseteq Orders
    BY DEF ReconcileRead, Inv, TypeOK
  <1>2. ASSUME NEW p \in TakenOn(o) \ Mismatched, InBatch(o),
               Become(w, [Idle EXCEPT !.step = "settle", !.order = o,
                                      !.payment = p, !.rzp = rzpOrder[o]])
        PROVE  Inv'
    <2> DEFINE t == [Idle EXCEPT !.step = "settle", !.order = o,
                                 !.payment = p, !.rzp = rzpOrder[o]]
    <2>1. t \in Sessions /\ t.step = "settle" /\ t.order = o /\ t.payment = p
          /\ t.rzp = rzpOrder[o]
      BY <1>2 DEF TakenOn, MadeOn, Inv, TypeOK, Sessions, Steps, Idle, OrderStatus, EventStatus
    <2>2. SessionOK(t)
      BY <1>2, <2>1 DEF SessionOK, OnPayment, InBatch, Candidate, TakenOn, MadeOn
    <2> HIDE DEF t
    <2> QED BY <1>1, <1>2, <2>1, <2>2, SessionStep DEF t
  <1>3. ASSUME Become(w, [Idle EXCEPT !.step = "expire", !.order = o]) PROVE Inv'
    <2> DEFINE t == [Idle EXCEPT !.step = "expire", !.order = o]
    <2>1. t \in Sessions /\ t.step = "expire" /\ t.order = o
      BY DEF Sessions, Steps, Idle, OrderStatus, EventStatus
    <2>2. SessionOK(t)
      BY <2>1 DEF SessionOK
    <2> HIDE DEF t
    <2> QED BY <1>1, <1>3, <2>1, <2>2, SessionStep DEF t
  <1> QED BY <1>2, <1>3 DEF ReconcileRead

LEMMA WebhookMissStep ==
  ASSUME Inv, NEW w \in Workers, NEW e \in EventIds, WebhookMiss(w, e)
  PROVE  Inv'
  <1> DEFINE t == [Idle EXCEPT !.step = "report", !.payment = e[2],
                               !.type = e[1], !.result = AfterError(0),
                               !.tries = 1]
  <1>1. UNCHANGED <<db, minted, payment>> /\ txErrors' \in Nat /\ aged' \subseteq Orders
    BY DEF WebhookMiss, Inv, TypeOK
  <1>2. e[1] \in {"captured", "failed"} /\ e[2] \in Payments
    BY DEF EventIds
  <1>3. payment[e[2]].state # "none"
    BY DEF WebhookMiss, Due, Inv, EventsEmitted, Emitted
  <1>4. t \in Sessions /\ t.step = "report" /\ t.payment = e[2]
    BY <1>2 DEF Sessions, Steps, Idle, OrderStatus, EventStatus, AfterError
  <1>5. SessionOK(t)
    BY <1>2, <1>3, <1>4 DEF SessionOK
  <1>6. Become(w, t)
    BY DEF WebhookMiss
  <1> HIDE DEF t
  <1> QED BY <1>1, <1>4, <1>5, <1>6, SessionStep

LEMMA WebhookRollbackStep ==
  ASSUME Inv, NEW w \in Workers, WebhookRollback(w) PROVE Inv'
  <1> DEFINE s == session[w]
  <1>1. /\ s \in Sessions /\ s.payment \in Payments
        /\ payment[s.payment].state # "none"
        /\ UNCHANGED <<db, minted, payment>> /\ txErrors' \in Nat /\ aged' \subseteq Orders
    <2>1. s \in Sessions /\ OnPayment(s)
      BY DEF WebhookRollback, At, Inv, TypeOK, SessionsOK, SessionOK
    <2>2. payment[s.payment].state # "none"
      BY <2>1 DEF OnPayment, Inv, Binding
    <2> QED BY <2>1, <2>2 DEF WebhookRollback, OnPayment, Inv, TypeOK
  <1>2. \E result \in EventStatus, tries \in Nat :
          Become(w, [Idle EXCEPT !.step = "report", !.order = s.order,
                                 !.payment = s.payment, !.type = s.type,
                                 !.result = result, !.tries = tries])
    <2>1. s.tries \in Nat /\ s.tries + 1 \in Nat
      BY <1>1 DEF Sessions
    <2>2. /\ "PROCESSED" \in EventStatus /\ "FAILED" \in EventStatus
          /\ AfterError(s.tries) \in EventStatus
      BY DEF EventStatus, AfterError
    <2> QED BY <2>1, <2>2 DEF WebhookRollback
  <1>3. PICK result \in EventStatus, tries \in Nat :
          Become(w, [Idle EXCEPT !.step = "report", !.order = s.order,
                                 !.payment = s.payment, !.type = s.type,
                                 !.result = result, !.tries = tries])
    BY <1>2
  <1> DEFINE t == [Idle EXCEPT !.step = "report", !.order = s.order,
                               !.payment = s.payment, !.type = s.type,
                               !.result = result, !.tries = tries]
  <1>4. t \in Sessions /\ t.step = "report" /\ t.payment = s.payment
    BY <1>1 DEF Sessions, Steps, Idle, OrderStatus
  <1>5. SessionOK(t)
    BY <1>1, <1>4 DEF SessionOK
  <1> HIDE DEF t
  <1> QED BY <1>1, <1>3, <1>4, <1>5, SessionStep DEF t

LEMMA GrowOldStep ==
  ASSUME Inv, NEW o \in Orders, GrowOld(o) PROVE Inv'
  BY DEF GrowOld, db, Inv, TypeOK, SessionsOK, SessionOK, OnPayment, OnAttempt,
         OwnMint, At, Binding, RowsOK, UniquePayment, UniqueCapture,
         PaidHasCapture, ToldHasCapture, HasCapture, Announced, EventsEmitted

-----------------------------------------------------------------------------
(* The steps on webhook_events, and Razorpay's and its customers' own.     *)

EventRows == [status : EventStatus, attempts : Nat]

LEMMA EventStep ==
  ASSUME Inv, event' \in [EventIds -> EventRows], EventsEmitted',
         UNCHANGED <<status, rzpOrder, minted, attempts, outbox, manual, payment,
                     txErrors, aged, session>>
  PROVE  Inv'
  BY DEF Inv, TypeOK, SessionsOK, SessionOK, OnPayment, OnAttempt, OwnMint, At,
         Binding, RowsOK, UniquePayment, UniqueCapture, PaidHasCapture,
         ToldHasCapture, HasCapture, Announced, EventRows

LEMMA ReceiveWebhookStep ==
  ASSUME Inv, NEW e \in EventIds, ReceiveWebhook(e) PROVE Inv'
  <1>1. event \in [EventIds -> EventRows]
    BY DEF Inv, TypeOK, EventRows
  <1>2. Received(event[e]) \in EventRows
    BY <1>1 DEF Received, EventRows, EventStatus
  <1>3. event' \in [EventIds -> EventRows]
    BY <1>1, <1>2 DEF ReceiveWebhook
  <1>4. EventsEmitted'
    <2>1. payment[e[2]].state # "none"
      BY DEF ReceiveWebhook, Emitted
    <2> QED BY <2>1, <1>1 DEF ReceiveWebhook, Inv, EventsEmitted
  <1> QED BY <1>3, <1>4, EventStep DEF ReceiveWebhook

LEMMA WebhookReadStep ==
  ASSUME Inv, NEW w \in Workers, NEW e \in EventIds, WebhookRead(w, e) PROVE Inv'
  <1> DEFINE known == { o \in Orders : rzpOrder[o] = payment[e[2]].rzp }
  <1>1. event \in [EventIds -> EventRows]
    BY DEF Inv, TypeOK, EventRows
  <1>2. CASE known = {}
    <2>1. event' = [event EXCEPT ![e].status = "IGNORED"] /\ UNCHANGED session
      BY <1>2 DEF WebhookRead
    <2>2. event' \in [EventIds -> EventRows]
      BY <1>1, <2>1 DEF EventRows, EventStatus
    <2>3. EventsEmitted'
      BY <1>1, <2>1 DEF WebhookRead, Due, Inv, EventsEmitted
    <2> QED BY <2>1, <2>2, <2>3, EventStep DEF WebhookRead
  <1>3. CASE known # {}
    <2>1. PICK o \in known :
            Become(w, [Idle EXCEPT !.step = "target", !.order = o,
                                   !.payment = e[2], !.type = e[1],
                                   !.seen = status[o],
                                   !.tries = event[e].attempts])
      BY <1>3 DEF WebhookRead
    <2> DEFINE t == [Idle EXCEPT !.step = "target", !.order = o,
                                 !.payment = e[2], !.type = e[1],
                                 !.seen = status[o],
                                 !.tries = event[e].attempts]
    <2>2. /\ o \in Orders /\ rzpOrder[o] = payment[e[2]].rzp
          /\ e[2] \in Payments /\ e[1] \in {"captured", "failed"}
      BY DEF EventIds
    <2>3. payment[e[2]].state # "none"
      BY <1>3 DEF WebhookRead, Due, Inv, EventsEmitted
    <2>4. payment[e[2]].rzp # None
      BY <2>2, <2>3 DEF Inv, Binding
    <2>5. event[e].attempts \in Nat /\ status[o] \in OrderStatus
      BY <1>1, <2>2 DEF EventRows, Inv, TypeOK
    <2>6. t \in Sessions /\ t.step = "target" /\ t.order = o /\ t.payment = e[2]
      BY <2>2, <2>5 DEF Sessions, Steps, Idle, EventStatus
    <2>7. SessionOK(t)
      BY <2>2, <2>4, <2>6 DEF SessionOK, OnPayment
    <2>8. UNCHANGED <<db, minted, payment>> /\ txErrors' \in Nat /\ aged' \subseteq Orders
      BY <1>3 DEF WebhookRead, db, Inv, TypeOK
    <2> HIDE DEF t
    <2> QED BY <2>1, <2>6, <2>7, <2>8, SessionStep DEF t
  <1> QED BY <1>2, <1>3

LEMMA WebhookReportStep ==
  ASSUME Inv, NEW w \in Workers, WebhookReport(w) PROVE Inv'
  <1> DEFINE s == session[w]
  <1>1. /\ event \in [EventIds -> EventRows] /\ s \in Sessions
        /\ s.payment \in Payments /\ payment[s.payment].state # "none"
    BY DEF WebhookReport, At, Inv, TypeOK, EventRows, SessionsOK, SessionOK
  <1>2. event' \in [EventIds -> EventRows]
    BY <1>1 DEF WebhookReport, EventRows, EventIds, Sessions
  <1>3. RowsKept
    BY DEF WebhookReport, RowsKept
  <1>4. session' \in [Workers -> Sessions] /\ SessionsOK' /\ OwnMint' /\ Binding'
    BY <1>3, CommitFrame DEF WebhookReport
  <1>5. TypeOK'
    BY <1>2, <1>4 DEF WebhookReport, Inv, TypeOK, EventRows
  <1>6. EventsEmitted'
    BY <1>1 DEF WebhookReport, Inv, EventsEmitted, EventIds
  <1>7. /\ RowsOK' /\ UniquePayment' /\ UniqueCapture'
        /\ PaidHasCapture' /\ ToldHasCapture'
    BY DEF WebhookReport, Inv, RowsOK, UniquePayment, UniqueCapture,
           PaidHasCapture, ToldHasCapture, HasCapture, Announced
  <1> QED BY <1>4, <1>5, <1>6, <1>7 DEF Inv

LEMMA CustomerPaysStep ==
  ASSUME Inv, NEW p \in Payments, NEW r \in ProviderOrders, CustomerPays(p, r)
  PROVE  Inv'
  <1>1. payment[p].state = "none" /\ payment[p].rzp = None
    BY DEF CustomerPays, Inv, Binding
  <1>2. PICK outcome \in {"failed", "authorized"} :
          payment' = [payment EXCEPT ![p] = [state |-> outcome, rzp |-> r]]
    BY DEF CustomerPays
  <1>3. /\ payment'[p] = [state |-> outcome, rzp |-> r]
        /\ \A q \in Payments : q # p => payment'[q] = payment[q]
    BY <1>2 DEF Inv, TypeOK
  <1>4. r # None
    BY ConstantsAssumption
  <1>5. PICK a \in AttemptIds : attempts[a].rzp = r
    BY DEF CustomerPays
  <1>6. attempts[a].order \in Orders /\ rzpOrder[attempts[a].order] = r
    BY <1>4, <1>5 DEF Inv, RowsOK, NoAttempt
  <1>7. TypeOK'
    BY <1>2 DEF CustomerPays, Inv, TypeOK, PaymentStates, db
  <1>8. SessionsOK'
    <2> SUFFICES ASSUME NEW w \in Workers PROVE SessionOK(session[w])'
      BY DEF SessionsOK
    <2>1. SessionOK(session[w]) /\ UNCHANGED <<session, rzpOrder, attempts, minted>>
      BY DEF CustomerPays, db, Inv, SessionsOK
    <2>2. OnPayment(session[w]) => session[w].payment # p
      BY <1>1 DEF OnPayment
    <2> QED BY <1>1, <1>3, <2>1, <2>2 DEF SessionOK, OnPayment, OnAttempt
  <1>9. Binding'
    BY <1>3, <1>4, <1>6 DEF CustomerPays, db, Inv, Binding
  <1>10. RowsOK'
    BY <1>1, <1>3 DEF CustomerPays, db, Inv, TypeOK, AttemptRows, RowsOK
  <1>11. EventsEmitted'
    BY <1>3 DEF CustomerPays, db, Inv, EventsEmitted, EventIds
  <1>12. OwnMint' /\ UniquePayment' /\ UniqueCapture' /\ PaidHasCapture' /\ ToldHasCapture'
    BY DEF CustomerPays, db, Inv, OwnMint, At, UniquePayment, UniqueCapture,
           PaidHasCapture, ToldHasCapture, HasCapture, Announced
  <1> QED BY <1>7, <1>8, <1>9, <1>10, <1>11, <1>12 DEF Inv

LEMMA ProviderCapturesStep ==
  ASSUME Inv, NEW p \in Payments, ProviderCaptures(p) PROVE Inv'
  <1>1. /\ payment[p].state # "none"
        /\ payment' \in [Payments -> [state : PaymentStates, rzp : ProviderOrders \cup {None}]]
        /\ payment'[p].state # "none"
        /\ \A q \in Payments : payment'[q].rzp = payment[q].rzp
        /\ \A q \in Payments : q # p => payment'[q] = payment[q]
    <2>1. payment \in [Payments -> [state : PaymentStates, rzp : ProviderOrders \cup {None}]]
      BY DEF Inv, TypeOK
    <2>2. PICK st \in {"captured", "late"} : /\ payment' = [payment EXCEPT ![p].state = st]
                                             /\ payment[p].state # "none"
      BY DEF ProviderCaptures
    <2>3. st \in PaymentStates /\ st # "none"
      BY <2>2 DEF PaymentStates
    <2>4. /\ payment'[p] = [payment[p] EXCEPT !.state = st]
          /\ \A q \in Payments : q # p => payment'[q] = payment[q]
          /\ payment' = [payment EXCEPT ![p] = [payment[p] EXCEPT !.state = st]]
      BY ONLY <2>1, <2>2
    <2>5. /\ [payment[p] EXCEPT !.state = st]
               \in [state : PaymentStates, rzp : ProviderOrders \cup {None}]
          /\ [payment[p] EXCEPT !.state = st].state = st
          /\ [payment[p] EXCEPT !.state = st].rzp = payment[p].rzp
      BY <2>1, <2>3
    <2> QED BY <2>1, <2>2, <2>3, <2>4, <2>5
  <1>2. TypeOK'
    BY <1>1 DEF ProviderCaptures, db, Inv, TypeOK
  <1>3. SessionsOK'
    BY <1>1 DEF ProviderCaptures, db, Inv, SessionsOK, SessionOK, OnPayment, OnAttempt
  <1>4. Binding'
    BY <1>1 DEF ProviderCaptures, db, Inv, Binding
  <1>5. RowsOK'
    BY <1>1 DEF ProviderCaptures, db, Inv, TypeOK, AttemptRows, RowsOK
  <1>6. EventsEmitted'
    BY <1>1 DEF ProviderCaptures, db, Inv, EventsEmitted, EventIds
  <1>7. OwnMint' /\ UniquePayment' /\ UniqueCapture' /\ PaidHasCapture' /\ ToldHasCapture'
    BY DEF ProviderCaptures, db, Inv, OwnMint, At, UniquePayment, UniqueCapture,
           PaidHasCapture, ToldHasCapture, HasCapture, Announced
  <1> QED BY <1>2, <1>3, <1>4, <1>5, <1>6, <1>7 DEF Inv

LEMMA AdminTransitionStep ==
  ASSUME Inv, NEW o \in Orders, NEW to \in AdminTargets, AdminTransition(o, to)
  PROVE  Inv'
  <1>1. /\ status[o] \in OrderStatus
        /\ isTransitionAllowed(status[o], to)
        /\ to \in OrderStatus /\ to # "ORDER_PAID"
    BY ConstantsAssumption DEF AdminTransition, Inv, TypeOK, OrderStatus
  <1>2. /\ status[o] \notin Unpaid => to \notin Unpaid
        /\ status[o] \in Unpaid /\ to \notin Unpaid => to = "PAID"
    BY <1>1, TransitionFacts
  <1>3. TypeOK'
    BY <1>1 DEF AdminTransition, Insert, OutboxKeys, Inv, TypeOK
  <1>4. /\ \A q \in Orders : Announced(q, "ORDER_PAID")' <=> Announced(q, "ORDER_PAID")
        /\ \A q \in Orders : HasCapture(q)' <=> HasCapture(q)
    BY <1>1 DEF AdminTransition, Insert, Announced, HasCapture
  <1>5. PaidHasCapture' /\ ToldHasCapture'
    BY <1>1, <1>2, <1>4 DEF AdminTransition, Inv, TypeOK, PaidHasCapture, ToldHasCapture
  <1>6. SessionsOK'
    BY DEF AdminTransition, Inv, SessionsOK, SessionOK, OnPayment, OnAttempt
  <1>7. /\ OwnMint' /\ Binding' /\ RowsOK' /\ EventsEmitted'
        /\ UniquePayment' /\ UniqueCapture'
    BY DEF AdminTransition, Inv, OwnMint, At, Binding, RowsOK, EventsEmitted,
           UniquePayment, UniqueCapture
  <1> QED BY <1>3, <1>5, <1>6, <1>7 DEF Inv

-----------------------------------------------------------------------------
(* The transactions that write an attempt.                                 *)

(* One that moves orders or inserts ORDER_PAID only beside a captured row. *)
LEMMA Commit ==
  ASSUME Inv, NEW w \in Workers, Finish(w),
         NEW a \in AttemptIds, NEW o \in Orders, NEW row, GoodRow(a, row, o),
         attempts' = [attempts EXCEPT ![a] = row],
         UNCHANGED <<rzpOrder, minted, payment, manual, txErrors, aged>>,
         event' \in [EventIds -> EventRows], EventsEmitted',
         status' \in [Orders -> OrderStatus], outbox' \subseteq OutboxKeys,
         outbox \subseteq outbox',
         \A q \in Orders :
           \/ status'[q] \in Unpaid
           \/ status'[q] = status[q]
           \/ q = o /\ row.status = "CAPTURED" /\ Announced(q, "ORDER_PAID")',
         \A q \in Orders :
           Announced(q, "ORDER_PAID")' =>
             Announced(q, "ORDER_PAID") \/ (q = o /\ row.status = "CAPTURED")
  PROVE  Inv'
  <1>1. /\ attempts' \in [AttemptIds -> AttemptRows]
        /\ RowsKept /\ RowsOK' /\ UniquePayment' /\ UniqueCapture'
        /\ \A q \in Orders : HasCapture(q) => HasCapture(q)'
        /\ row.status = "CAPTURED" => HasCapture(o)'
    BY WriteRow
  <1>2. session' \in [Workers -> Sessions] /\ SessionsOK' /\ OwnMint' /\ Binding'
    BY <1>1, CommitFrame
  <1>3. TypeOK'
    BY <1>1, <1>2 DEF Inv, TypeOK, EventRows
  <1>4. PaidHasCapture'
    BY <1>1 DEF Inv, PaidHasCapture, Announced
  <1>5. ToldHasCapture'
    BY <1>1 DEF Inv, ToldHasCapture
  <1> QED BY <1>1, <1>2, <1>3, <1>4, <1>5 DEF Inv

(* The row of an INSERT.                                                   *)
LEMMA FreeRow ==
  ASSUME Inv, NEW a \in AttemptIds, attempts[a].status = "ABSENT"
  PROVE  attempts[a] = NoAttempt
  BY DEF Inv, RowsOK

LEMMA InitiateOpenStep ==
  ASSUME Inv, NEW w \in Workers, InitiateOpen(w) PROVE Inv'
  <1> DEFINE s == session[w]
             row == [order |-> s.order, rzp |-> s.rzp, status |-> "INITIATED",
                     pay |-> None]
  <1>1. /\ s \in Sessions /\ s.order \in Orders /\ s.rzp # None
        /\ rzpOrder[s.order] = s.rzp
    BY DEF InitiateOpen, At, Inv, TypeOK, SessionsOK, SessionOK
  <1>2. PICK a \in 1 .. MaxWidgets : Free(a) /\ Row(a, s.order, s.rzp, "INITIATED", None)
    BY DEF InitiateOpen
  <1>3. a \in AttemptIds /\ attempts[a].status = "ABSENT"
    BY <1>2 DEF Free
  <1>4. GoodRow(a, row, s.order)
    BY <1>1, <1>3 DEF GoodRow, AttemptRows, AttemptStatus, Sessions
  <1>5. attempts' = [attempts EXCEPT ![a] = row]
    BY <1>2 DEF Row
  <1>6. UNCHANGED <<status, rzpOrder, minted, event, outbox, manual, payment, txErrors, aged>>
        /\ Finish(w)
    BY DEF InitiateOpen
  <1>7. /\ event' \in [EventIds -> EventRows] /\ EventsEmitted'
        /\ status' \in [Orders -> OrderStatus] /\ outbox' \subseteq OutboxKeys
    BY <1>6 DEF Inv, TypeOK, EventRows, EventsEmitted
  <1>8. \A q \in Orders : Announced(q, "ORDER_PAID")' => Announced(q, "ORDER_PAID")
    BY <1>6 DEF Announced
  <1> HIDE DEF row, s
  <1> QED BY <1>1, <1>3, <1>4, <1>5, <1>6, <1>7, <1>8, Commit

LEMMA VerifyCommitStep ==
  ASSUME Inv, NEW w \in Workers, VerifyCommit(w) PROVE Inv'
  <1> DEFINE s == session[w]
             a == s.attempt
             o == s.order
             row == [attempts[a] EXCEPT !.status = "CAPTURED", !.pay = s.payment]
  <1>1. OnPayment(s) /\ OnAttempt(s) /\ s \in Sessions
    BY DEF VerifyCommit, At, Inv, TypeOK, SessionsOK, SessionOK
  <1>2. a \in AttemptIds /\ o \in Orders /\ s.payment \in Payments /\ s.payment # None
    BY <1>1, ConstantsAssumption DEF OnPayment, OnAttempt
  <1>3. /\ attempts \in [AttemptIds -> AttemptRows] /\ attempts[a] \in AttemptRows
        /\ attempts[a].status # "ABSENT" /\ attempts[a].order = o
        /\ attempts[a].rzp = rzpOrder[o]
    BY <1>1, <1>2 DEF Inv, TypeOK, OnAttempt, RowsOK
  <1>4. attempts' = [attempts EXCEPT ![a] = row]
    BY <1>3 DEF VerifyCommit
  <1>5. /\ row \in AttemptRows /\ row.status = "CAPTURED" /\ row.order = o
        /\ row.rzp = rzpOrder[o] /\ row.pay = s.payment
    BY <1>2, <1>3 DEF AttemptRows, AttemptStatus
  <1>6. /\ \A b \in AttemptIds : attempts[b].pay = s.payment => b = a
        /\ \A b \in AttemptIds : attempts[b].order = o /\ attempts[b].status = "CAPTURED"
                                  => b = a
    BY DEF VerifyCommit, VerifyCanCommit, PaymentIdTaken, CapturedElsewhere,
           WithPayment, CapturedOf
  <1>7. GoodRow(a, row, o)
    BY <1>1, <1>3, <1>5, <1>6 DEF GoodRow, OnPayment
  <1>8. /\ UNCHANGED <<rzpOrder, minted, payment, manual, txErrors, aged, event>>
        /\ Finish(w)
        /\ outbox' = outbox \cup {<<o, "ORDER_PAID">>}
        /\ status' = IF CasSucceeds(o, s.seen) THEN [status EXCEPT ![o] = "PAID"]
                     ELSE status
    BY DEF VerifyCommit, Insert, Transition
  <1>9. /\ event' \in [EventIds -> EventRows] /\ EventsEmitted'
        /\ status' \in [Orders -> OrderStatus] /\ outbox' \subseteq OutboxKeys
        /\ \A q \in Orders : status'[q] = status[q] \/ q = o
    BY <1>2, <1>8 DEF Inv, TypeOK, EventRows, EventsEmitted, OutboxKeys, OrderStatus
  <1>10. \A q \in Orders :
           /\ q = o => Announced(q, "ORDER_PAID")'
           /\ q # o /\ Announced(q, "ORDER_PAID")' => Announced(q, "ORDER_PAID")
    BY <1>8 DEF Announced
  <1> HIDE DEF row, o, a, s
  <1> QED BY <1>2, <1>4, <1>5, <1>7, <1>8, <1>9, <1>10, Commit

(* The attempt a webhook writes is of its order or is inserted, and then   *)
(* it is stamped with the payment.                                         *)
LEMMA WebhookRow ==
  ASSUME Inv, NEW s \in Sessions, OnPayment(s),
         OnAttempt(s) \/ (s.attempt = None /\ s.stamp),
         NEW a \in AttemptIds, IsTarget(s, a), ~ Mismatch(s), ~ UniqueViolation(s, a)
  PROVE  /\ GoodRow(a, Applied(s, a), s.order)
         /\ Wins("captured", a) /\ s.type = "captured" => Applied(s, a).status = "CAPTURED"
  <1> DEFINE o == s.order
             row == Applied(s, a)
  <1>1. /\ o \in Orders /\ s.payment \in Payments /\ s.payment # None
        /\ payment[s.payment].rzp = rzpOrder[o] /\ rzpOrder[o] # None
        /\ rzpOrder[o] \in ProviderOrders \cup {None}
        /\ s.type \in {"captured", "failed"} /\ attempts[a] \in AttemptRows
    BY ConstantsAssumption DEF OnPayment, Sessions, Inv, TypeOK
  <1>2. \/ attempts[a].status = "ABSENT" /\ s.stamp /\ Wins(s.type, a)
        \/ attempts[a].status # "ABSENT" /\ attempts[a].order = o
    <2>1. CASE s.attempt = None
      <3>1. s.attempt \notin AttemptIds
        BY <2>1, ConstantsAssumption, AttemptIdsAreNumbers
      <3> QED BY <2>1, <3>1 DEF IsTarget, Free, OnAttempt, Wins
    <2>2. CASE s.attempt # None
      BY <2>2 DEF IsTarget, OnAttempt
    <2> QED BY <2>1, <2>2
  <1>3. s.stamp \/ Wins(s.type, a) =>
          \A b \in AttemptIds : attempts[b].pay = s.payment => b = a
    BY DEF UniqueViolation, StampConflict, PaymentIdTaken, WithPayment
  <1>4. s.type = "captured" /\ Wins(s.type, a) =>
          \A b \in AttemptIds : attempts[b].order = o /\ attempts[b].status = "CAPTURED"
                                 => b = a
    BY DEF UniqueViolation, CapturedElsewhere, CapturedOf
  <1>5. /\ row.order = o /\ row.rzp = rzpOrder[o]
        /\ row.status = IF Wins(s.type, a)
                        THEN IF s.type = "captured" THEN "CAPTURED" ELSE "FAILED"
                        ELSE attempts[a].status
        /\ row.pay = IF s.stamp \/ Wins(s.type, a) THEN s.payment ELSE attempts[a].pay
    BY <1>1 DEF Applied
  <1>6. row \in AttemptRows
    BY <1>1 DEF Applied, AttemptRows, AttemptStatus
  <1>7. row.pay # None => /\ payment[row.pay].rzp = row.rzp
                          /\ \A b \in AttemptIds : attempts[b].pay = row.pay => b = a
    <2>1. CASE s.stamp \/ Wins(s.type, a)
      BY <2>1, <1>1, <1>3, <1>5
    <2>2. CASE ~ (s.stamp \/ Wins(s.type, a))
      BY <2>2, <1>2, <1>5 DEF Inv, RowsOK, UniquePayment
    <2> QED BY <2>1, <2>2
  <1>8. row.status = "CAPTURED" =>
          \A b \in AttemptIds : attempts[b].order = o /\ attempts[b].status = "CAPTURED"
                                 => b = a
    <2>1. CASE Wins(s.type, a)
      BY <2>1, <1>1, <1>4, <1>5
    <2>2. CASE ~ Wins(s.type, a)
      BY <2>2, <1>2, <1>5 DEF Inv, UniqueCapture
    <2> QED BY <2>1, <2>2
  <1>9. /\ row.status # "ABSENT"
        /\ attempts[a].status = "CAPTURED" => row.status = "CAPTURED"
    BY <1>1, <1>2, <1>5 DEF Wins
  <1> HIDE DEF row
  <1> QED BY <1>1, <1>2, <1>5, <1>6, <1>7, <1>8, <1>9 DEF GoodRow, row

LEMMA WebhookCommitStep ==
  ASSUME Inv, NEW w \in Workers, WebhookCommit(w) PROVE Inv'
  <1> DEFINE s == session[w]
             o == s.order
  <1>1. /\ s \in Sessions /\ OnPayment(s)
        /\ OnAttempt(s) \/ (s.attempt = None /\ s.stamp)
    BY DEF WebhookCommit, At, Inv, TypeOK, SessionsOK, SessionOK
  <1>2. PICK a \in AttemptIds :
          /\ IsTarget(s, a)
          /\ ~ Mismatch(s) /\ ~ UniqueViolation(s, a) /\ ~ IllegalTransition(s, a)
          /\ attempts' = [attempts EXCEPT ![a] = Applied(s, a)]
          /\ IF Moves(s, a)
             THEN /\ status' = [status EXCEPT ![o] = Goal(s.type)]
                  /\ Insert(o, Key(s.type))
             ELSE UNCHANGED <<status, outbox>>
    BY DEF WebhookCommit
  <1>3. /\ GoodRow(a, Applied(s, a), o)
        /\ Wins("captured", a) /\ s.type = "captured" => Applied(s, a).status = "CAPTURED"
    BY <1>1, <1>2, WebhookRow
  <1>4. /\ UNCHANGED <<rzpOrder, minted, manual, payment, txErrors, aged>> /\ Finish(w)
        /\ event' = [event EXCEPT ![<<s.type, s.payment>>].status = "PROCESSED"]
    BY DEF WebhookCommit
  <1>5. /\ s.type \in {"captured", "failed"} /\ s.payment \in Payments /\ o \in Orders
        /\ payment[s.payment].state # "none"
    BY <1>1 DEF Sessions, OnPayment, Inv, Binding
  <1>6. event' \in [EventIds -> EventRows] /\ EventsEmitted'
    <2>1. event \in [EventIds -> EventRows]
      BY DEF Inv, TypeOK, EventRows
    <2>2. event' \in [EventIds -> EventRows]
      BY <1>4, <2>1 DEF EventRows, EventStatus
    <2>3. EventsEmitted'
      BY <1>4, <1>5, <2>1 DEF Inv, EventsEmitted, EventIds
    <2> QED BY <2>2, <2>3
  <1>7. CASE Moves(s, a)
    <2>1. /\ status' = [status EXCEPT ![o] = Goal(s.type)]
          /\ outbox' = outbox \cup {<<o, Key(s.type)>>}
          /\ Wins(s.type, a)
      BY <1>2, <1>7 DEF Insert, Moves
    <2>2. /\ status' \in [Orders -> OrderStatus] /\ outbox' \subseteq OutboxKeys
          /\ \A q \in Orders : q # o => status'[q] = status[q]
          /\ status'[o] = Goal(s.type)
      BY <1>5, <2>1 DEF Inv, TypeOK, Goal, Key, OrderStatus, OutboxKeys
    <2>3. CASE s.type = "captured"
      <3>1. \A q \in Orders : Announced(q, "ORDER_PAID")' <=>
                               Announced(q, "ORDER_PAID") \/ q = o
        BY <2>1, <2>3 DEF Key, Announced
      <3> HIDE DEF o, s
      <3> QED BY <1>2, <1>3, <1>4, <1>5, <1>6, <2>1, <2>2, <2>3, <3>1, Commit
    <2>4. CASE s.type = "failed"
      <3>1. \A q \in Orders : Announced(q, "ORDER_PAID")' => Announced(q, "ORDER_PAID")
        BY <2>1, <2>4 DEF Key, Announced
      <3>2. status'[o] \in Unpaid
        BY <2>2, <2>4 DEF Goal, Unpaid
      <3> HIDE DEF o, s
      <3> QED BY <1>2, <1>3, <1>4, <1>5, <1>6, <2>1, <2>2, <3>1, <3>2, Commit
    <2> QED BY <1>5, <2>3, <2>4
  <1>8. CASE ~ Moves(s, a)
    <2>1. UNCHANGED <<status, outbox>>
      BY <1>2, <1>8
    <2>2. status' \in [Orders -> OrderStatus] /\ outbox' \subseteq OutboxKeys
      BY <2>1 DEF Inv, TypeOK
    <2>3. \A q \in Orders : Announced(q, "ORDER_PAID")' => Announced(q, "ORDER_PAID")
      BY <2>1 DEF Announced
    <2> HIDE DEF o, s
    <2> QED BY <1>2, <1>3, <1>4, <1>5, <1>6, <2>1, <2>2, <2>3, Commit
  <1> QED BY <1>7, <1>8

LEMMA ReconcileSettleStep ==
  ASSUME Inv, NEW w \in Workers, ReconcileSettle(w) PROVE Inv'
  <1> DEFINE s == session[w]
             o == s.order
             row == [order |-> o, rzp |-> s.rzp, status |-> "CAPTURED",
                     pay |-> s.payment]
  <1>1. /\ s \in Sessions /\ OnPayment(s) /\ s.rzp = rzpOrder[o]
    BY DEF ReconcileSettle, At, Inv, TypeOK, SessionsOK, SessionOK
  <1>2. PICK a \in AttemptIds :
          /\ IF Reusable(s) # {} THEN a = Newest(Reusable(s)) ELSE Free(a)
          /\ IF StillOwed(o) /\ ~ PaymentIdTaken(a, s.payment)
                             /\ ~ Announced(o, "ORDER_PAID")
             THEN /\ Row(a, o, s.rzp, "CAPTURED", s.payment)
                  /\ status' = [status EXCEPT ![o] = "PAID"]
                  /\ Insert(o, "ORDER_PAID")
             ELSE UNCHANGED <<attempts, status, outbox>>
    BY DEF ReconcileSettle
  <1>3. /\ UNCHANGED <<rzpOrder, minted, event, manual, payment, txErrors, aged>>
        /\ Finish(w)
    BY DEF ReconcileSettle
  <1>4. /\ o \in Orders /\ s.payment \in Payments /\ s.payment # None
        /\ payment[s.payment].rzp = rzpOrder[o] /\ rzpOrder[o] # None
        /\ event' \in [EventIds -> EventRows] /\ EventsEmitted'
    BY <1>1, <1>3, ConstantsAssumption
       DEF OnPayment, Inv, TypeOK, EventRows, EventsEmitted
  <1>5. CASE StillOwed(o) /\ ~ PaymentIdTaken(a, s.payment)
                          /\ ~ Announced(o, "ORDER_PAID")
    <2>1. attempts[a].status # "ABSENT" => attempts[a].order = o
      <3>1. CASE Reusable(s) # {}
        <4>1. a \in Reusable(s)
          BY <1>2, <3>1, NewestIn DEF Reusable
        <4> QED BY <4>1 DEF Reusable
      <3>2. CASE Reusable(s) = {}
        BY <1>2, <3>2 DEF Free
      <3> QED BY <3>1, <3>2
    <2>2. \A b \in AttemptIds : attempts[b].pay = s.payment => b = a
      BY <1>5 DEF PaymentIdTaken, WithPayment
    <2>3. \A b \in AttemptIds : ~ (attempts[b].order = o /\ attempts[b].status = "CAPTURED")
      BY <1>5 DEF StillOwed, CapturedOf
    <2>4. row \in AttemptRows /\ row.order = o /\ row.rzp = rzpOrder[o]
          /\ row.status = "CAPTURED" /\ row.pay = s.payment
      BY <1>1, <1>4 DEF AttemptRows, AttemptStatus, Sessions
    <2>5. GoodRow(a, row, o)
      <3> HIDE DEF row, o
      <3> QED BY <1>4, <2>1, <2>2, <2>3, <2>4 DEF GoodRow
    <2>6. /\ attempts' = [attempts EXCEPT ![a] = row]
          /\ status' = [status EXCEPT ![o] = "PAID"]
          /\ outbox' = outbox \cup {<<o, "ORDER_PAID">>}
      BY <1>2, <1>5 DEF Row, Insert
    <2>7. /\ status' \in [Orders -> OrderStatus] /\ outbox' \subseteq OutboxKeys
          /\ \A q \in Orders : q # o => status'[q] = status[q]
          /\ \A q \in Orders : Announced(q, "ORDER_PAID")' <=>
                                Announced(q, "ORDER_PAID") \/ q = o
      BY <1>4, <2>6 DEF Inv, TypeOK, OrderStatus, OutboxKeys, Announced
    <2> HIDE DEF row, o, s
    <2>8. /\ outbox \subseteq outbox'
          /\ \A q \in Orders :
               \/ status'[q] \in Unpaid
               \/ status'[q] = status[q]
               \/ q = o /\ row.status = "CAPTURED" /\ Announced(q, "ORDER_PAID")'
      BY <2>4, <2>6, <2>7
    <2>9. \A q \in Orders : Announced(q, "ORDER_PAID")' =>
            Announced(q, "ORDER_PAID") \/ (q = o /\ row.status = "CAPTURED")
      BY <2>4, <2>7
    <2> QED BY <1>3, <1>4, <2>5, <2>6, <2>7, <2>8, <2>9, Commit
  <1>6. CASE UNCHANGED <<attempts, status, outbox>>
    BY <1>3, <1>6, GiveUp DEF db
  <1> QED BY <1>2, <1>5, <1>6

LEMMA ReconcileExpireStep ==
  ASSUME Inv, NEW w \in Workers, ReconcileExpire(w) PROVE Inv'
  <1> DEFINE s == session[w]
             o == s.order
             Closed(b) == IF attempts[b].order = o /\ attempts[b].status = "INITIATED"
                          THEN [attempts[b] EXCEPT !.status = "ABANDONED"]
                          ELSE attempts[b]
  <1>1. /\ UNCHANGED <<rzpOrder, minted, event, manual, payment, txErrors, aged>>
        /\ Finish(w) /\ o \in Orders
    BY DEF ReconcileExpire, At, Inv, SessionsOK, SessionOK
  <1>2. CASE /\ attempts' = [b \in AttemptIds |-> Closed(b)]
             /\ status' = [status EXCEPT ![o] = "PAYMENT_FAILED"]
             /\ Insert(o, "PAYMENT_FAILED")
    <2>1. /\ attempts' \in [AttemptIds -> AttemptRows]
          /\ \A b \in AttemptIds :
               /\ attempts'[b].order = attempts[b].order
               /\ attempts'[b].rzp = attempts[b].rzp
               /\ attempts'[b].pay = attempts[b].pay
               /\ \/ attempts'[b] = attempts[b]
                  \/ attempts[b].status = "INITIATED" /\ attempts'[b].status = "ABANDONED"
      BY <1>2 DEF Inv, TypeOK, AttemptRows, AttemptStatus
    <2>2. RowsKept /\ \A q \in Orders : HasCapture(q) <=> HasCapture(q)'
      BY <2>1 DEF RowsKept, HasCapture
    <2>3. RowsOK' /\ UniquePayment' /\ UniqueCapture'
      BY <1>1, <2>1 DEF Inv, RowsOK, UniquePayment, UniqueCapture
    <2>4. session' \in [Workers -> Sessions] /\ SessionsOK' /\ OwnMint' /\ Binding'
      BY <1>1, <2>2, CommitFrame
    <2>5. /\ status' \in [Orders -> OrderStatus] /\ outbox' \subseteq OutboxKeys
          /\ \A q \in Orders : status'[q] \in Unpaid \/ status'[q] = status[q]
          /\ \A q \in Orders : Announced(q, "ORDER_PAID")' <=> Announced(q, "ORDER_PAID")
      BY <1>1, <1>2 DEF Inv, TypeOK, OrderStatus, OutboxKeys, Announced, Insert, Unpaid
    <2>6. TypeOK'
      BY <1>1, <2>1, <2>4, <2>5 DEF Inv, TypeOK
    <2>7. PaidHasCapture' /\ ToldHasCapture' /\ EventsEmitted'
      BY <1>1, <2>2, <2>5 DEF Inv, PaidHasCapture, ToldHasCapture, EventsEmitted
    <2> QED BY <2>3, <2>4, <2>6, <2>7 DEF Inv
  <1>3. CASE UNCHANGED <<attempts, status, outbox>>
    BY <1>1, <1>3, GiveUp DEF db
  <1> QED BY <1>2, <1>3 DEF ReconcileExpire

-----------------------------------------------------------------------------
(* initiatePayment's Razorpay orders.                                      *)

LEMMA InitiateReadStep ==
  ASSUME Inv, NEW w \in Workers, NEW o \in Orders, InitiateRead(w, o) PROVE Inv'
  <1>1. /\ UNCHANGED <<rzpOrder, attempts, event, outbox, manual, payment, txErrors, aged>>
        /\ status' = [status EXCEPT ![o] = "PENDING_PAYMENT"]
    BY DEF InitiateRead
  <1>2. \E t \in Sessions :
          /\ Become(w, t)
          /\ \/ UNCHANGED minted /\ t.step = "open" /\ SessionOK(t)
             \/ /\ t.step = "associate" /\ t.order = o
                /\ t.rzp \in ProviderOrders \ minted
                /\ minted' = minted \cup {t.rzp}
    <2>1. CASE rzpOrder[o] # None
      <3> DEFINE t == [Idle EXCEPT !.step = "open", !.order = o, !.rzp = rzpOrder[o]]
      <3>1. t \in Sessions /\ t.step = "open" /\ t.order = o /\ t.rzp = rzpOrder[o]
        BY DEF Inv, TypeOK, Sessions, Steps, Idle, OrderStatus, EventStatus
      <3>2. Become(w, t) /\ UNCHANGED minted
        BY <2>1 DEF InitiateRead
      <3>3. SessionOK(t)
        BY <2>1, <3>1 DEF SessionOK
      <3> HIDE DEF t
      <3> QED BY <3>1, <3>2, <3>3
    <2>2. CASE rzpOrder[o] = None
      <3>1. PICK r \in ProviderOrders \ minted :
              /\ minted' = minted \cup {r}
              /\ Become(w, [Idle EXCEPT !.step = "associate", !.order = o, !.rzp = r])
        BY <2>2 DEF InitiateRead
      <3> DEFINE t == [Idle EXCEPT !.step = "associate", !.order = o, !.rzp = r]
      <3>2. t \in Sessions /\ t.step = "associate" /\ t.order = o /\ t.rzp = r
        BY DEF Sessions, Steps, Idle, OrderStatus, EventStatus
      <3>3. Become(w, t)
        BY <3>1
      <3> HIDE DEF t
      <3> QED BY <3>1, <3>2, <3>3
    <2> QED BY <2>1, <2>2
  <1>3. PICK t \in Sessions :
          /\ Become(w, t)
          /\ \/ UNCHANGED minted /\ t.step = "open" /\ SessionOK(t)
             \/ /\ t.step = "associate" /\ t.order = o
                /\ t.rzp \in ProviderOrders \ minted
                /\ minted' = minted \cup {t.rzp}
    BY <1>2
  <1>4. /\ session' \in [Workers -> Sessions] /\ session'[w] = t
        /\ \A v \in Workers : v # w => session'[v] = session[v]
        /\ minted \subseteq minted' /\ minted' \subseteq ProviderOrders
    BY <1>3 DEF Become, Inv, TypeOK
  <1>5. TypeOK'
    BY <1>1, <1>4 DEF Inv, TypeOK, OrderStatus
  <1>6. \A q \in Orders : rzpOrder[q] # None => rzpOrder[q] \in minted
    BY DEF Inv, Binding
  <1>7. SessionsOK'
    <2> SUFFICES ASSUME NEW v \in Workers PROVE SessionOK(session[v])'
      BY DEF SessionsOK
    <2>1. CASE v # w
      <3>1. session'[v] = session[v] /\ SessionOK(session[v])
        BY <1>4, <2>1 DEF Inv, SessionsOK
      <3> QED BY <1>1, <1>4, <3>1 DEF SessionOK, OnPayment, OnAttempt
    <2>2. CASE v = w
      <3>1. CASE t.step = "open" /\ SessionOK(t)
        BY <1>1, <1>4, <2>2, <3>1 DEF SessionOK
      <3>2. CASE /\ t.step = "associate" /\ t.order = o
                 /\ t.rzp \in ProviderOrders \ minted
                 /\ minted' = minted \cup {t.rzp}
        <4>1. \A q \in Orders : rzpOrder[q] # t.rzp
          BY <1>6, <3>2, ConstantsAssumption
        <4> QED BY <1>1, <1>4, <2>2, <3>2, <4>1 DEF SessionOK
      <3> QED BY <1>3, <3>1, <3>2
    <2> QED BY <2>1, <2>2
  <1>8. OwnMint'
    <2> SUFFICES ASSUME NEW u \in Workers, NEW v \in Workers,
                        session'[u].step = "associate", session'[v].step = "associate",
                        session'[u].rzp = session'[v].rzp
                 PROVE  u = v
      BY DEF OwnMint, At
    <2>1. \A x \in Workers : x # w /\ session'[x].step = "associate" =>
                              session'[x].rzp \in minted
      BY <1>4 DEF Inv, SessionsOK, SessionOK
    <2>2. CASE u # w /\ v # w
      BY <1>4, <2>2 DEF Inv, OwnMint, At
    <2>3. CASE u = w \/ v = w
      BY <1>3, <1>4, <2>1, <2>3
    <2> QED BY <2>2, <2>3
  <1>9. Binding' /\ RowsOK' /\ EventsEmitted' /\ UniquePayment' /\ UniqueCapture'
    BY <1>1, <1>4 DEF Inv, Binding, RowsOK, EventsEmitted, UniquePayment, UniqueCapture
  <1>10. PaidHasCapture' /\ ToldHasCapture'
    BY <1>1 DEF Inv, TypeOK, PaidHasCapture, ToldHasCapture, HasCapture, Announced, Unpaid
  <1> QED BY <1>5, <1>7, <1>8, <1>9, <1>10 DEF Inv

LEMMA InitiateAssociateStep ==
  ASSUME Inv, NEW w \in Workers, InitiateAssociate(w) PROVE Inv'
  <1> DEFINE s == session[w]
             r == Associated(s.order, s.rzp)
             t == [s EXCEPT !.step = "open", !.rzp = r]
  <1>1. /\ UNCHANGED <<status, minted, attempts, event, outbox, manual, payment, txErrors, aged>>
        /\ rzpOrder' = [rzpOrder EXCEPT ![s.order] = r]
        /\ Become(w, t) /\ s.step = "associate"
    BY DEF InitiateAssociate, At
  <1>2. /\ s \in Sessions /\ s.order \in Orders /\ s.rzp \in minted
        /\ \A o \in Orders : rzpOrder[o] # s.rzp
    BY <1>1 DEF Inv, TypeOK, SessionsOK, SessionOK
  <1>3. /\ r \in ProviderOrders /\ r \in minted /\ r # None
        /\ r = rzpOrder[s.order] \/ (rzpOrder[s.order] = None /\ r = s.rzp)
    BY <1>2, ConstantsAssumption DEF Associated, Inv, TypeOK, Binding
  <1>4. t \in Sessions /\ t.step = "open" /\ t.order = s.order /\ t.rzp = r
    BY <1>2, <1>3 DEF Sessions, Steps
  <1>5. /\ session' \in [Workers -> Sessions] /\ session'[w] = t
        /\ \A v \in Workers : v # w => session'[v] = session[v]
        /\ rzpOrder' \in [Orders -> ProviderOrders \cup {None}]
        /\ rzpOrder'[s.order] = r
        /\ \A o \in Orders : o # s.order => rzpOrder'[o] = rzpOrder[o]
    BY <1>1, <1>2, <1>3, <1>4 DEF Become, Inv, TypeOK
  <1> HIDE DEF r, t
  <1>6. \A o \in Orders : rzpOrder[o] # None => rzpOrder'[o] = rzpOrder[o]
    BY <1>3, <1>5
  <1>7. TypeOK'
    BY <1>1, <1>5 DEF Inv, TypeOK
  <1>8. SessionsOK'
    <2> SUFFICES ASSUME NEW v \in Workers PROVE SessionOK(session[v])'
      BY DEF SessionsOK
    <2>1. CASE v = w
      BY <1>2, <1>3, <1>4, <1>5, <2>1 DEF SessionOK
    <2>2. CASE v # w
      <3>1. session'[v] = session[v] /\ SessionOK(session[v])
        BY <1>5, <2>2 DEF Inv, SessionsOK
      <3>2. session[v].step = "associate" => \A o \in Orders : rzpOrder'[o] # session[v].rzp
        <4> SUFFICES ASSUME session[v].step = "associate", NEW o \in Orders
                     PROVE  rzpOrder'[o] # session[v].rzp
          OBVIOUS
        <4>1. session[v].rzp # s.rzp
          BY <1>1, <2>2 DEF Inv, OwnMint, At
        <4>2. rzpOrder[o] # session[v].rzp
          BY <3>1 DEF SessionOK
        <4> QED BY <1>2, <1>3, <1>5, <4>1, <4>2
      <3> QED BY <1>1, <1>6, <3>1, <3>2 DEF SessionOK, OnPayment, OnAttempt
    <2> QED BY <2>1, <2>2
  <1>9. OwnMint'
    BY <1>4, <1>5 DEF Inv, OwnMint, At
  <1>10. Binding'
    <2>1. \A o, q \in Orders : rzpOrder'[o] = rzpOrder'[q] /\ rzpOrder'[o] # None => o = q
      BY <1>2, <1>3, <1>5 DEF Inv, Binding
    <2>2. \A o \in Orders : rzpOrder'[o] # None => rzpOrder'[o] \in minted'
      BY <1>1, <1>3, <1>5 DEF Inv, Binding
    <2>3. \A p \in Payments : payment'[p].state # "none" =>
            \E o \in Orders : rzpOrder'[o] # None /\ rzpOrder'[o] = payment'[p].rzp
      BY <1>1, <1>6 DEF Inv, Binding
    <2> QED BY <1>1, <2>1, <2>2, <2>3 DEF Inv, Binding
  <1>11. RowsOK'
    BY <1>1, <1>6 DEF Inv, RowsOK
  <1>12. /\ EventsEmitted' /\ UniquePayment' /\ UniqueCapture'
         /\ PaidHasCapture' /\ ToldHasCapture'
    BY <1>1 DEF Inv, EventsEmitted, UniquePayment, UniqueCapture, PaidHasCapture,
                ToldHasCapture, HasCapture, Announced
  <1> QED BY <1>7, <1>8, <1>9, <1>10, <1>11, <1>12 DEF Inv

-----------------------------------------------------------------------------
(* The invariant is inductive.                                             *)

LEMMA InitInv == Init => Inv
  <1> SUFFICES ASSUME Init PROVE Inv
    OBVIOUS
  <1>1. TypeOK
    BY ConstantsAssumption, IdleSession
       DEF Init, TypeOK, OrderStatus, AttemptRows, AttemptStatus, NoAttempt,
           EventStatus, PaymentStates
  <1>2. SessionsOK /\ OwnMint
    BY IdleSession DEF Init, SessionsOK, OwnMint, At, Idle
  <1>3. Binding /\ RowsOK /\ EventsEmitted
    BY DEF Init, Binding, RowsOK, NoAttempt, EventsEmitted
  <1>4. UniquePayment /\ UniqueCapture
    BY DEF Init, UniquePayment, UniqueCapture, NoAttempt
  <1>5. PaidHasCapture /\ ToldHasCapture
    BY DEF Init, PaidHasCapture, ToldHasCapture, Announced, Unpaid
  <1> QED BY <1>1, <1>2, <1>3, <1>4, <1>5 DEF Inv

LEMMA HandlerStep ==
  ASSUME Inv, NEW w \in Workers, Handler(w) PROVE Inv'
  <1>1. ASSUME NEW o \in Orders, InitiateRead(w, o) PROVE Inv'
    BY <1>1, InitiateReadStep
  <1>2. ASSUME NEW o \in Orders, ReconcileRead(w, o) PROVE Inv'
    BY <1>2, ReconcileReadStep
  <1>3. CASE InitiateAssociate(w)
    BY <1>3, InitiateAssociateStep
  <1>4. CASE InitiateOpen(w)
    BY <1>4, InitiateOpenStep
  <1>5. ASSUME NEW p \in Payments, VerifyRead(w, p) PROVE Inv'
    BY <1>5, VerifyReadStep
  <1>6. CASE VerifyLookup(w)
    BY <1>6, VerifyLookupStep
  <1>7. CASE VerifyFind(w)
    BY <1>7, VerifyFindStep
  <1>8. CASE VerifyCommit(w)
    BY <1>8, VerifyCommitStep
  <1>9. CASE VerifyRollback(w)
    BY <1>9, GiveUp DEF VerifyRollback
  <1>10. ASSUME NEW e \in EventIds, WebhookRead(w, e) PROVE Inv'
    BY <1>10, WebhookReadStep
  <1>11. CASE WebhookTarget(w)
    BY <1>11, WebhookTargetStep
  <1>12. CASE WebhookCommit(w)
    BY <1>12, WebhookCommitStep
  <1>13. CASE WebhookRollback(w)
    BY <1>13, WebhookRollbackStep
  <1>14. CASE WebhookReport(w)
    BY <1>14, WebhookReportStep
  <1>15. CASE ReconcileSettle(w)
    BY <1>15, ReconcileSettleStep
  <1>16. CASE ReconcileExpire(w)
    BY <1>16, ReconcileExpireStep
  <1>17. CASE Abandon(w)
    BY <1>17, GiveUp DEF Abandon
  <1>18. ASSUME NEW e \in EventIds, WebhookMiss(w, e) PROVE Inv'
    BY <1>18, WebhookMissStep
  <1> QED BY <1>1, <1>2, <1>3, <1>4, <1>5, <1>6, <1>7, <1>8, <1>9, <1>10, <1>11,
             <1>12, <1>13, <1>14, <1>15, <1>16, <1>17, <1>18
         DEF Handler

LEMMA InvNext == Inv /\ [Next]_vars => Inv'
  <1> SUFFICES ASSUME Inv, [Next]_vars PROVE Inv'
    OBVIOUS
  <1>1. ASSUME NEW w \in Workers, Handler(w) PROVE Inv'
    BY <1>1, HandlerStep
  <1>2. ASSUME NEW o \in Orders, NEW to \in AdminTargets, AdminTransition(o, to)
        PROVE  Inv'
    BY <1>2, AdminTransitionStep
  <1>3. ASSUME NEW p \in Payments, NEW r \in ProviderOrders, CustomerPays(p, r)
        PROVE  Inv'
    BY <1>3, CustomerPaysStep
  <1>4. ASSUME NEW p \in Payments, ProviderCaptures(p) PROVE Inv'
    BY <1>4, ProviderCapturesStep
  <1>5. ASSUME NEW e \in EventIds, ReceiveWebhook(e) PROVE Inv'
    BY <1>5, ReceiveWebhookStep
  <1>7. ASSUME NEW o \in Orders, GrowOld(o) PROVE Inv'
    BY <1>7, GrowOldStep
  <1>6. CASE UNCHANGED vars
    <2>1. event \in [EventIds -> EventRows]
      BY DEF Inv, TypeOK, EventRows
    <2> QED BY <1>6, <2>1, EventStep DEF vars, db, Inv, EventsEmitted
  <1> QED BY <1>1, <1>2, <1>3, <1>4, <1>5, <1>6, <1>7 DEF Next, World

(* The inductive invariant holds of every reachable state.                 *)
THEOREM InvHolds == Spec => []Inv
  BY InitInv, InvNext, PTL DEF Spec

-----------------------------------------------------------------------------
(* THEOREMS                                                                *)

(* Every column and every session stays within its type.                   *)
THEOREM TypeCorrect == Spec => []TypeOK
  <1>1. Inv => TypeOK
    BY DEF Inv
  <1> QED BY InvHolds, <1>1, PTL

(* A paid order has exactly one captured attempt, whoever recorded it.     *)
THEOREM PaidOnce == Spec => []PaidIsCapturedOnce
  <1>1. Inv => PaidIsCapturedOnce
    <2> SUFFICES ASSUME Inv, NEW o \in Orders,
                        status[o] \notin Unpaid, o \notin manual
                 PROVE  Cardinality(CapturedOf(o)) = 1
      BY DEF PaidIsCapturedOnce
    <2>1. PICK a \in AttemptIds : attempts[a].order = o /\ attempts[a].status = "CAPTURED"
      BY DEF Inv, PaidHasCapture, HasCapture
    <2>2. CapturedOf(o) = {a}
      BY <2>1 DEF Inv, UniqueCapture, CapturedOf
    <2> QED BY <2>2, FS_Singleton
  <1> QED BY InvHolds, <1>1, PTL

(* ORDER_PAID is queued only for captured money and for every paid order.  *)
THEOREM ReceiptOnlyForMoney == Spec => []ReceiptIffCaptured
  <1>1. Inv => ReceiptIffCaptured
    BY DEF Inv, PaidHasCapture, ToldHasCapture, HasCapture, CapturedOf,
           ReceiptIffCaptured
  <1> QED BY InvHolds, <1>1, PTL

(* No attempt, and no payment in it, is of another than the order's one    *)
(* Razorpay order.                                                         *)
THEOREM NoOrphanIsPaid == Spec => []AttemptsOnBoundOrder
  <1>1. Inv => AttemptsOnBoundOrder
    BY DEF Inv, RowsOK, AttemptsOnBoundOrder
  <1> QED BY InvHolds, <1>1, PTL

=============================================================================
