------------------------------ MODULE Payments ------------------------------
(***************************************************************************)
(* Commerce payments: PaymentsService, WebhookProcessor and                *)
(* PaymentReconciliationService over the tables orders, payment_attempts,  *)
(* webhook_events and outbox_events, against an external Razorpay.         *)
(*                                                                         *)
(* A worker is one request handler or cron tick in flight.  PostgreSQL     *)
(* runs at READ COMMITTED, so a handler is cut where it has read a row it  *)
(* later acts upon: a session holds what was read, and the last step of a  *)
(* handler is the transaction's writes, whose WHERE clauses are evaluated  *)
(* against the rows as they are then.                                      *)
(***************************************************************************)
EXTENDS Naturals, FiniteSets, OrderLifecycle

CONSTANTS
  Orders,             \* rows of orders, created by checkout in PENDING_PAYMENT
  Payments,           \* Razorpay payment ids
  ProviderOrders,     \* Razorpay order ids (a bound on how many are created)
  Workers,            \* handlers that can be in flight at once
  MaxWidgets,         \* bound: attempts created by initiatePayment
  MAX_ATTEMPTS,       \* retry budget of a webhook event (6 in the code)
  MaxTxErrors,        \* bound: transactions the database aborts on its own
  Mismatched,         \* payments reported with another amount or currency
  LateAuthorization,  \* whether a failed payment may still be captured
  CreatedAt,          \* orders.createdAt
  BATCH_SIZE,         \* orders a run of the reconciliation looks at (20)
  AdminTargets,       \* statuses the staff set by hand
  None                \* SQL NULL

ASSUME ConstantsAssumption ==
  /\ MaxWidgets \in Nat /\ MaxTxErrors \in Nat
  /\ MAX_ATTEMPTS \in Nat \ {0}
  /\ IsFiniteSet(Payments)
  /\ Mismatched \subseteq Payments
  /\ LateAuthorization \in BOOLEAN
  /\ AdminTargets \subseteq OrderStatus
  /\ CreatedAt \in [Orders -> Nat] /\ BATCH_SIZE \in Nat \ {0}
  /\ None \notin Orders \cup Payments \cup ProviderOrders \cup Nat

VARIABLES
  status,    \* orders.status
  rzpOrder,  \* orders.razorpayOrderId
  minted,    \* Razorpay orders that exist, orphans included
  attempts,  \* payment_attempts, by id in order of creation
  event,     \* webhook_events, by the event's Razorpay id
  outbox,    \* the eventKeys of outbox_events
  manual,    \* orders whose history has a staff-made move to PAID
  payment,   \* the payments as Razorpay knows them
  txErrors,  \* database aborts so far, to bound them
  aged,      \* orders older than RECONCILE_MAX_AGE_DAYS
  session    \* per worker: the handler in flight and what it has read

db   == <<status, rzpOrder, attempts, event, outbox, manual>>
vars == <<db, minted, payment, txErrors, aged, session>>

-----------------------------------------------------------------------------
(* Each payment may need one more row than the widgets: webhook and        *)
(* reconciliation create one when no open attempt is left.                 *)
AttemptIds == 1 .. (MaxWidgets + Cardinality(Payments))

AttemptStatus == {"ABSENT", "INITIATED", "CAPTURED", "FAILED", "ABANDONED"}

(* payment.captured and payment.failed, the two events that are acted on.  *)
EventIds == {"captured", "failed"} \X Payments

EventStatus == {"ABSENT", "RECEIVED", "PROCESSING_FAILED", "PROCESSED",
                "IGNORED", "FAILED"}

(* eventKey: ORDER_PAID:<order> or ORDER_STATUS_CHANGED:<order>:<status>.  *)
OutboxKeys == Orders \X (OrderStatus \cup {"ORDER_PAID"})

Steps == {"idle", "associate", "open", "lookup", "find", "verify",
          "target", "apply", "report", "settle", "expire"}

NoAttempt == [order |-> None, rzp |-> None, status |-> "ABSENT", pay |-> None]

Idle == [step |-> "idle", order |-> None, payment |-> None, type |-> "captured",
         seen |-> "PENDING_PAYMENT", rzp |-> None, attempt |-> None,
         stamp |-> FALSE, tries |-> 0, result |-> "RECEIVED"]

AttemptRows == [order : Orders \cup {None}, rzp : ProviderOrders \cup {None},
                status : AttemptStatus, pay : Payments \cup {None}]

PaymentStates == {"none", "failed", "authorized", "captured", "late"}

Sessions == [step : Steps, order : Orders \cup {None},
             payment : Payments \cup {None}, type : {"captured", "failed"},
             seen : OrderStatus, rzp : ProviderOrders \cup {None},
             attempt : AttemptIds \cup {None}, stamp : BOOLEAN, tries : Nat,
             result : EventStatus]

TypeOK ==
  /\ status \in [Orders -> OrderStatus]
  /\ rzpOrder \in [Orders -> ProviderOrders \cup {None}]
  /\ minted \subseteq ProviderOrders
  /\ attempts \in [AttemptIds -> AttemptRows]
  /\ event \in [EventIds -> [status : EventStatus, attempts : Nat]]
  /\ outbox \subseteq OutboxKeys
  /\ manual \subseteq Orders
  /\ payment \in [Payments -> [state : PaymentStates,
                               rzp : ProviderOrders \cup {None}]]
  /\ txErrors \in Nat
  /\ aged \subseteq Orders
  /\ session \in [Workers -> Sessions]

Init ==
  /\ status = [o \in Orders |-> "PENDING_PAYMENT"]
  /\ rzpOrder = [o \in Orders |-> None]
  /\ minted = {}
  /\ attempts = [a \in AttemptIds |-> NoAttempt]
  /\ event = [e \in EventIds |-> [status |-> "ABSENT", attempts |-> 0]]
  /\ outbox = {}
  /\ manual = {}
  /\ payment = [p \in Payments |-> [state |-> "none", rzp |-> None]]
  /\ txErrors = 0
  /\ aged = {}
  /\ session = [w \in Workers |-> Idle]

-----------------------------------------------------------------------------
(* Queries on payment_attempts.                                            *)

Newest(S) == CHOOSE a \in S : \A b \in S : b <= a

(* INITIATED attempts of the order for its Razorpay order.                 *)
Open(o) == { a \in AttemptIds : /\ attempts[a].order = o
                                /\ attempts[a].rzp = rzpOrder[o]
                                /\ attempts[a].status = "INITIATED" }

WithPayment(p) == { a \in AttemptIds : attempts[a].pay = p }

CapturedOf(o) == { a \in AttemptIds : /\ attempts[a].order = o
                                      /\ attempts[a].status = "CAPTURED" }

(* The id the next INSERT gets.                                            *)
Free(a) == /\ a \in AttemptIds
           /\ attempts[a].status = "ABSENT"
           /\ \A b \in AttemptIds : b < a => attempts[b].status # "ABSENT"

(* Unique index on razorpayPaymentId: a cannot take p.                     *)
PaymentIdTaken(a, p) == \E b \in WithPayment(p) : b # a

CapturedElsewhere_NoIndex(o, a) == FALSE

(* Partial unique index (orderId) WHERE status = 'CAPTURED'.               *)
CapturedElsewhere(o, a) == \E b \in CapturedOf(o) : b # a

(* Unique index on eventKey.                                               *)
Announced(o, key) == <<o, key>> \in outbox

-----------------------------------------------------------------------------
CasSucceeds_ById(o, seen) == TRUE

(* transitionOrder: the compare-and-swap finds the row as it was read.     *)
CasSucceeds(o, seen) == status[o] = seen

Transition(o, seen, to) ==
  status' = IF CasSucceeds(o, seen) THEN [status EXCEPT ![o] = to] ELSE status

Insert(o, key) == outbox' = outbox \cup {<<o, key>>}

Row(a, o, r, st, p) ==
  attempts' = [attempts EXCEPT
                 ![a] = [order |-> o, rzp |-> r, status |-> st, pay |-> p]]

Become(w, s) == session' = [session EXCEPT ![w] = s]

Finish(w) == Become(w, Idle)

At(w, step) == session[w].step = step

-----------------------------------------------------------------------------
(* POST /payments/initiate.  The order is read and, if its payment had     *)
(* failed, set back to PENDING_PAYMENT; a Razorpay order is created when   *)
(* the row read names none.                                                *)
InitiateRead(w, o) ==
  /\ At(w, "idle")
  /\ status[o] \in Unpaid
  /\ status' = [status EXCEPT ![o] = "PENDING_PAYMENT"]
  /\ \/ /\ rzpOrder[o] # None
        /\ Become(w, [Idle EXCEPT !.step = "open", !.order = o,
                                  !.rzp = rzpOrder[o]])
        /\ UNCHANGED minted
     \/ /\ rzpOrder[o] = None
        /\ \E r \in ProviderOrders \ minted :
             /\ minted' = minted \cup {r}
             /\ Become(w, [Idle EXCEPT !.step = "associate", !.order = o,
                                       !.rzp = r])
  /\ UNCHANGED <<rzpOrder, attempts, event, outbox, manual, payment, txErrors,
                 aged>>

Associated_LastWins(o, r) == r

(* UPDATE orders SET razorpayOrderId WHERE it is null: the id the order    *)
(* has afterwards, which the loser of the race re-reads.                   *)
Associated(o, r) == IF rzpOrder[o] = None THEN r ELSE rzpOrder[o]

InitiateAssociate(w) ==
  LET s == session[w] IN
  /\ At(w, "associate")
  /\ rzpOrder' = [rzpOrder EXCEPT ![s.order] = Associated(s.order, s.rzp)]
  /\ Become(w, [s EXCEPT !.step = "open", !.rzp = Associated(s.order, s.rzp)])
  /\ UNCHANGED <<status, minted, attempts, event, outbox, manual, payment,
                 txErrors, aged>>

(* The attempt is created whatever the order's status has become, and the  *)
(* widget opens on the session's Razorpay order.                           *)
InitiateOpen(w) ==
  LET s == session[w] IN
  /\ At(w, "open")
  /\ \E a \in 1 .. MaxWidgets :
       /\ Free(a)
       /\ Row(a, s.order, s.rzp, "INITIATED", None)
  /\ Finish(w)
  /\ UNCHANGED <<status, rzpOrder, minted, event, outbox, manual, payment,
                 txErrors, aged>>

-----------------------------------------------------------------------------
(* POST /payments/verify, the browser's callback, which Razorpay signs     *)
(* once the payment is authorized.                                         *)
VerifyRead(w, p) ==
  /\ At(w, "idle")
  /\ payment[p].state \in {"authorized", "captured"}
  /\ \E o \in Orders :
       /\ rzpOrder[o] = payment[p].rzp
       /\ Become(w, [Idle EXCEPT !.step = "lookup", !.order = o, !.payment = p,
                                 !.seen = status[o]])
  /\ UNCHANGED <<db, minted, payment, txErrors, aged>>

VerifyLookup(w) ==
  LET s == session[w] IN
  /\ At(w, "lookup")
  /\ \/ /\ WithPayment(s.payment) = {}
        /\ Become(w, [s EXCEPT !.step = "find"])
     \/ \E a \in WithPayment(s.payment) :
          IF attempts[a].status = "CAPTURED"
          THEN Finish(w)
          ELSE Become(w, [s EXCEPT !.step = "verify", !.attempt = a])
  /\ UNCHANGED <<db, minted, payment, txErrors, aged>>

VerifyFind(w) ==
  LET s == session[w] IN
  /\ At(w, "find")
  /\ IF Open(s.order) = {}
     THEN Finish(w)
     ELSE Become(w, [s EXCEPT !.step = "verify",
                              !.attempt = Newest(Open(s.order))])
  /\ UNCHANGED <<db, minted, payment, txErrors, aged>>

Wins_FailedIsFinal(type, a) == attempts[a].status \notin {"CAPTURED", "FAILED"}

Wins_FailsCaptured(type, a) ==
  attempts[a].status # IF type = "captured" THEN "CAPTURED" ELSE "FAILED"

(* UPDATE payment_attempts ... WHERE status is not a final one.            *)
Wins(type, a) ==
  attempts[a].status \notin IF type = "captured" THEN {"CAPTURED"}
                                                ELSE {"CAPTURED", "FAILED"}

VerifyCanCommit(s) ==
  /\ Wins("captured", s.attempt)
  /\ ~ PaymentIdTaken(s.attempt, s.payment)
  /\ ~ CapturedElsewhere(s.order, s.attempt)
  /\ isTransitionAllowed(s.seen, "PAID")
  /\ ~ Announced(s.order, "ORDER_PAID")

(* The transaction, with the order as it was read before it began.  The    *)
(* outbox row is inserted whether or not the compare-and-swap found it.    *)
VerifyCommit(w) ==
  LET s == session[w] IN
  /\ At(w, "verify")
  /\ VerifyCanCommit(s)
  /\ attempts' = [attempts EXCEPT ![s.attempt].status = "CAPTURED",
                                  ![s.attempt].pay = s.payment]
  /\ Transition(s.order, s.seen, "PAID")
  /\ Insert(s.order, "ORDER_PAID")
  /\ Finish(w)
  /\ UNCHANGED <<rzpOrder, minted, event, manual, payment, txErrors, aged>>

(* Already captured, a unique index, or an illegal transition: no effect.  *)
VerifyRollback(w) ==
  /\ At(w, "verify")
  /\ ~ VerifyCanCommit(session[w])
  /\ Finish(w)
  /\ UNCHANGED <<db, minted, payment, txErrors, aged>>

-----------------------------------------------------------------------------
(* WebhookProcessor.processOne, on an event some tick found due.  The      *)
(* event row is locked, so no two workers have it in their transactions.   *)
Processing(e) ==
  \E w \in Workers : /\ session[w].step \in {"target", "apply"}
                    /\ <<session[w].type, session[w].payment>> = e

Due_NoRetry(e) == event[e].status = "RECEIVED"

Due(e) == event[e].status \in {"RECEIVED", "PROCESSING_FAILED"}

WebhookRead(w, e) ==
  LET known == { o \in Orders : rzpOrder[o] = payment[e[2]].rzp } IN
  /\ At(w, "idle")
  /\ Due(e)
  /\ ~ Processing(e)
  /\ IF known = {}
     THEN /\ event' = [event EXCEPT ![e].status = "IGNORED"]
          /\ UNCHANGED session
     ELSE /\ \E o \in known :
               Become(w, [Idle EXCEPT !.step = "target", !.order = o,
                                      !.payment = e[2], !.type = e[1],
                                      !.seen = status[o],
                                      !.tries = event[e].attempts])
          /\ UNCHANGED event
  /\ UNCHANGED <<status, rzpOrder, minted, attempts, outbox, manual, payment,
                 txErrors, aged>>

(* The bounded retry: attempts as the rolled-back transaction read them.   *)
AfterError(tries) ==
  IF tries + 1 >= MAX_ATTEMPTS THEN "FAILED" ELSE "PROCESSING_FAILED"

(* The transaction fails before it has the row (it may wait for its lock   *)
(* too long): the handler counts its attempts from 0 again.                *)
WebhookMiss(w, e) ==
  /\ At(w, "idle")
  /\ Due(e)
  /\ txErrors < MaxTxErrors
  /\ txErrors' = txErrors + 1
  /\ Become(w, [Idle EXCEPT !.step = "report", !.payment = e[2], !.type = e[1],
                            !.result = AfterError(0), !.tries = 1])
  /\ UNCHANGED <<db, minted, payment, aged>>

(* findOrCreateAttempt's reads: the payment's own attempt, else the newest *)
(* open one, which will be stamped with the payment, else a new one.       *)
WebhookTarget(w) ==
  LET s == session[w] IN
  /\ At(w, "target")
  /\ Become(w, [s EXCEPT
       !.step = "apply",
       !.stamp = WithPayment(s.payment) = {},
       !.attempt = IF WithPayment(s.payment) # {}
                   THEN CHOOSE a \in WithPayment(s.payment) : TRUE
                   ELSE IF Open(s.order) # {} THEN Newest(Open(s.order))
                        ELSE None])
  /\ UNCHANGED <<db, minted, payment, txErrors, aged>>

IsTarget(s, a) == IF s.attempt = None THEN Free(a) ELSE a = s.attempt

Goal(type) == IF type = "captured" THEN "PAID" ELSE "PAYMENT_FAILED"

Key_StatusOnly(type) == Goal(type)

Key(type) == IF type = "captured" THEN "ORDER_PAID" ELSE "PAYMENT_FAILED"

(* The transaction gets to move the order.                                 *)
Moves(s, a) == /\ Wins(s.type, a)
               /\ isTransitionAllowed(s.seen, Goal(s.type))
               /\ CasSucceeds(s.order, s.seen)

StampConflict(s, a) == s.stamp /\ PaymentIdTaken(a, s.payment)

(* assertCapturedPaymentMatchesOrder throws.                               *)
Mismatch(s) == s.type = "captured" /\ s.payment \in Mismatched

(* P2002: some unique index refuses a write.                               *)
UniqueViolation(s, a) ==
  \/ StampConflict(s, a)
  \/ /\ ~ Mismatch(s)
     /\ \/ Wins(s.type, a) /\ PaymentIdTaken(a, s.payment)
        \/ Wins(s.type, a) /\ s.type = "captured" /\ CapturedElsewhere(s.order, a)
        \/ Moves(s, a) /\ Announced(s.order, Key(s.type))

(* applyFailed does not test the transition it asks for; transitionOrder   *)
(* throws.  applyCaptured does test it.                                    *)
IllegalTransition(s, a) == /\ s.type = "failed"
                           /\ Wins("failed", a)
                           /\ ~ isTransitionAllowed(s.seen, "PAYMENT_FAILED")

(* The target attempt after findOrCreateAttempt and the final update.      *)
Applied(s, a) ==
  [order |-> s.order, rzp |-> payment[s.payment].rzp,
   status |-> IF Wins(s.type, a)
              THEN IF s.type = "captured" THEN "CAPTURED" ELSE "FAILED"
              ELSE attempts[a].status,
   pay |-> IF s.stamp \/ Wins(s.type, a) THEN s.payment ELSE attempts[a].pay]

WebhookCommit(w) ==
  LET s == session[w] IN
  /\ At(w, "apply")
  /\ \E a \in AttemptIds :
       /\ IsTarget(s, a)
       /\ ~ Mismatch(s) /\ ~ UniqueViolation(s, a) /\ ~ IllegalTransition(s, a)
       /\ attempts' = [attempts EXCEPT ![a] = Applied(s, a)]
       /\ IF Moves(s, a)
          THEN /\ status' = [status EXCEPT ![s.order] = Goal(s.type)]
               /\ Insert(s.order, Key(s.type))
          ELSE UNCHANGED <<status, outbox>>
  /\ event' = [event EXCEPT ![<<s.type, s.payment>>].status = "PROCESSED"]
  /\ Finish(w)
  /\ UNCHANGED <<rzpOrder, minted, manual, payment, txErrors, aged>>

(* The transaction rolled back: nothing is left of it but the verdict the  *)
(* handler is about to write on the event, whose row is no longer locked.  *)
WebhookRollback(w) ==
  LET s == session[w]
      Report(result, tries) ==
        Become(w, [Idle EXCEPT !.step = "report", !.order = s.order,
                               !.payment = s.payment, !.type = s.type,
                               !.result = result, !.tries = tries])
  IN
  /\ At(w, "apply")
  /\ \/ /\ \E a \in AttemptIds : IsTarget(s, a) /\ UniqueViolation(s, a)
        /\ Report("PROCESSED", s.tries)
        /\ UNCHANGED txErrors
     \/ /\ \E a \in AttemptIds : IsTarget(s, a) /\ ~ StampConflict(s, a)
        /\ Mismatch(s)
        /\ Report("FAILED", s.tries + 1)
        /\ UNCHANGED txErrors
     \/ /\ \E a \in AttemptIds : /\ IsTarget(s, a)
                                 /\ ~ UniqueViolation(s, a)
                                 /\ IllegalTransition(s, a)
        /\ Report(AfterError(s.tries), s.tries + 1)
        /\ UNCHANGED txErrors
     \/ /\ txErrors < MaxTxErrors
        /\ txErrors' = txErrors + 1
        /\ Report(AfterError(s.tries), s.tries + 1)
  /\ UNCHANGED <<db, minted, payment, aged>>

(* safeUpdate, by the event's id alone; a no-op race is not counted.       *)
WebhookReport(w) ==
  LET s == session[w] IN
  /\ At(w, "report")
  /\ ~ Processing(<<s.type, s.payment>>)
  /\ event' = [event EXCEPT ![<<s.type, s.payment>>] =
                 [status |-> s.result,
                  attempts |-> IF s.result = "PROCESSED" THEN @.attempts
                                                         ELSE s.tries]]
  /\ Finish(w)
  /\ UNCHANGED <<status, rzpOrder, minted, attempts, outbox, manual, payment,
                 txErrors, aged>>

-----------------------------------------------------------------------------
(* PaymentReconciliationService.                                           *)
Candidate_NeverAttempted(o) ==
  /\ status[o] = "PENDING_PAYMENT" /\ rzpOrder[o] # None /\ o \notin aged
  /\ \A a \in AttemptIds : attempts[a].order # o

Candidate(o) ==
  /\ status[o] = "PENDING_PAYMENT" /\ rzpOrder[o] # None /\ o \notin aged
  /\ CapturedOf(o) = {}

(* The oldest candidates; the others have to wait until these are settled, *)
(* expired or too old.                                                     *)
InBatch(o) ==
  /\ Candidate(o)
  /\ Cardinality({ q \in Orders : Candidate(q) /\ CreatedAt[q] < CreatedAt[o] })
       < BATCH_SIZE

MadeOn(o) == { p \in Payments : payment[p].rzp = rzpOrder[o] }

TakenOn(o) == { p \in MadeOn(o) : payment[p].state \in {"captured", "late"} }

(* Razorpay answers with its list of payments.  Whichever captured payment *)
(* comes first is acted on, and a mismatching one leaves the order as it   *)
(* is, at every run; if nothing is captured or authorized the order may    *)
(* prove stale, as may one without a Razorpay order.                       *)
ReconcileRead(w, o) ==
  /\ At(w, "idle")
  /\ \/ /\ InBatch(o)
        /\ \/ \E p \in TakenOn(o) \ Mismatched :
                Become(w, [Idle EXCEPT !.step = "settle", !.order = o,
                                       !.payment = p, !.rzp = rzpOrder[o]])
           \/ /\ \A p \in MadeOn(o) : payment[p].state = "failed"
              /\ Become(w, [Idle EXCEPT !.step = "expire", !.order = o])
     \/ /\ status[o] = "PENDING_PAYMENT" /\ rzpOrder[o] = None
        /\ Become(w, [Idle EXCEPT !.step = "expire", !.order = o])
  /\ UNCHANGED <<db, minted, payment, txErrors, aged>>

(* The order row, locked, is still pending and nothing is captured for it. *)
StillOwed(o) == status[o] = "PENDING_PAYMENT" /\ CapturedOf(o) = {}

(* The row of this payment or an open one, whichever is newer.             *)
Reusable(s) == { a \in AttemptIds :
                   /\ attempts[a].order = s.order
                   /\ \/ attempts[a].pay = s.payment
                      \/ /\ attempts[a].rzp = s.rzp
                         /\ attempts[a].status = "INITIATED" }

(* reconcileCapturedPayment.                                               *)
ReconcileSettle(w) ==
  LET s == session[w] IN
  /\ At(w, "settle")
  /\ \E a \in AttemptIds :
       /\ IF Reusable(s) # {} THEN a = Newest(Reusable(s)) ELSE Free(a)
       /\ IF StillOwed(s.order) /\ ~ PaymentIdTaken(a, s.payment)
                                /\ ~ Announced(s.order, "ORDER_PAID")
          THEN /\ Row(a, s.order, s.rzp, "CAPTURED", s.payment)
               /\ status' = [status EXCEPT ![s.order] = "PAID"]
               /\ Insert(s.order, "ORDER_PAID")
          ELSE UNCHANGED <<attempts, status, outbox>>
  /\ Finish(w)
  /\ UNCHANGED <<rzpOrder, minted, event, manual, payment, txErrors, aged>>

(* failStalePendingOrder.                                                  *)
ReconcileExpire(w) ==
  LET o == session[w].order IN
  /\ At(w, "expire")
  /\ IF StillOwed(o) /\ ~ Announced(o, "PAYMENT_FAILED")
     THEN /\ attempts' = [a \in AttemptIds |->
               IF attempts[a].order = o /\ attempts[a].status = "INITIATED"
               THEN [attempts[a] EXCEPT !.status = "ABANDONED"] ELSE attempts[a]]
          /\ status' = [status EXCEPT ![o] = "PAYMENT_FAILED"]
          /\ Insert(o, "PAYMENT_FAILED")
     ELSE UNCHANGED <<attempts, status, outbox>>
  /\ Finish(w)
  /\ UNCHANGED <<rzpOrder, minted, event, manual, payment, txErrors, aged>>

-----------------------------------------------------------------------------
(* OrdersService, as far as payments see it: a status set by the staff.    *)
AdminTransition(o, to) ==
  /\ isTransitionAllowed(status[o], to)
  /\ ~ Announced(o, to)
  /\ status' = [status EXCEPT ![o] = to]
  /\ Insert(o, to)
  /\ manual' = IF to = "PAID" THEN manual \cup {o} ELSE manual
  /\ UNCHANGED <<rzpOrder, minted, attempts, event, payment, txErrors, aged,
                 session>>

(* The request fails or the process dies between two steps; PostgreSQL     *)
(* rolls the open transaction back, and nothing of the session is kept.    *)
Abandon(w) ==
  /\ ~ At(w, "idle")
  /\ Finish(w)
  /\ UNCHANGED <<db, minted, payment, txErrors, aged>>

-----------------------------------------------------------------------------
(* Razorpay and its customer: any open widget may be paid in, and every    *)
(* outcome may be reported, late, in any order, several times, or never.   *)
CustomerPays(p, r) ==
  /\ payment[p].state = "none"
  /\ \E a \in AttemptIds : attempts[a].rzp = r
  /\ \E outcome \in {"failed", "authorized"} :
       payment' = [payment EXCEPT ![p] = [state |-> outcome, rzp |-> r]]
  /\ UNCHANGED <<db, minted, txErrors, aged, session>>

ProviderCaptures(p) ==
  /\ \/ /\ payment[p].state = "authorized"
        /\ payment' = [payment EXCEPT ![p].state = "captured"]
     \/ /\ payment[p].state = "failed" /\ LateAuthorization
        /\ payment' = [payment EXCEPT ![p].state = "late"]
  /\ UNCHANGED <<db, minted, txErrors, aged, session>>

Emitted(e) == payment[e[2]].state \in
  IF e[1] = "captured" THEN {"captured", "late"} ELSE {"failed", "late"}

Received_Pending(row) ==
  IF row.status = "ABSENT" THEN [status |-> "PENDING", attempts |-> 0] ELSE row

(* INSERT ... ON CONFLICT (razorpayEventId) DO NOTHING.                    *)
Received(row) ==
  IF row.status = "ABSENT" THEN [status |-> "RECEIVED", attempts |-> 0] ELSE row

ReceiveWebhook(e) ==
  /\ Emitted(e)
  /\ event' = [event EXCEPT ![e] = Received(@)]
  /\ UNCHANGED <<status, rzpOrder, minted, attempts, outbox, manual, payment,
                 txErrors, aged, session>>

(* Seven days after its creation an order is not looked at any more.       *)
GrowOld(o) ==
  /\ \A q \in Orders : CreatedAt[q] < CreatedAt[o] => q \in aged
  /\ aged' = aged \cup {o}
  /\ UNCHANGED <<db, minted, payment, txErrors, session>>

-----------------------------------------------------------------------------
Handler(w) ==
  \/ \E o \in Orders : InitiateRead(w, o) \/ ReconcileRead(w, o)
  \/ InitiateAssociate(w) \/ InitiateOpen(w)
  \/ \E p \in Payments : VerifyRead(w, p)
  \/ VerifyLookup(w) \/ VerifyFind(w) \/ VerifyCommit(w) \/ VerifyRollback(w)
  \/ \E e \in EventIds : WebhookRead(w, e) \/ WebhookMiss(w, e)
  \/ WebhookTarget(w) \/ WebhookCommit(w) \/ WebhookRollback(w)
  \/ WebhookReport(w)
  \/ ReconcileSettle(w) \/ ReconcileExpire(w)
  \/ Abandon(w)

World ==
  \/ \E o \in Orders, to \in AdminTargets : AdminTransition(o, to)
  \/ \E p \in Payments, r \in ProviderOrders : CustomerPays(p, r)
  \/ \E p \in Payments : ProviderCaptures(p)
  \/ \E e \in EventIds : ReceiveWebhook(e)
  \/ \E o \in Orders : GrowOld(o)

Next == (\E w \in Workers : Handler(w)) \/ World

Spec == Init /\ [][Next]_vars

(* The crons run for ever beside the requests (a worker slot is a bound of *)
(* the model, not of the server), so what they look for over and over is   *)
(* found; no step of theirs is killed every time; and every request ends.  *)
(* An order with a mismatching captured payment may be passed over at each *)
(* run, so of such a one nothing is assumed, nor of customers, the staff,  *)
(* Razorpay or webhook delivery.                                           *)
CronFairness ==
  /\ \A e \in EventIds : SF_vars(\E w \in Workers : WebhookRead(w, e))
  /\ \A o \in Orders :
       SF_vars(/\ TakenOn(o) \cap Mismatched = {}
               /\ \E w \in Workers : ReconcileRead(w, o))
  /\ \A w \in Workers :
       /\ WF_vars(~ At(w, "idle") /\ Handler(w))
       /\ SF_vars(WebhookTarget(w))
       /\ SF_vars(WebhookCommit(w) \/ WebhookRollback(w))
       /\ SF_vars(WebhookReport(w))
       /\ SF_vars(ReconcileSettle(w))

FairSpec == Spec /\ CronFairness

-----------------------------------------------------------------------------
(* PROPERTIES                                                              *)

(* An order that left the unpaid statuses, other than by the staff's hand, *)
(* has exactly one captured attempt: verify, webhooks and reconciliation   *)
(* may all have worked on it, each from rows it had read earlier.          *)
PaidIsCapturedOnce ==
  \A o \in Orders : status[o] \notin Unpaid /\ o \notin manual =>
                     Cardinality(CapturedOf(o)) = 1

(* The customer is told an order is paid only if money was captured for it *)
(* and is told so whenever the capture moved the order.                    *)
ReceiptIffCaptured ==
  \A o \in Orders :
    /\ Announced(o, "ORDER_PAID") => CapturedOf(o) # {}
    /\ status[o] \notin Unpaid /\ o \notin manual => Announced(o, "ORDER_PAID")

(* Every attempt, and the payment it carries, belongs to the one Razorpay  *)
(* order of its order, although concurrent initiatePayment calls create    *)
(* several: no customer pays into an orphan.                               *)
AttemptsOnBoundOrder ==
  \A a \in AttemptIds :
    attempts[a].status # "ABSENT" =>
      /\ attempts[a].rzp = rzpOrder[attempts[a].order]
      /\ attempts[a].pay # None => payment[attempts[a].pay].rzp = attempts[a].rzp

(* A payment.captured event is written off as PROCESSED only when its      *)
(* order has a captured attempt, be it by way of a rolled-back race.  Of a *)
(* payment that had failed first this does not hold: its failed event may  *)
(* have stamped another attempt, whose index the captured one runs into.   *)
ProcessedCaptureIsRecorded ==
  \A p \in Payments, o \in Orders :
    /\ event[<<"captured", p>>].status = "PROCESSED"
    /\ payment[p].state # "late"
    /\ rzpOrder[o] = payment[p].rzp
    => CapturedOf(o) # {}

(* A captured attempt stays captured, whatever late payment.failed, expiry *)
(* or replay comes after.                                                  *)
CapturedForGood ==
  [][\A a \in AttemptIds : attempts[a].status = "CAPTURED" =>
                            attempts'[a].status = "CAPTURED"]_vars

(* The promise of OrderLedger.                                             *)
Ledger == INSTANCE OrderLedger WITH
            taken <- { o \in Orders : CapturedOf(o) # {} },
            told <- { o \in Orders : Announced(o, "ORDER_PAID") }

KeepsLedger == Ledger!LedgerSpec

(* Every stored event is eventually applied, ignored or dead-lettered,     *)
(* however often its processing is rolled back or its worker dies.         *)
EventsSettle ==
  \A e \in EventIds : event[e].status = "RECEIVED" ~>
                       event[e].status \in {"PROCESSED", "IGNORED", "FAILED"}

(* A payment that failed and was captured after all: its attempt is FAILED *)
(* and carries it, and reconciliation would put it on a newer, open one,   *)
(* which the unique index on razorpayPaymentId refuses at every run.       *)
Blocked(p, o) == \E a \in WithPayment(p) : \E b \in Open(o) : a < b

(* Orders nobody has been seen to pay, a week old at most.                 *)
Waiting == { o \in Orders \ aged : /\ status[o] = "PENDING_PAYMENT"
                                   /\ rzpOrder[o] # None
                                   /\ CapturedOf(o) = {} }

(* Money that reconciliation can find: for a waiting order, one of the     *)
(* BATCH_SIZE oldest, that has no mismatching and no blocked payment.      *)
Findable(p, o) ==
  /\ p \in TakenOn(o) /\ o \in Waiting
  /\ Cardinality({ q \in Waiting : CreatedAt[q] < CreatedAt[o] }) < BATCH_SIZE
  /\ \A q \in TakenOn(o) : q \notin Mismatched /\ ~ Blocked(q, o)

(* Captured money is recorded although neither callback nor webhook ever   *)
(* arrives, if reconciliation can find it again and again: be it that the  *)
(* order is failed, expired or crowded out for a while, it is enough that  *)
(* it is retried and gets its turn.                                        *)
CapturedMoneyIsFound ==
  \A p \in Payments, o \in Orders :
    []<>Findable(p, o) => <>(CapturedOf(o) # {})

=============================================================================
