------------------------------ MODULE Refunds -------------------------------
(***************************************************************************)
(* Refunds of captured payments: RefundsService (asked for in the shop's   *)
(* admin and made through the provider), the refund webhooks of            *)
(* PaymentsService, and OrdersService, whose cancellations record a refund *)
(* as owed and whose REFUNDED records it as made by hand.                  *)
(*                                                                         *)
(* An order has one captured attempt (Payments!PaidOnce), on one merchant  *)
(* account, or none yet, if the staff have set it to PAID.  Sessions are   *)
(* cut as in Payments: where a handler has read what it later acts upon,   *)
(* and around the call to Razorpay.                                        *)
(***************************************************************************)
EXTENDS Naturals, FiniteSetsExt, OrderLifecycle

CONSTANTS
  Orders,           \* orders that are paid, or set to PAID by the staff
  ProviderRefunds,  \* Razorpay refund ids (a bound on how many are made)
  Workers,          \* handlers that can be in flight at once
  MaxRefunds,       \* bound: rows of refunds
  CapturedAmount,   \* what was captured for an order, in units worth refunding
  MAX_ATTEMPTS,     \* retry budget of a webhook event (6 in the code)
  AdminTargets,     \* statuses other than the two below that the staff set
  None              \* SQL NULL

ASSUME RefundConstants ==
  /\ MaxRefunds \in Nat
  /\ CapturedAmount \in Nat \ {0}
  /\ MAX_ATTEMPTS \in Nat \ {0}
  /\ AdminTargets \subseteq OrderStatus \ {"CANCELLED", "REFUNDED"}
  /\ None \notin Orders \cup ProviderRefunds \cup Nat

VARIABLES
  status,    \* orders.status
  captured,  \* orders with a captured attempt in payment_attempts
  missed,    \* orders cancelled by one who had looked for it in vain
  refund,    \* refunds, by id in order of creation
  provider,  \* the refunds as Razorpay knows them
  event,     \* webhook_events of refunds, by the event's Razorpay id
  session    \* per worker: the handler in flight and what it has read

vars == <<status, captured, missed, refund, provider, event, session>>

-----------------------------------------------------------------------------
RefundIds == 1 .. MaxRefunds

Amounts == 1 .. CapturedAmount

RefundStatus == {"ABSENT", "PENDING", "PROCESSED", "FAILED"}

(* inApp: paymentAccountId is set, that is, createRefund made the row.     *)
RefundRows == [status : RefundStatus, order : Orders \cup {None},
               amount : Amounts \cup {0},
               rzp : ProviderRefunds \cup {None}, inApp : BOOLEAN]

NoRefund == [status |-> "ABSENT", order |-> None, amount |-> 0, rzp |-> None,
             inApp |-> FALSE]

(* row: the local refund it was made for, which Razorpay does not know.    *)
ProviderRows == [state : {"none", "pending", "processed", "failed"},
                 order : Orders \cup {None}, amount : Amounts \cup {0},
                 row : RefundIds \cup {None}]

EventIds == {"processed", "failed"} \X ProviderRefunds

EventStatus == {"ABSENT", "RECEIVED", "PROCESSING_FAILED", "PROCESSED",
                "IGNORED", "FAILED"}

Steps == {"idle", "insert", "call", "settle", "fail", "report", "lookup",
          "cancel", "record"}

Idle == [step |-> "idle", order |-> None, seen |-> "PAID", amount |-> 0,
         found |-> FALSE, refund |-> None, rzp |-> None, type |-> "processed",
         tries |-> 0]

Sessions == [step : Steps, order : Orders \cup {None}, seen : OrderStatus,
             amount : Amounts \cup {0}, found : BOOLEAN,
             refund : RefundIds \cup {None},
             rzp : ProviderRefunds \cup {None},
             type : {"processed", "failed", "pending"}, tries : Nat]

TypeOK ==
  /\ status \in [Orders -> OrderStatus]
  /\ captured \subseteq Orders /\ missed \subseteq Orders
  /\ refund \in [RefundIds -> RefundRows]
  /\ provider \in [ProviderRefunds -> ProviderRows]
  /\ event \in [EventIds -> [status : EventStatus, attempts : Nat]]
  /\ session \in [Workers -> Sessions]

Init ==
  /\ status = [o \in Orders |-> "PAID"]
  /\ captured \in SUBSET Orders /\ missed = {}
  /\ refund = [i \in RefundIds |-> NoRefund]
  /\ provider = [r \in ProviderRefunds |->
                   [state |-> "none", order |-> None, amount |-> 0, row |-> None]]
  /\ event = [e \in EventIds |-> [status |-> "ABSENT", attempts |-> 0]]
  /\ session = [w \in Workers |-> Idle]

-----------------------------------------------------------------------------
At(w, step) == session[w].step = step

Become(w, s) == session' = [session EXCEPT ![w] = s]

Finish(w) == Become(w, Idle)

(* The id the next INSERT gets.                                            *)
Free(i) == /\ i \in RefundIds
           /\ refund[i].status = "ABSENT"
           /\ \A j \in RefundIds : j < i => refund[j].status # "ABSENT"

RESERVING_STATUSES == {"PENDING", "PROCESSED"}

Reserving(o) == { i \in RefundIds : /\ refund[i].order = o
                                    /\ refund[i].status \in RESERVING_STATUSES }

Total(S) == MapThenSumSet(LAMBDA i : refund[i].amount, S)

Locked_NoRowLock(o) == FALSE

(* SELECT ... FOR UPDATE on the payment attempt of o: a second locker      *)
(* waits.                                                                  *)
Locked(o) == \E w \in Workers : At(w, "insert") /\ session[w].order = o

AttemptBusy_NoForeignKey(o) == FALSE

(* So does an INSERT whose foreign key refers to the attempt.              *)
AttemptBusy(o) == Locked(o)

-----------------------------------------------------------------------------
(* createRefund, phase 1: the balance is read under the lock.  An omitted  *)
(* amount is the whole captured amount.                                    *)
RefundLock(w, o) ==
  /\ At(w, "idle")
  /\ o \in captured
  /\ ~ Locked(o)
  /\ \E amount \in Amounts :
       /\ amount + Total(Reserving(o)) <= CapturedAmount
       /\ Become(w, [Idle EXCEPT !.step = "insert", !.order = o,
                                 !.amount = amount])
  /\ UNCHANGED <<captured, missed, status, refund, provider, event>>

RefundInsert(w) ==
  LET s == session[w] IN
  /\ At(w, "insert")
  /\ \E i \in RefundIds :
       /\ Free(i)
       /\ refund' = [refund EXCEPT
                       ![i] = [status |-> "PENDING", order |-> s.order,
                               amount |-> s.amount, rzp |-> None,
                               inApp |-> TRUE]]
       /\ Become(w, [s EXCEPT !.step = "call", !.refund = i])
  /\ UNCHANGED <<captured, missed, status, provider, event>>

(* Razorpay refunds at most what it captured.                              *)
Refundable(o, amount) ==
  amount + MapThenSumSet(LAMBDA r : provider[r].amount,
                         { r \in ProviderRefunds :
                             /\ provider[r].order = o
                             /\ provider[r].state # "failed" }) <= CapturedAmount

(* Phase 2, the call: no effect (no credentials, refused, unreachable),    *)
(* an effect whose answer is lost, or an answer that names the refund.     *)
CallProvider(w) ==
  LET s == session[w] IN
  /\ At(w, "call")
  /\ \/ /\ Become(w, [s EXCEPT !.step = "fail"])
        /\ UNCHANGED provider
     \/ \E r \in ProviderRefunds, state \in {"pending", "processed", "failed"} :
          /\ provider[r].state = "none"
          /\ Refundable(s.order, s.amount)
          /\ provider' = [provider EXCEPT
                            ![r] = [state |-> state, order |-> s.order,
                                    amount |-> s.amount, row |-> s.refund]]
          /\ \/ Become(w, [s EXCEPT !.step = "fail"])
             \/ Become(w, [s EXCEPT
                  !.step = IF state = "failed" THEN "fail" ELSE "settle",
                  !.rzp = r, !.type = state])
  /\ UNCHANGED <<captured, missed, status, refund, event>>

(* The update of the row the answer gives rise to, if it is still PENDING. *)
SettleRefund(w) ==
  LET s == session[w] IN
  /\ At(w, "settle")
  /\ refund' = IF refund[s.refund].status = "PENDING"
               THEN [refund EXCEPT
                       ![s.refund].status = IF s.type = "processed"
                                            THEN "PROCESSED" ELSE "PENDING",
                       ![s.refund].rzp = s.rzp]
               ELSE refund
  /\ Finish(w)
  /\ UNCHANGED <<captured, missed, status, provider, event>>

(* markFailed is a compare-and-swap on PENDING.                            *)
MayFail(i) == refund[i].status = "PENDING"

MarkFailed(w) ==
  LET s == session[w] IN
  /\ At(w, "fail")
  /\ refund' = IF MayFail(s.refund)
               THEN [refund EXCEPT ![s.refund].status = "FAILED",
                                   ![s.refund].rzp = s.rzp]
               ELSE refund
  /\ Finish(w)
  /\ UNCHANGED <<captured, missed, status, provider, event>>

-----------------------------------------------------------------------------
(* The webhooks, in WebhookProcessor.processOne.                           *)
Due(e) == event[e].status \in {"RECEIVED", "PROCESSING_FAILED"}

WithRefund(r) == { i \in RefundIds : refund[i].rzp = r }

Outcome_AsOrder(type) == IF type = "processed" THEN "REFUNDED" ELSE "FAILED"

Outcome(type) == IF type = "processed" THEN "PROCESSED" ELSE "FAILED"

(* applyRefundWebhookEvent, when the refund's id is on record.  The event  *)
(* is of the row's account and amount, being of the refund made for it.    *)
ApplyRefundWebhook(e) ==
  /\ Due(e)
  /\ \E i \in WithRefund(e[2]) :
       refund' = IF refund[i].status = "PENDING"
                 THEN [refund EXCEPT ![i].status = Outcome(e[1])] ELSE refund
  /\ event' = [event EXCEPT ![e].status = "PROCESSED"]
  /\ UNCHANGED <<captured, missed, status, provider, session>>

Unresolved_Ignored(tries) == [status |-> "IGNORED", attempts |-> tries]

(* The verdict on an event that names no local refund (yet).               *)
Unresolved(tries) ==
  [status |-> IF tries + 1 >= MAX_ATTEMPTS THEN "FAILED"
                                           ELSE "PROCESSING_FAILED",
   attempts |-> tries + 1]

(* It throws UnresolvedRefundWebhookError, which undoes the transaction.   *)
MissRefund(w, e) ==
  /\ At(w, "idle")
  /\ Due(e)
  /\ WithRefund(e[2]) = {}
  /\ Become(w, [Idle EXCEPT !.step = "report", !.type = e[1], !.rzp = e[2],
                            !.tries = event[e].attempts])
  /\ UNCHANGED <<captured, missed, status, refund, provider, event>>

(* safeUpdate, by the event's id alone.                                    *)
ReportMiss(w) ==
  LET s == session[w] IN
  /\ At(w, "report")
  /\ event' = [event EXCEPT ![<<s.type, s.rzp>>] = Unresolved(s.tries)]
  /\ Finish(w)
  /\ UNCHANGED <<captured, missed, status, refund, provider>>

-----------------------------------------------------------------------------
(* OrdersService.  The order is read and the test of the move made, then   *)
(* the captured attempt is looked for, all before the transaction.         *)
CancelRead(w, o) ==
  /\ At(w, "idle")
  /\ isTransitionAllowed(status[o], "CANCELLED")
  /\ Become(w, [Idle EXCEPT !.step = "lookup", !.order = o, !.seen = status[o]])
  /\ UNCHANGED <<captured, missed, status, refund, provider, event>>

CancelLookup(w) ==
  LET s == session[w] IN
  /\ At(w, "lookup")
  /\ Become(w, [s EXCEPT !.step = "cancel", !.found = s.order \in captured])
  /\ UNCHANGED <<captured, missed, status, refund, provider, event>>

CasSucceeds(o, seen) == status[o] = seen

CasTo(o, seen, to) == IF CasSucceeds(o, seen) THEN [status EXCEPT ![o] = to]
                                              ELSE status

NeedsRefund_WhilePaid(s) == s.found /\ s.seen = "PAID"

(* orderNeedsRefund, of the attempt the cancellation found, if it did.     *)
NeedsRefund(s) == s.found

Owe(o, i) == [refund EXCEPT
                ![i] = [status |-> "PENDING", order |-> o,
                        amount |-> CapturedAmount, rzp |-> None,
                        inApp |-> FALSE]]

(* performCancellation's transaction: the refund is recorded as owed, then *)
(* the order moved, if it still is as it was read.                         *)
CancelCommit(w) ==
  LET s == session[w] IN
  /\ At(w, "cancel")
  /\ \/ /\ NeedsRefund(s)
        /\ ~ AttemptBusy(s.order)
        /\ \E i \in RefundIds : Free(i) /\ refund' = Owe(s.order, i)
     \/ ~ NeedsRefund(s) /\ UNCHANGED refund
  /\ status' = CasTo(s.order, s.seen, "CANCELLED")
  /\ missed' = IF CasSucceeds(s.order, s.seen) /\ ~ s.found
               THEN missed \cup {s.order} ELSE missed
  /\ Finish(w)
  /\ UNCHANGED <<captured, provider, event>>

RecordRead(w, o) ==
  /\ At(w, "idle")
  /\ isTransitionAllowed(status[o], "REFUNDED")
  /\ Become(w, [Idle EXCEPT !.step = "record", !.order = o, !.seen = status[o]])
  /\ UNCHANGED <<captured, missed, status, refund, provider, event>>

(* performRefundRecording's transaction: whatever is pending for the order *)
(* counts as made, then the order is moved.                                *)
RecordCommit(w) ==
  LET s == session[w] IN
  /\ At(w, "record")
  /\ refund' = [i \in RefundIds |->
                  IF refund[i].order = s.order /\ refund[i].status = "PENDING"
                  THEN [refund[i] EXCEPT !.status = "PROCESSED"] ELSE refund[i]]
  /\ status' = CasTo(s.order, s.seen, "REFUNDED")
  /\ Finish(w)
  /\ UNCHANGED <<captured, missed, provider, event>>

AdminTransition(o, to) ==
  /\ isTransitionAllowed(status[o], to)
  /\ status' = [status EXCEPT ![o] = to]
  /\ UNCHANGED <<captured, missed, refund, provider, event, session>>

(* A webhook captures the payment of an order that is PAID or further on   *)
(* already: the attempt becomes CAPTURED, the order is left as it is.      *)
PaymentCaptured(o) ==
  /\ o \notin captured
  /\ captured' = captured \cup {o}
  /\ UNCHANGED <<missed, status, refund, provider, event, session>>

(* The request fails or the process dies between two steps.                *)
Abandon(w) ==
  /\ ~ At(w, "idle")
  /\ Finish(w)
  /\ UNCHANGED <<captured, missed, status, refund, provider, event>>

-----------------------------------------------------------------------------
(* Razorpay: a pending refund settles; the staff refund in its dashboard,  *)
(* of which the shop has no row; events are delivered late or never.       *)
ProviderSettles(r) ==
  /\ provider[r].state = "pending"
  /\ \E state \in {"processed", "failed"} :
       provider' = [provider EXCEPT ![r].state = state]
  /\ UNCHANGED <<captured, missed, status, refund, event, session>>

DashboardRefund(r, o) ==
  /\ provider[r].state = "none" /\ o \in captured
  /\ \E amount \in Amounts :
       /\ Refundable(o, amount)
       /\ provider' = [provider EXCEPT
                         ![r] = [state |-> "processed", order |-> o,
                                 amount |-> amount, row |-> None]]
  /\ UNCHANGED <<captured, missed, status, refund, event, session>>

ReceiveRefundWebhook(e) ==
  /\ provider[e[2]].state = e[1]
  /\ event[e].status = "ABSENT"
  /\ event' = [event EXCEPT ![e].status = "RECEIVED"]
  /\ UNCHANGED <<captured, missed, status, refund, provider, session>>

-----------------------------------------------------------------------------
Handler(w) ==
  \/ \E o \in Orders : RefundLock(w, o) \/ CancelRead(w, o) \/ RecordRead(w, o)
  \/ RefundInsert(w) \/ CallProvider(w) \/ SettleRefund(w) \/ MarkFailed(w)
  \/ \E e \in EventIds : MissRefund(w, e)
  \/ ReportMiss(w) \/ CancelLookup(w) \/ CancelCommit(w) \/ RecordCommit(w)
  \/ Abandon(w)

World ==
  \/ \E e \in EventIds : ApplyRefundWebhook(e) \/ ReceiveRefundWebhook(e)
  \/ \E o \in Orders, to \in AdminTargets : AdminTransition(o, to)
  \/ \E o \in Orders : PaymentCaptured(o)
  \/ \E r \in ProviderRefunds : ProviderSettles(r)
  \/ \E r \in ProviderRefunds, o \in Orders : DashboardRefund(r, o)

Next == (\E w \in Workers : Handler(w)) \/ World

Spec == Init /\ [][Next]_vars

-----------------------------------------------------------------------------
(* PROPERTIES                                                              *)

(* What the shop asks the provider to refund never exceeds what was        *)
(* captured, although requests for one payment run at once: createRefund's *)
(* balance is read and used up under one lock.                             *)
InAppWithinCaptured ==
  \A o \in Orders : Total({ i \in Reserving(o) : refund[i].inApp }) <= CapturedAmount

(* A refund settles once: neither the answer to the call, nor a webhook,   *)
(* nor REFUNDED recorded by the staff rewrites what another has settled.   *)
RefundSettlesOnce ==
  [][\A i \in RefundIds : refund[i].status \in {"PROCESSED", "FAILED"} =>
                           refund'[i] = refund[i]]_vars

(* A refund event is written off as handled only once the local refund it  *)
(* names is settled: an event that overtakes the answer to the call it     *)
(* stems from is not lost.                                                 *)
AppliedMeansSettled ==
  \A e \in EventIds : event[e].status \in {"PROCESSED", "IGNORED"} =>
    \E i \in WithRefund(e[2]) : refund[i].status \in {"PROCESSED", "FAILED"}

(* A cancelled order's money is on record as owed or returned, whatever    *)
(* refunds, recordings and other cancellations were under way: unless it   *)
(* was captured only after the cancellation had looked for it.             *)
CancelledIsOwed ==
  \A o \in Orders : status[o] = "CANCELLED" /\ o \notin missed =>
    \E i \in Reserving(o) : ~ refund[i].inApp /\ refund[i].amount = CapturedAmount

(* The refunds table as its readers see it, without Razorpay's ids.        *)
Entries == [i \in RefundIds |->
              [status |-> refund[i].status, order |-> refund[i].order,
               amount |-> refund[i].amount, inApp |-> refund[i].inApp]]

Book == INSTANCE RefundBook WITH entry <- Entries

(* All that is in flight between requests, provider, webhooks and staff    *)
(* comes to one book of refunds: every row is entered in one step, one of  *)
(* createRefund only if there is room for it beside all that is refunded   *)
(* or owed at its insert, and not only when the balance was read; and it   *)
(* settles once.                                                           *)
KeepsBook == Book!BookSpec

(* refunds.service.ts: "a FAILED refund never moved money".                *)
FailedNeverMovedMoney ==
  \A i \in RefundIds, r \in ProviderRefunds :
    refund[i].status = "FAILED" /\ provider[r].row = i =>
      provider[r].state # "processed"

=============================================================================
