--------------------------- MODULE Subscriptions ---------------------------
(***************************************************************************)
(* One tenant's SaaS subscription: the row in the database, the            *)
(* subscription at the billing provider (Razorpay), the webhooks that      *)
(* carry news of the one to the other, the tenant's requests, and the      *)
(* crons.  A worker is a request, a cron tick or the processing of one     *)
(* event, cut at each commit and around each provider call; everything it  *)
(* does after its read is decided on what it read.                         *)
(***************************************************************************)
EXTENDS Naturals, FiniteSets

CONSTANTS
  Plans,         \* plans a tenant can subscribe to
  Workers,       \* requests, ticks and events that can be in flight at once
  Keys,          \* Idempotency-Key headers the tenant ever sends
  MAX_ATTEMPTS,  \* retry budget of an event (6 in the code)
  MaxPeriod,     \* bound: billing periods after the first
  MaxEvents,     \* bound: webhook events of the provider
  MaxFaults,     \* bound: unusable answers, database errors, dead processes
  None

ASSUME SubscriptionConstants ==
  /\ MAX_ATTEMPTS \in Nat \ {0}
  /\ MaxPeriod \in Nat /\ MaxEvents \in Nat /\ MaxFaults \in Nat
  /\ None \notin Plans \cup Keys

VARIABLES
  sub,      \* the tenant's row of subscriptions
  prov,     \* the provider's subscription
  event,    \* billing_webhook_events
  claimed,  \* keys in idempotency_keys
  session,  \* per worker: how far it is, and what it has read
  granted,  \* plans the provider has ever accepted for this tenant
  calls,    \* per key: mutating requests sent to the provider
  faults

vars == <<sub, prov, event, claimed, session, granted, calls, faults>>

-----------------------------------------------------------------------------
SubscriptionStatus ==
  {"PENDING", "TRIALING", "ACTIVE", "PAST_DUE", "PAUSED", "CANCELLED", "EXPIRED"}

SUBSCRIPTION_STATE_TRANSITIONS ==
  [ABSENT    |-> {},
   PENDING   |-> {"TRIALING", "ACTIVE"},
   TRIALING  |-> {"ACTIVE", "PAST_DUE"},
   ACTIVE    |-> {"ACTIVE", "PAST_DUE", "CANCELLED"},
   PAST_DUE  |-> {"ACTIVE", "PAUSED", "CANCELLED"},
   PAUSED    |-> {"ACTIVE", "CANCELLED", "EXPIRED"},
   CANCELLED |-> {"ACTIVE", "EXPIRED"},
   EXPIRED   |-> {}]

Periods == 0 .. MaxPeriod

(* period: number of the period that currentPeriodStart begins; overdue:   *)
(* graceEndsAt of a PAST_DUE row, or retentionEndsAt of a CANCELLED one,   *)
(* has passed.  A row is linked to the provider once it leaves PENDING.    *)
Row == [status : SubscriptionStatus \cup {"ABSENT"}, plan : Plans \cup {None},
        pendingPlan : Plans \cup {None}, cancelAtPeriodEnd : BOOLEAN,
        period : Periods, overdue : BOOLEAN]

NoRow == [status |-> "ABSENT", plan |-> None, pendingPlan |-> None,
          cancelAtPeriodEnd |-> FALSE, period |-> 0, overdue |-> FALSE]

EventKinds == {"payment_failed", "renewed", "recovered", "cancelled"}

(* fresh: the event's time is later than the row's updatedAt.              *)
Event == [status : {"ABSENT", "RECEIVED", "PROCESSING_FAILED", "PROCESSED",
                    "IGNORED", "FAILED"},
          kind : EventKinds \cup {None}, period : Periods,
          fresh : BOOLEAN, attempts : 0 .. MAX_ATTEMPTS]

NoEvent == [status |-> "ABSENT", kind |-> None, period |-> 0,
            fresh |-> FALSE, attempts |-> 0]

EventIds == 1 .. MaxEvents

Requests == {"upgrade", "downgrade", "cancel", "scheduleCancellation",
             "unscheduleCancellation", "resume"}

Steps == {"idle", "create", "created", "pending", "call", "unknown", "apply",
          "period", "downgrade", "downgraded", "stop", "stopped", "renew",
          "overdue", "event", "failed", "rejected"}

Session == [step : Steps, op : Requests \cup {None}, key : Keys \cup {None},
            toPlan : Plans \cup {None}, id : {0} \cup EventIds,
            read : Row, seen : Periods, attempts : 0 .. MAX_ATTEMPTS]

Idle == [step |-> "idle", op |-> None, key |-> None, toPlan |-> None,
         id |-> 0, read |-> NoRow, seen |-> 0, attempts |-> 0]

TypeOK ==
  /\ sub \in Row
  /\ prov \in [plan : Plans \cup {None}, next : Plans \cup {None},
               period : Periods,
               state : {"none", "active", "unpaid", "cancelled"}]
  /\ event \in [EventIds -> Event]
  /\ claimed \subseteq Keys
  /\ session \in [Workers -> Session]
  /\ granted \subseteq Plans
  /\ calls \in [Keys -> Nat]
  /\ faults \in 0 .. MaxFaults

Init ==
  /\ sub = NoRow
  /\ prov = [plan |-> None, next |-> None, period |-> 0, state |-> "none"]
  /\ event = [e \in EventIds |-> NoEvent]
  /\ claimed = {}
  /\ session = [w \in Workers |-> Idle]
  /\ granted = {}
  /\ calls = [k \in Keys |-> 0]
  /\ faults = 0

-----------------------------------------------------------------------------
(* SubscriptionService.  A method is given the row as its caller once read *)
(* it: it does nothing if there is nothing to do, throws 409 if the move   *)
(* is not legal, and otherwise updates the row if it still is as read.     *)

Method(noop, legal, unchanged, row) ==
  [noop |-> noop, legal |-> legal, unchanged |-> unchanged, row |-> row]

Moves_WithoutCas(read, to) ==
  Method(read.status = to, to \in SUBSCRIPTION_STATE_TRANSITIONS[read.status],
         TRUE, [sub EXCEPT !.status = to, !.overdue = FALSE])

Moves(read, to) ==
  Method(read.status = to, to \in SUBSCRIPTION_STATE_TRANSITIONS[read.status],
         sub.status = read.status,
         [sub EXCEPT !.status = to, !.overdue = FALSE])

(* Operations on a subscription that stays ACTIVE.                         *)
Keeps(read, noop, unchanged, row) ==
  Method(noop, read.status = "ACTIVE",
         sub.status = read.status /\ unchanged, row)

recordPaymentFailure(read) == Moves(read, "PAST_DUE")

recoverPayment(read) == Moves(read, "ACTIVE")

exhaustGrace(read) == Moves(read, "PAUSED")

cancel(read) == Moves(read, "CANCELLED")

reactivate(read) == Moves(read, "ACTIVE")

expire(read) == Moves(read, "EXPIRED")

confirmUpgrade(read, toPlan) ==
  Keeps(read, read.plan = toPlan, sub.plan = read.plan,
        [sub EXCEPT !.plan = toPlan])

scheduleDowngrade(read, toPlan) ==
  Keeps(read, read.pendingPlan = toPlan, sub.pendingPlan = read.pendingPlan,
        [sub EXCEPT !.pendingPlan = toPlan])

applyScheduledDowngrade(read, period) ==
  Keeps(read, read.pendingPlan = None, sub.pendingPlan = read.pendingPlan,
        [sub EXCEPT !.plan = read.pendingPlan, !.pendingPlan = None,
                    !.period = period])

confirmRenewal_NextPeriod(read, period) ==
  Keeps(read, read.period = period, sub.period = read.period,
        [sub EXCEPT !.period = period + 1])

confirmRenewal(read, period) ==
  Keeps(read, read.period = period, sub.period = read.period,
        [sub EXCEPT !.period = period])

scheduleCancellation(read) ==
  Keeps(read, read.cancelAtPeriodEnd, ~ sub.cancelAtPeriodEnd,
        [sub EXCEPT !.cancelAtPeriodEnd = TRUE])

unscheduleCancellation(read) ==
  Keeps(read, ~ read.cancelAtPeriodEnd, sub.cancelAtPeriodEnd,
        [sub EXCEPT !.cancelAtPeriodEnd = FALSE])

Conflict(m) == ~ m.noop /\ ~ m.legal

Applies(m) == ~ m.noop /\ m.legal /\ m.unchanged

Outcome(m) == IF Applies(m) THEN m.row ELSE sub

(* Whatever was sent before a write of the row is older than it.           *)
Outdated(m) ==
  IF Applies(m) THEN [e \in EventIds |-> [event[e] EXCEPT !.fresh = FALSE]]
                ELSE event

-----------------------------------------------------------------------------
At(w, step) == session[w].step = step

(* A read of the row; nothing depends on the deadline it shows.            *)
Snapshot == [sub EXCEPT !.overdue = FALSE]

Become(w, s) == session' = [session EXCEPT ![w] = s]

GoTo(w, step) == Become(w, [session[w] EXCEPT !.step = step])

Lose == faults < MaxFaults /\ faults' = faults + 1

(* A call to a service method, after which the worker continues as s.      *)
Call(w, m, s) ==
  /\ sub' = Outcome(m)
  /\ event' = Outdated(m)
  /\ Become(w, s)
  /\ UNCHANGED <<prov, claimed, granted, calls, faults>>

-----------------------------------------------------------------------------
(* createSubscription: first at the provider, then a PENDING row, then its *)
(* activation, each committed by itself.                                   *)

Create(w, plan) ==
  /\ At(w, "idle")
  /\ sub.status = "ABSENT"
  /\ Become(w, [Idle EXCEPT !.step = "create", !.toPlan = plan])
  /\ UNCHANGED <<sub, prov, event, claimed, granted, calls, faults>>

(* The provider makes a subscription; or none is made and the request      *)
(* fails; or one is made and it fails all the same, for the answer is lost *)
(* or has no confirmed period.                                             *)
CreateAtProvider(w) ==
  LET Makes == granted' = granted \cup {session[w].toPlan} IN
  /\ At(w, "create")
  /\ \/ Makes /\ GoTo(w, "created") /\ UNCHANGED faults
     \/ Become(w, Idle) /\ UNCHANGED <<granted, faults>>
     \/ Lose /\ Become(w, Idle) /\ Makes
  /\ UNCHANGED <<sub, prov, event, claimed, calls>>

(* tenantId is unique: a request that lost the race fails here.  What the  *)
(* provider has made for it stays behind, as it does after a crash.        *)
createPendingSubscription(w) ==
  LET s == session[w] IN
  /\ At(w, "created")
  /\ IF sub.status = "ABSENT"
       THEN /\ sub' = [NoRow EXCEPT !.status = "PENDING", !.plan = s.toPlan]
            /\ Become(w, [s EXCEPT !.step = "pending", !.read = sub'])
       ELSE Become(w, Idle) /\ UNCHANGED sub
  /\ UNCHANGED <<prov, event, claimed, granted, calls, faults>>

confirmActivation(w) ==
  LET s == session[w] IN
  /\ At(w, "pending")
  /\ \E status \in {"TRIALING", "ACTIVE"} : sub' = Outcome(Moves(s.read, status))
  /\ prov' = [prov EXCEPT !.plan = s.toPlan, !.state = "active"]
  /\ Become(w, Idle)
  /\ UNCHANGED <<event, claimed, granted, calls, faults>>

-----------------------------------------------------------------------------
(* The tenant's requests.                                                  *)

ToPlan(op) == IF op \in {"upgrade", "downgrade"} THEN Plans ELSE {None}

(* A request as its method treats it: whether the provider is called for   *)
(* the row as read, what the provider makes of the call, whether its state *)
(* shows after a timeout that it did, and what is then recorded.           *)
Treatment(proceeds, accepted, confirmed, records) ==
  [proceeds |-> proceeds, accepted |-> accepted,
   confirmed |-> confirmed, records |-> records]

upgrade_Optimistic(read, toPlan) ==
  Treatment(read.status = "ACTIVE" /\ read.plan # toPlan,
            [prov EXCEPT !.plan = toPlan],
            TRUE,
            confirmUpgrade(read, toPlan))

upgrade(read, toPlan) ==
  Treatment(read.status = "ACTIVE" /\ read.plan # toPlan,
            [prov EXCEPT !.plan = toPlan],
            prov.plan = toPlan,
            confirmUpgrade(read, toPlan))

downgrade(read, toPlan) ==
  Treatment(read.status = "ACTIVE" /\ read.pendingPlan # toPlan,
            [prov EXCEPT !.next = toPlan],
            FALSE,
            scheduleDowngrade(read, toPlan))

immediateCancellationFlow(read) ==
  Treatment(read.status \in {"ACTIVE", "PAST_DUE", "PAUSED"},
            [prov EXCEPT !.state = "cancelled"],
            FALSE,
            cancel(read))

(* A cancellation at the end of the period is kept from Razorpay.          *)
scheduleCancellationFlow(read) ==
  Treatment(read.status = "ACTIVE" /\ ~ read.cancelAtPeriodEnd,
            prov, FALSE, scheduleCancellation(read))

unscheduleCancellationFlow(read) ==
  Treatment(read.status = "ACTIVE" /\ read.cancelAtPeriodEnd,
            prov, FALSE, unscheduleCancellation(read))

(* After a timeout any answer passes for a resumption.                     *)
resume(read) ==
  Treatment(read.status \in {"PAST_DUE", "PAUSED", "CANCELLED"},
            [prov EXCEPT !.state = "active"],
            TRUE,
            IF read.status = "CANCELLED" THEN reactivate(read) ELSE recoverPayment(read))

Treated(op, read, toPlan) ==
  CASE op = "upgrade"                -> upgrade(read, toPlan)
    [] op = "downgrade"              -> downgrade(read, toPlan)
    [] op = "cancel"                 -> immediateCancellationFlow(read)
    [] op = "scheduleCancellation"   -> scheduleCancellationFlow(read)
    [] op = "unscheduleCancellation" -> unscheduleCancellationFlow(read)
    [] op = "resume"                 -> resume(read)

KeyIsFree_LookupOnly(k) == \A w \in Workers : session[w].key = k => At(w, "idle")

(* A key that is claimed, by whatever request and whatever became of it,   *)
(* is answered with the current row.                                       *)
KeyIsFree(k) == k \notin claimed

(* withIdempotency: the claim is committed before anything else is done.   *)
Request(w, k, op, toPlan) ==
  /\ At(w, "idle")
  /\ sub.status # "ABSENT"
  /\ KeyIsFree(k)
  /\ claimed' = claimed \cup {k}
  /\ IF Treated(op, sub, toPlan).proceeds
       THEN Become(w, [Idle EXCEPT !.step = "call", !.op = op, !.key = k,
                                   !.toPlan = toPlan, !.read = Snapshot])
       ELSE UNCHANGED session
  /\ UNCHANGED <<sub, prov, event, granted, calls, faults>>

Grants(op, toPlan) ==
  granted' = IF op \in {"upgrade", "downgrade"} THEN granted \cup {toPlan} ELSE granted

(* The call is accepted; or rejected; or it times out, accepted or not.    *)
CallProvider(w) ==
  LET s == session[w]
      Takes == /\ prov' = Treated(s.op, s.read, s.toPlan).accepted
               /\ Grants(s.op, s.toPlan)
  IN
  /\ At(w, "call")
  /\ calls' = [calls EXCEPT ![s.key] = @ + 1]
  /\ \/ Takes /\ GoTo(w, "apply") /\ UNCHANGED faults
     \/ Become(w, Idle) /\ UNCHANGED <<prov, granted, faults>>
     \/ /\ Lose
        /\ GoTo(w, "unknown")
        /\ Takes \/ UNCHANGED <<prov, granted>>
  /\ UNCHANGED <<sub, event, claimed>>

(* attemptReconciliationRead, which may fail as well: 503.                 *)
ReconcileTimeout(w) ==
  LET s == session[w]
      Confirmed == Treated(s.op, s.read, s.toPlan).confirmed
  IN
  /\ At(w, "unknown")
  /\ Become(w, Idle) \/ (Confirmed /\ GoTo(w, "apply"))
  /\ UNCHANGED <<sub, prov, event, claimed, granted, calls, faults>>

ApplyRequest(w) ==
  LET s == session[w] IN
  At(w, "apply") /\ Call(w, Treated(s.op, s.read, s.toPlan).records, Idle)

-----------------------------------------------------------------------------
(* The crons.                                                              *)

(* reconcilePeriod of an ACTIVE subscription.                              *)
Reconcile(w) ==
  /\ At(w, "idle")
  /\ sub.status = "ACTIVE"
  /\ Become(w, [Idle EXCEPT !.step = "period", !.read = Snapshot])
  /\ UNCHANGED <<sub, prov, event, claimed, granted, calls, faults>>

boundaryReached(read) == prov.period > read.period

Scheduled(read) ==
  CASE read.pendingPlan # None -> "downgrade"
    [] read.cancelAtPeriodEnd  -> "stop"
    [] OTHER                   -> "renew"

(* A failed read ends the tick as a crash would.                           *)
ReadPeriod(w) ==
  LET s == session[w] IN
  /\ At(w, "period")
  /\ IF boundaryReached(s.read)
       THEN Become(w, [s EXCEPT !.step = Scheduled(s.read), !.seen = prov.period])
       ELSE Become(w, Idle)
  /\ UNCHANGED <<sub, prov, event, claimed, granted, calls, faults>>

ThenStop(s, updated) ==
  IF updated.status = "ACTIVE" /\ updated.cancelAtPeriodEnd
    THEN [s EXCEPT !.step = "stop", !.read = updated]
    ELSE Idle

ApplyDowngrade(w) ==
  LET s == session[w]
      m == applyScheduledDowngrade(s.read, s.seen)
  IN
  /\ At(w, "downgrade")
  /\ Call(w, m, IF Applies(m) THEN [s EXCEPT !.step = "downgraded"] ELSE ThenStop(s, s.read))

(* What was updated is read again.                                         *)
Downgraded(w) ==
  /\ At(w, "downgraded")
  /\ Become(w, ThenStop(session[w], Snapshot))
  /\ UNCHANGED <<sub, prov, event, claimed, granted, calls, faults>>

(* The scheduled cancellation.  Any error ends the tick.                   *)
StopBilling(w) ==
  LET Stops == prov' = [prov EXCEPT !.state = "cancelled"] IN
  /\ At(w, "stop")
  /\ \/ Stops /\ GoTo(w, "stopped") /\ UNCHANGED faults
     \/ Lose /\ Become(w, Idle) /\ (Stops \/ UNCHANGED prov)
  /\ UNCHANGED <<sub, event, claimed, granted, calls>>

Stopped(w) == At(w, "stopped") /\ Call(w, cancel(session[w].read), Idle)

Renew(w) ==
  LET s == session[w] IN
  At(w, "renew") /\ Call(w, confirmRenewal(s.read, s.seen), Idle)

(* runGraceExhaustion and runCancellationExpiration select their batch ... *)
FindOverdue(w) ==
  /\ At(w, "idle")
  /\ sub.overdue /\ sub.status \in {"PAST_DUE", "CANCELLED"}
  /\ Become(w, [Idle EXCEPT !.step = "overdue", !.read = Snapshot])
  /\ UNCHANGED <<sub, prov, event, claimed, granted, calls, faults>>

AfterDeadline(read) ==
  IF read.status = "PAST_DUE" THEN exhaustGrace(read) ELSE expire(read)

(* ... and work through it.                                                *)
EndOverdue(w) == At(w, "overdue") /\ Call(w, AfterDeadline(session[w].read), Idle)

-----------------------------------------------------------------------------
(* Webhooks.                                                               *)

(* The provider's news arrive, once or repeatedly: one row per event.  It  *)
(* may be processed long after.  No row is made for what never arrives, or *)
(* seems older than the row's last write because its time has whole        *)
(* seconds: such events are without effect.                                *)
Receive(kind, period) ==
  \/ UNCHANGED event
  \/ \E e \in EventIds :
       /\ event[e].status = "ABSENT"
       /\ \A d \in EventIds : event[d].status = "ABSENT" => e <= d
       /\ event' = [event EXCEPT ![e] =
            [NoEvent EXCEPT !.status = "RECEIVED", !.kind = kind,
                            !.period = period, !.fresh = TRUE]]

(* What a concluded event said is of no further interest, unless a failure *)
(* to process it is still to be recorded.                                  *)
Disputed(e) ==
  \E w \in Workers : session[w].step \in {"failed", "rejected"} /\ session[w].id = e

Concluded(events, e, status) ==
  [events EXCEPT ![e] = IF Disputed(e) THEN [@ EXCEPT !.status = status]
                                       ELSE [NoEvent EXCEPT !.status = status]]

Unprocessed == {"RECEIVED", "PROCESSING_FAILED"}

Locked(e) == \E w \in Workers : At(w, "event") /\ session[w].id = e   \* FOR UPDATE

Due(e) == event[e].status \in Unprocessed /\ ~ Locked(e)

IsNews_Always(e) == sub.status \notin {"ABSENT", "PENDING"}

(* A linked row, and an event later than its last update.                  *)
IsNews(e) == sub.status \notin {"ABSENT", "PENDING"} /\ event[e].fresh

ProcessEvent(w, e) ==
  /\ At(w, "idle")
  /\ Due(e)
  /\ IF IsNews(e)
       THEN /\ Become(w, [Idle EXCEPT !.step = "event", !.id = e, !.read = Snapshot])
            /\ UNCHANGED event
       ELSE /\ event' = Concluded(event, e, "IGNORED")
            /\ UNCHANGED session
  /\ UNCHANGED <<sub, prov, claimed, granted, calls, faults>>

(* A transaction has rolled back, its lock on the event gone: the failure  *)
(* of this attempt is still to be recorded.                                *)
Failed(step, e, attempts) ==
  [Idle EXCEPT !.step = step, !.id = e, !.attempts = attempts + 1]

(* The transaction fails before an event is looked at, or while it is set  *)
(* aside: attempts are counted from 0 unless the row had been read.        *)
MissEvent(w, e) ==
  /\ At(w, "idle")
  /\ event[e].status \in Unprocessed
  /\ Lose
  /\ \E attempts \in {0, event[e].attempts} : Become(w, Failed("failed", e, attempts))
  /\ UNCHANGED <<sub, prov, event, claimed, granted, calls>>

applyBillingWebhookEvent(ev, read) ==
  CASE ev.kind = "payment_failed" -> recordPaymentFailure(read)
    [] ev.kind = "cancelled"      -> cancel(read)
    [] ev.kind = "renewed" /\ read.status # "PAST_DUE" ->
         confirmRenewal(read, ev.period)
    [] OTHER                      -> recoverPayment(read)

(* Applied, or found to have lost a race, the event is PROCESSED; a 409 or *)
(* an error rolls everything back.                                         *)
FinishEvent(w) ==
  LET s == session[w]
      ev == event[s.id]
      m == applyBillingWebhookEvent(ev, s.read)
      Fails(step) == Become(w, Failed(step, s.id, ev.attempts))
  IN
  /\ At(w, "event")
  /\ \/ /\ ~ Conflict(m)
        /\ sub' = Outcome(m)
        /\ event' = Concluded(Outdated(m), s.id, "PROCESSED")
        /\ Become(w, Idle)
        /\ UNCHANGED faults
     \/ Conflict(m) /\ Fails("rejected") /\ UNCHANGED <<sub, event, faults>>
     \/ Lose /\ Fails("failed") /\ UNCHANGED <<sub, event>>
  /\ UNCHANGED <<prov, claimed, granted, calls>>

(* safeUpdate: whatever has become of the event meanwhile, it is given up  *)
(* after a 409 or MAX_ATTEMPTS errors, and is due again otherwise.         *)
AfterError(s) ==
  IF s.step = "rejected" \/ s.attempts >= MAX_ATTEMPTS
    THEN "FAILED" ELSE "PROCESSING_FAILED"

RecordFailure(w) ==
  LET s == session[w] IN
  /\ s.step \in {"failed", "rejected"} /\ ~ Locked(s.id)
  /\ event' = [event EXCEPT ![s.id].status = AfterError(s), ![s.id].attempts = s.attempts]
  /\ Become(w, Idle)
  /\ UNCHANGED <<sub, prov, claimed, granted, calls, faults>>

-----------------------------------------------------------------------------
(* The world: the provider bills, and time passes.                         *)

(* A period is a month: no tick that has read the provider's period is     *)
(* still running when the next one begins.                                 *)
ProviderRenews ==
  /\ prov.state = "active" /\ prov.period < MaxPeriod
  /\ \A w \in Workers :
       session[w].step \notin {"downgrade", "downgraded", "stop", "stopped", "renew"}
  /\ prov' = [prov EXCEPT !.period = @ + 1, !.next = None,
                          !.plan = IF prov.next = None THEN @ ELSE prov.next]
  /\ Receive("renewed", prov'.period)
  /\ UNCHANGED <<sub, claimed, session, granted, calls, faults>>

ProviderReports(from, to, kinds) ==
  /\ prov.state \in from
  /\ prov' = [prov EXCEPT !.state = to]
  /\ \E kind \in kinds : Receive(kind, prov.period)
  /\ UNCHANGED <<sub, claimed, session, granted, calls, faults>>

PaymentFails == ProviderReports({"active"}, "unpaid", {"payment_failed"})

PaymentRecovers == ProviderReports({"unpaid"}, "active", {"renewed", "recovered"})

ProviderCancels == ProviderReports({"active", "unpaid"}, "cancelled", {"cancelled"})

DeadlinePasses ==
  /\ sub.status \in {"PAST_DUE", "CANCELLED"} /\ ~ sub.overdue
  /\ sub' = [sub EXCEPT !.overdue = TRUE]
  /\ UNCHANGED <<prov, event, claimed, session, granted, calls, faults>>

(* A process dies, or a query of it fails; open transactions roll back.    *)
Crash(w) ==
  /\ ~ At(w, "idle")
  /\ Lose
  /\ Become(w, Idle)
  /\ UNCHANGED <<sub, prov, event, claimed, granted, calls>>

World == ProviderRenews \/ PaymentFails \/ PaymentRecovers \/ ProviderCancels \/ DeadlinePasses

Step(w) ==
  \/ CreateAtProvider(w) \/ createPendingSubscription(w) \/ confirmActivation(w)
  \/ CallProvider(w) \/ ReconcileTimeout(w) \/ ApplyRequest(w)
  \/ ReadPeriod(w) \/ ApplyDowngrade(w) \/ Downgraded(w)
  \/ StopBilling(w) \/ Stopped(w) \/ Renew(w)
  \/ EndOverdue(w) \/ FinishEvent(w) \/ RecordFailure(w)

Next ==
  \/ World
  \/ \E w \in Workers :
       \/ \E plan \in Plans : Create(w, plan)
       \/ \E k \in Keys, op \in Requests : \E toPlan \in ToPlan(op) : Request(w, k, op, toPlan)
       \/ Reconcile(w) \/ FindOverdue(w)
       \/ \E e \in EventIds : ProcessEvent(w, e) \/ MissEvent(w, e)
       \/ Step(w) \/ Crash(w)

Spec == Init /\ [][Next]_vars

(* The reconciliation ticks for ever, events are processed, and what has   *)
(* been started is carried on; the tenant and the provider owe nothing.    *)
FairSpec ==
  /\ Spec
  /\ SF_vars(\E w \in Workers : Reconcile(w))
  /\ \A e \in EventIds : SF_vars(\E w \in Workers : ProcessEvent(w, e))
  /\ \A w \in Workers : WF_vars(Step(w))

-----------------------------------------------------------------------------
(* PROPERTIES                                                              *)

(* The row itself, whatever stale reads its writers decided on, only ever  *)
(* makes the moves of the state machine; EXPIRED is for good.              *)
FollowsStateMachine ==
  [][sub'.status # sub.status =>
       \/ sub.status = "ABSENT" /\ sub'.status = "PENDING"
       \/ sub'.status \in SUBSCRIPTION_STATE_TRANSITIONS[sub.status]]_vars

AcceptedOnly ==
  sub.status \notin {"ABSENT", "PENDING"} =>
    sub.plan \in granted /\ sub.pendingPlan \in granted \cup {None}

CarriedThrough ==
  faults = 0 /\ granted # {} =>
    \/ sub.status \notin {"ABSENT", "PENDING"}
    \/ \E w \in Workers : session[w].step \in {"created", "pending"}

(* "Never optimistic": a tenant is given, or promised, a plan only once    *)
(* the provider has accepted it, timeouts included; and a creation the     *)
(* provider has accepted is carried through, by one of the requests that   *)
(* race for it, unless an answer is lost or a process dies.                *)
PlanWasAccepted == AcceptedOnly /\ CarriedThrough

(* Late, repeated and racing news of renewals never move the row back to   *)
(* an earlier period, nor ahead of the provider.                           *)
PeriodIsConfirmed ==
  [][sub'.period >= sub.period /\ sub'.period <= prov'.period]_vars

(* One Idempotency-Key makes at most one call to the provider.             *)
KeyCallsOnce == \A k \in Keys : calls[k] <= 1

(* DECISIONS.md P7-D5 part D: when the confirmed boundary is reached and   *)
(* cancelAtPeriodEnd is still true, the subscription is cancelled.         *)
ScheduledCancellationIsApplied ==
  (sub.status = "ACTIVE" /\ sub.cancelAtPeriodEnd /\ prov.period > sub.period)
     ~> (sub.status # "ACTIVE" \/ ~ sub.cancelAtPeriodEnd)

=============================================================================
