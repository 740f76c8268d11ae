------------------------ MODULE SubscriptionsProofs -------------------------
(***************************************************************************)
(* Theorems about Subscriptions, for any number of plans, requests, keys,  *)
(* events and periods.                                                     *)
(***************************************************************************)
EXTENDS Subscriptions, TLAPS

Live(row) == row.status \notin {"ABSENT", "PENDING"}

Provider == [plan : Plans \cup {None}, next : Plans \cup {None}, period : Periods,
             state : {"none", "active", "unpaid", "cancelled"}]

(* The rows: the database is behind the provider, never ahead of it, and   *)
(* what news is fresh is not behind the database.                          *)
Base ==
  /\ sub \in Row /\ prov \in Provider /\ event \in [EventIds -> Event]
  /\ claimed \subseteq Keys /\ granted \subseteq Plans
  /\ calls \in [Keys -> Nat] /\ faults \in 0 .. MaxFaults
  /\ AcceptedOnly
  /\ prov.plan \in granted \cup {None} /\ prov.next \in granted \cup {None}
  /\ sub.status = "ABSENT" => sub.period = 0
  /\ sub.status = "PENDING" => sub.pendingPlan = None
  /\ sub.period <= prov.period
  /\ \A e \in EventIds : /\ event[e].period <= prov.period
                         /\ event[e].fresh => event[e].period >= sub.period
                         /\ event[e].status \in Unprocessed =>
                              event[e].attempts < MAX_ATTEMPTS
  /\ KeyCallsOnce
  /\ \A k \in Keys \ claimed : calls[k] = 0

(* Steps of a worker that acts on a row it has read.                       *)
Acting == {"call", "unknown", "apply", "period", "downgrade", "downgraded", "stop",
           "stopped", "renew", "overdue", "event"}

Calling == {"call", "unknown", "apply"}

Ticking == {"downgrade", "downgraded", "stop", "stopped", "renew"}

(* What a worker can rely on, of what it has read.                         *)
Fine(s) ==
  /\ s.step \in Acting => Live(s.read) /\ s.read.pendingPlan \in granted \cup {None}
  /\ s.step = "create" => s.toPlan \in Plans
  /\ s.step \in {"created", "pending"} => s.toPlan \in granted
  /\ s.step = "pending" => /\ s.read.status = "PENDING" /\ sub.status # "ABSENT"
                           /\ sub.status = "PENDING" => sub.plan = s.toPlan
  /\ s.step \in Calling => /\ s.op \in Requests /\ s.key \in claimed
                           /\ s.op \in {"upgrade", "downgrade"} => s.toPlan \in Plans
  /\ s.step = "call" => calls[s.key] = 0
  /\ s.step = "apply" /\ s.op \in {"upgrade", "downgrade"} => s.toPlan \in granted
  /\ s.step \in Ticking => s.seen = prov.period
  /\ s.step = "event" => /\ s.id \in EventIds /\ event[s.id].period >= s.read.period
                         /\ event[s.id].status \in Unprocessed
  /\ s.step \in {"failed", "rejected"} => s.id \in EventIds

(* No two workers call for one key or process one event.                   *)
Apart(s, t) ==
  /\ s.step = "call" /\ t.step = "call" => s.key # t.key
  /\ s.step = "event" /\ t.step = "event" => s.id # t.id

Sessions ==
  /\ session \in [Workers -> Session]
  /\ \A w \in Workers : Fine(session[w])
  /\ \A v, w \in Workers : v # w => Apart(session[v], session[w])

Inv == Base /\ Sessions

(* What a step may do to the row.                                          *)
RowStep ==
  /\ sub'.status # sub.status =>
       \/ sub.status = "ABSENT" /\ sub'.status = "PENDING"
       \/ sub'.status \in SUBSCRIPTION_STATE_TRANSITIONS[sub.status]
  /\ sub'.period >= sub.period /\ sub'.period <= prov'.period

-----------------------------------------------------------------------------
(* What a step has to leave alone of what the other workers rely on.       *)
Undisturbed(t) ==
  /\ granted \subseteq granted' /\ claimed \subseteq claimed'
  /\ t.step = "call" => calls'[t.key] = calls[t.key]
  /\ t.step = "pending" =>
       /\ sub'.status # "ABSENT"
       /\ sub'.status = "PENDING" => sub.status = "PENDING" /\ sub'.plan = sub.plan
  /\ t.step \in Ticking => prov'.period = prov.period
  /\ t.step = "event" => /\ event'[t.id].period = event[t.id].period
                         /\ event'[t.id].status = event[t.id].status

LEMMA IdleIsFine == Idle \in Session /\ Fine(Idle) /\ \A t : Apart(Idle, t) /\ Apart(t, Idle)
  BY SubscriptionConstants
  DEF Idle, Session, Steps, NoRow, Row, Periods, Fine, Apart, Acting, Calling, Ticking

LEMMA InitInv == Init => Inv
<1> SUFFICES ASSUME Init PROVE Inv
  OBVIOUS
<1> USE SubscriptionConstants
<1>1. Base
  BY DEF Init, Base, NoRow, Row, Provider, Periods, NoEvent, Event, AcceptedOnly, KeyCallsOnce
<1>2. Sessions
  BY IdleIsFine DEF Init, Sessions
<1> QED BY <1>1, <1>2 DEF Inv

LEMMA FineKept ==
  ASSUME NEW t \in Session, Fine(t), Undisturbed(t)
  PROVE  Fine(t)'
  BY DEF Fine, Undisturbed

(* A step of worker w, of which the others feel nothing.                   *)
LEMMA WorkerInv ==
  ASSUME Inv, NEW w \in Workers, NEW s \in Session, Become(w, s), Base', Fine(s)',
         \A v \in Workers \ {w} : Undisturbed(session[v]) /\ Apart(s, session[v])
  PROVE  Inv'
<1>1. session' \in [Workers -> Session] /\ session'[w] = s
      /\ \A v \in Workers \ {w} : session'[v] = session[v] /\ session[v] \in Session
  BY DEF Inv, Sessions, Become
<1>2. \A v \in Workers \ {w} : Fine(session[v])
  BY DEF Inv, Sessions
<1>3. ASSUME NEW v \in Workers PROVE Fine(session[v])'
  <2> DEFINE t == session'[v]
  <2>1. t \in Session
    BY <1>1
  <2>2. CASE v = w
    BY <1>1, <2>2 DEF Fine
  <2>3. CASE v # w
    <3>1. ASSUME NEW u \in Session, Fine(u), Undisturbed(u)
          PROVE  Fine(u)'
      BY <3>1, FineKept
    <3>2. PICK u \in Session : u = session[v]
      BY <1>1, <2>3
    <3>3. Fine(u)'
      BY <1>2, <2>3, <3>1, <3>2
    <3>4. session'[v] = u
      BY <1>1, <2>3, <3>2
    <3> QED BY <3>3, <3>4 DEF Fine
  <2> QED BY <2>2, <2>3
<1>4. \A u, v \in Workers : u # v => Apart(session'[u], session'[v])
  BY <1>1 DEF Inv, Sessions, Apart
<1>5. Sessions'
  BY <1>1, <1>3, <1>4 DEF Sessions, Apart
<1> QED BY <1>5 DEF Inv

(* A step of no worker.                                                    *)
LEMMA WorldInv ==
  ASSUME Inv, UNCHANGED session, Base', \A v \in Workers : Undisturbed(session[v])
  PROVE  Inv'
<1>1. ASSUME NEW v \in Workers PROVE Fine(session[v])'
  <2>1. PICK u \in Session : u = session[v] /\ Fine(u)
    BY DEF Inv, Sessions
  <2>2. Fine(u)'
    BY <2>1, FineKept
  <2> QED BY <2>1, <2>2 DEF Fine
<1>2. Sessions'
  BY <1>1 DEF Inv, Sessions, Apart
<1> QED BY <1>2 DEF Inv

(* A step that only reads.                                                 *)
LEMMA ReadInv ==
  ASSUME Inv, NEW w \in Workers, NEW s \in Session, Become(w, s), Fine(s),
         UNCHANGED <<sub, prov, event, claimed, granted, calls, faults>>,
         \A v \in Workers \ {w} : Apart(s, session[v])
  PROVE  Inv' /\ RowStep
<1>1. Base'
  BY DEF Inv, Base, AcceptedOnly, KeyCallsOnce
<1>2. Fine(s)'
  BY DEF Fine
<1>3. \A v \in Workers \ {w} : Undisturbed(session[v])
  BY DEF Inv, Sessions, Fine, Undisturbed
<1>4. RowStep
  BY DEF RowStep, Inv, Base, Row, Provider, Periods
<1> QED BY <1>1, <1>2, <1>3, <1>4, WorkerInv

-----------------------------------------------------------------------------
(* The methods of SubscriptionService, on whatever row was once read.      *)
GoodRow(row) ==
  /\ row \in Row /\ Live(row)
  /\ row.status # sub.status => row.status \in SUBSCRIPTION_STATE_TRANSITIONS[sub.status]
  /\ row.plan \in granted /\ row.pendingPlan \in granted \cup {None}
  /\ row.period >= sub.period /\ row.period <= prov.period

GoodMethod(m) == Applies(m) => GoodRow(m.row)

LEMMA MovesGood ==
  ASSUME Inv, NEW read \in Row, Live(read),
         NEW to \in {"ACTIVE", "PAST_DUE", "PAUSED", "CANCELLED", "EXPIRED"}
  PROVE  GoodMethod(Moves(read, to))
<1> DEFINE row == [sub EXCEPT !.status = to, !.overdue = FALSE]
<1> SUFFICES ASSUME to \in SUBSCRIPTION_STATE_TRANSITIONS[read.status], sub.status = read.status
             PROVE  GoodRow(row)
  BY DEF GoodMethod, Applies, Moves, Method
<1>1. sub \in Row /\ prov \in Provider /\ Live(sub)
  BY DEF Inv, Base, Live
<1>2. /\ row \in Row /\ row.status = to /\ row.plan = sub.plan
      /\ row.pendingPlan = sub.pendingPlan /\ row.period = sub.period
  BY <1>1 DEF Row, SubscriptionStatus
<1>3. sub.period >= sub.period /\ sub.period <= prov.period
  BY <1>1 DEF Row, Periods, Inv, Base
<1> HIDE DEF row
<1> QED BY <1>1, <1>2, <1>3 DEF GoodRow, Live, Inv, Base, AcceptedOnly

(* The operations of a subscription that stays ACTIVE.                     *)
LEMMA KeepsGood ==
  ASSUME Inv, sub.status = "ACTIVE", NEW row \in Row, row.status = sub.status,
         row.plan \in granted \cup {sub.plan},
         row.pendingPlan \in granted \cup {None, sub.pendingPlan},
         row.period >= sub.period, row.period <= prov.period
  PROVE  GoodRow(row)
<1>1. Live(sub)
  BY DEF Live
<1> QED BY <1>1 DEF GoodRow, Live, Inv, Base, AcceptedOnly

LEMMA MethodsGood ==
  ASSUME Inv, NEW read \in Row, Live(read)
  PROVE  /\ GoodMethod(recordPaymentFailure(read)) /\ GoodMethod(recoverPayment(read))
         /\ GoodMethod(exhaustGrace(read)) /\ GoodMethod(cancel(read))
         /\ GoodMethod(reactivate(read)) /\ GoodMethod(expire(read))
         /\ \A p \in granted : GoodMethod(confirmUpgrade(read, p))
         /\ \A p \in granted : GoodMethod(scheduleDowngrade(read, p))
         /\ \A n \in Periods :
              n <= prov.period /\ n >= read.period => GoodMethod(confirmRenewal(read, n))
         /\ read.pendingPlan \in granted \cup {None} =>
              GoodMethod(applyScheduledDowngrade(read, prov.period))
         /\ GoodMethod(scheduleCancellation(read))
         /\ GoodMethod(unscheduleCancellation(read))
<1>0. /\ sub \in Row /\ prov \in Provider /\ granted \subseteq Plans /\ sub.period <= prov.period
      /\ sub.period >= sub.period /\ prov.period >= sub.period /\ prov.period <= prov.period
  BY DEF Inv, Base, Row, Provider, Periods
<1>1. /\ GoodMethod(recordPaymentFailure(read)) /\ GoodMethod(recoverPayment(read))
      /\ GoodMethod(exhaustGrace(read)) /\ GoodMethod(cancel(read))
      /\ GoodMethod(reactivate(read)) /\ GoodMethod(expire(read))
  BY MovesGood DEF recordPaymentFailure, recoverPayment, exhaustGrace, cancel, reactivate, expire
<1>2. ASSUME NEW p \in granted PROVE GoodMethod(confirmUpgrade(read, p))
  <2> DEFINE row == [sub EXCEPT !.plan = p]
  <2>1. /\ row \in Row /\ row.status = sub.status /\ row.plan = p
        /\ row.pendingPlan = sub.pendingPlan /\ row.period = sub.period
    BY <1>0 DEF Row
  <2> HIDE DEF row
  <2>2. ASSUME sub.status = "ACTIVE"
        PROVE  GoodRow(row)
    BY <1>0, <1>2, <2>1, <2>2, KeepsGood
  <2> QED BY <2>2 DEF row, confirmUpgrade, Keeps, Method, GoodMethod, Applies
<1>3. ASSUME NEW p \in granted PROVE GoodMethod(scheduleDowngrade(read, p))
  <2> DEFINE row == [sub EXCEPT !.pendingPlan = p]
  <2>1. /\ row \in Row /\ row.status = sub.status /\ row.plan = sub.plan
        /\ row.pendingPlan = p /\ row.period = sub.period
    BY <1>0 DEF Row
  <2> HIDE DEF row
  <2>2. ASSUME sub.status = "ACTIVE"
        PROVE  GoodRow(row)
    BY <1>0, <1>3, <2>1, <2>2, KeepsGood
  <2> QED BY <2>2 DEF row, scheduleDowngrade, Keeps, Method, GoodMethod, Applies
<1>4. ASSUME NEW n \in Periods, n <= prov.period, n >= read.period
      PROVE  GoodMethod(confirmRenewal(read, n))
  <2> DEFINE row == [sub EXCEPT !.period = n]
  <2>1. /\ row \in Row /\ row.status = sub.status /\ row.plan = sub.plan
        /\ row.pendingPlan = sub.pendingPlan /\ row.period = n
    BY <1>0 DEF Row
  <2> HIDE DEF row
  <2>2. ASSUME sub.status = "ACTIVE", sub.period = read.period
        PROVE  GoodRow(row)
    BY <1>0, <1>4, <2>1, <2>2, KeepsGood
  <2> QED BY <2>2 DEF row, confirmRenewal, Keeps, Method, GoodMethod, Applies
<1>5. ASSUME read.pendingPlan \in granted \cup {None}
      PROVE  GoodMethod(applyScheduledDowngrade(read, prov.period))
  <2> DEFINE row == [sub EXCEPT !.plan = read.pendingPlan, !.pendingPlan = None,
                                !.period = prov.period]
  <2>1. /\ row \in Row /\ row.status = sub.status /\ row.plan = read.pendingPlan
        /\ row.pendingPlan = None /\ row.period = prov.period
    BY <1>0, <1>5 DEF Row, Provider
  <2> HIDE DEF row
  <2>2. ASSUME sub.status = "ACTIVE", read.pendingPlan # None
        PROVE  GoodRow(row)
    BY <1>0, <1>5, <2>1, <2>2, KeepsGood
  <2> QED BY <2>2 DEF row, applyScheduledDowngrade, Keeps, Method, GoodMethod, Applies
<1>6. ASSUME NEW b \in BOOLEAN, sub.status = "ACTIVE"
      PROVE  GoodRow([sub EXCEPT !.cancelAtPeriodEnd = b])
  <2> DEFINE row == [sub EXCEPT !.cancelAtPeriodEnd = b]
  <2>1. /\ row \in Row /\ row.status = sub.status /\ row.plan = sub.plan
        /\ row.pendingPlan = sub.pendingPlan /\ row.period = sub.period
    BY <1>0 DEF Row
  <2> HIDE DEF row
  <2>2. GoodRow(row)
    BY <1>0, <1>6, <2>1, KeepsGood
  <2> QED BY <2>2 DEF row
<1>7. GoodMethod(scheduleCancellation(read)) /\ GoodMethod(unscheduleCancellation(read))
  BY <1>6 DEF scheduleCancellation, unscheduleCancellation, Keeps, Method, GoodMethod, Applies
<1> QED BY <1>1, <1>2, <1>3, <1>4, <1>5, <1>7

-----------------------------------------------------------------------------
(* What a method writes is in order; the events it outdates stay as they   *)
(* are but for that.                                                       *)
LEMMA RowWritten ==
  ASSUME Inv, NEW m, GoodMethod(m), sub' = Outcome(m), UNCHANGED <<prov, granted>>
  PROVE  /\ sub' \in Row /\ AcceptedOnly' /\ RowStep /\ sub'.period <= prov.period
         /\ sub' = sub \/ Live(sub')
         /\ Outdated(m) \in [EventIds -> Event]
         /\ \A e \in EventIds : /\ Outdated(m)[e].period = event[e].period
                                /\ Outdated(m)[e].status = event[e].status
                                /\ Outdated(m)[e].attempts = event[e].attempts
                                /\ Outdated(m)[e].fresh => event[e].period >= sub'.period
<1>0. /\ sub \in Row /\ prov \in Provider /\ event \in [EventIds -> Event]
      /\ sub.period <= prov.period /\ sub.period >= sub.period
      /\ \A e \in EventIds : event[e].fresh => event[e].period >= sub.period
  BY DEF Inv, Base, Row, Periods
<1>1. CASE Applies(m)
  <2>1. GoodRow(sub')
    BY <1>1 DEF GoodMethod, Outcome
  <2>2. Outdated(m) = [e \in EventIds |-> [event[e] EXCEPT !.fresh = FALSE]]
    BY <1>1 DEF Outdated
  <2>3. ASSUME NEW e \in EventIds
        PROVE  /\ Outdated(m)[e] \in Event /\ Outdated(m)[e].period = event[e].period
               /\ Outdated(m)[e].status = event[e].status /\ ~ Outdated(m)[e].fresh
               /\ Outdated(m)[e].attempts = event[e].attempts
    <3> DEFINE ev == [event[e] EXCEPT !.fresh = FALSE]
    <3>1. Outdated(m)[e] = ev
      BY <2>2
    <3>2. /\ ev \in Event /\ ev.period = event[e].period /\ ev.status = event[e].status
          /\ ev.fresh = FALSE /\ ev.attempts = event[e].attempts
      BY <1>0 DEF Event
    <3> HIDE DEF ev
    <3> QED BY <3>1, <3>2
  <2> QED BY <2>1, <2>2, <2>3 DEF GoodRow, RowStep, Live, AcceptedOnly
<1>2. CASE ~ Applies(m)
  <2>1. sub' = sub /\ Outdated(m) = event
    BY <1>2 DEF Outcome, Outdated
  <2> QED BY <1>0, <2>1 DEF RowStep, Inv, Base, AcceptedOnly
<1> QED BY <1>1, <1>2

(* A call to a method.                                                     *)
LEMMA CallInv ==
  ASSUME Inv, NEW w \in Workers, NEW m, GoodMethod(m), NEW s \in Session, Call(w, m, s),
         s.step \in {"idle", "stop", "downgraded"}, Fine(s)
  PROVE  Inv' /\ RowStep
<1>0. /\ sub' = Outcome(m) /\ event' = Outdated(m) /\ Become(w, s)
      /\ UNCHANGED <<prov, claimed, granted, calls, faults>>
  BY DEF Call
<1>1. /\ sub' \in Row /\ AcceptedOnly' /\ RowStep /\ sub'.period <= prov.period
      /\ sub' = sub \/ Live(sub')
      /\ event' \in [EventIds -> Event]
      /\ \A e \in EventIds : /\ event'[e].period = event[e].period
                             /\ event'[e].status = event[e].status
                             /\ event'[e].attempts = event[e].attempts
                             /\ event'[e].fresh => event'[e].period >= sub'.period
  BY <1>0, RowWritten
<1>2. Base'
  BY <1>0, <1>1 DEF Inv, Base, KeyCallsOnce, Live
<1>3. Fine(s)'
  BY <1>0 DEF Fine, Acting, Calling, Ticking
<1>4. ASSUME NEW v \in Workers \ {w} PROVE Undisturbed(session[v]) /\ Apart(s, session[v])
  <2>1. Fine(session[v])
    BY DEF Inv, Sessions
  <2> QED BY <1>0, <1>1, <2>1 DEF Fine, Undisturbed, Apart, Live
<1> QED BY <1>1, <1>2, <1>3, <1>4, <1>0, WorkerInv

(* What a request asks of the provider, and what it then records.          *)
LEMMA TreatedFacts ==
  ASSUME Inv, NEW op \in Requests, NEW read \in Row, NEW toPlan,
         op \in {"upgrade", "downgrade"} => toPlan \in Plans
  PROVE  LET t == Treated(op, read, toPlan) IN
         /\ t.proceeds => Live(read)
         /\ t.accepted \in Provider /\ t.accepted.period = prov.period
         /\ t.accepted.plan = prov.plan \/ (op = "upgrade" /\ t.accepted.plan = toPlan)
         /\ t.accepted.next = prov.next \/ (op = "downgrade" /\ t.accepted.next = toPlan)
         /\ t.confirmed => op # "downgrade" /\ (op = "upgrade" => toPlan \in granted)
         /\ Live(read) /\ (op \in {"upgrade", "downgrade"} => toPlan \in granted) =>
              GoodMethod(t.records)
<1>0. prov \in Provider /\ prov.plan \in granted \cup {None} /\ None \notin Plans
  BY SubscriptionConstants DEF Inv, Base
<1>1. CASE op = "upgrade"
  <2> DEFINE t == Treated(op, read, toPlan)
  <2>1. /\ t.accepted = [prov EXCEPT !.plan = toPlan] /\ t.records = confirmUpgrade(read, toPlan)
        /\ t.proceeds = (read.status = "ACTIVE" /\ read.plan # toPlan)
        /\ t.confirmed = (prov.plan = toPlan)
    BY <1>1 DEF Treated, upgrade, Treatment
  <2>2. (t.proceeds => Live(read)) /\ (t.confirmed => op # "downgrade")
    BY <1>1, <2>1 DEF Live
  <2>3. t.confirmed /\ op = "upgrade" => toPlan \in granted
    BY <1>0, <1>1, <2>1
  <2>4. /\ t.accepted \in Provider /\ t.accepted.period = prov.period
        /\ t.accepted.plan = prov.plan \/ (op = "upgrade" /\ t.accepted.plan = toPlan)
        /\ t.accepted.next = prov.next \/ (op = "downgrade" /\ t.accepted.next = toPlan)
    BY <1>0, <1>1, <2>1 DEF Provider
  <2>5. Live(read) /\ (op \in {"upgrade", "downgrade"} => toPlan \in granted) =>
          GoodMethod(t.records)
    BY <1>1, <2>1, MethodsGood
  <2> QED BY <2>2, <2>3, <2>4, <2>5
<1>2. CASE op = "downgrade"
  <2> DEFINE t == Treated(op, read, toPlan)
  <2>1. /\ t.accepted = [prov EXCEPT !.next = toPlan] /\ t.records = scheduleDowngrade(read, toPlan)
        /\ t.proceeds = (read.status = "ACTIVE" /\ read.pendingPlan # toPlan)
        /\ t.confirmed = (FALSE)
    BY <1>2 DEF Treated, downgrade, Treatment
  <2>2. (t.proceeds => Live(read)) /\ (t.confirmed => op # "downgrade")
    BY <1>2, <2>1 DEF Live
  <2>3. t.confirmed /\ op = "upgrade" => toPlan \in granted
    BY <1>0, <1>2, <2>1
  <2>4. /\ t.accepted \in Provider /\ t.accepted.period = prov.period
        /\ t.accepted.plan = prov.plan \/ (op = "upgrade" /\ t.accepted.plan = toPlan)
        /\ t.accepted.next = prov.next \/ (op = "downgrade" /\ t.accepted.next = toPlan)
    BY <1>0, <1>2, <2>1 DEF Provider
  <2>5. Live(read) /\ (op \in {"upgrade", "downgrade"} => toPlan \in granted) =>
          GoodMethod(t.records)
    BY <1>2, <2>1, MethodsGood
  <2> QED BY <2>2, <2>3, <2>4, <2>5
<1>3. CASE op = "cancel"
  <2> DEFINE t == Treated(op, read, toPlan)
  <2>1. /\ t.accepted = [prov EXCEPT !.state = "cancelled"] /\ t.records = cancel(read)
        /\ t.proceeds = (read.status \in {"ACTIVE", "PAST_DUE", "PAUSED"})
        /\ t.confirmed = (FALSE)
    BY <1>3 DEF Treated, immediateCancellationFlow, Treatment
  <2>2. (t.proceeds => Live(read)) /\ (t.confirmed => op # "downgrade")
    BY <1>3, <2>1 DEF Live
  <2>3. t.confirmed /\ op = "upgrade" => toPlan \in granted
    BY <1>0, <1>3, <2>1
  <2>4. /\ t.accepted \in Provider /\ t.accepted.period = prov.period
        /\ t.accepted.plan = prov.plan \/ (op = "upgrade" /\ t.accepted.plan = toPlan)
        /\ t.accepted.next = prov.next \/ (op = "downgrade" /\ t.accepted.next = toPlan)
    BY <1>0, <1>3, <2>1 DEF Provider
  <2>5. Live(read) /\ (op \in {"upgrade", "downgrade"} => toPlan \in granted) =>
          GoodMethod(t.records)
    BY <1>3, <2>1, MethodsGood
  <2> QED BY <2>2, <2>3, <2>4, <2>5
<1>4. CASE op = "scheduleCancellation"
  <2> DEFINE t == Treated(op, read, toPlan)
  <2>1. /\ t.accepted = prov /\ t.records = scheduleCancellation(read)
        /\ t.proceeds = (read.status = "ACTIVE" /\ ~ read.cancelAtPeriodEnd)
        /\ t.confirmed = (FALSE)
    BY <1>4 DEF Treated, scheduleCancellationFlow, Treatment
  <2>2. (t.proceeds => Live(read)) /\ (t.confirmed => op # "downgrade")
    BY <1>4, <2>1 DEF Live
  <2>3. t.confirmed /\ op = "upgrade" => toPlan \in granted
    BY <1>0, <1>4, <2>1
  <2>4. /\ t.accepted \in Provider /\ t.accepted.period = prov.period
        /\ t.accepted.plan = prov.plan \/ (op = "upgrade" /\ t.accepted.plan = toPlan)
        /\ t.accepted.next = prov.next \/ (op = "downgrade" /\ t.accepted.next = toPlan)
    BY <1>0, <1>4, <2>1 DEF Provider
  <2>5. Live(read) /\ (op \in {"upgrade", "downgrade"} => toPlan \in granted) =>
          GoodMethod(t.records)
    BY <1>4, <2>1, MethodsGood
  <2> QED BY <2>2, <2>3, <2>4, <2>5
<1>5. CASE op = "unscheduleCancellation"
  <2> DEFINE t == Treated(op, read, toPlan)
  <2>1. /\ t.accepted = prov /\ t.records = unscheduleCancellation(read)
        /\ t.proceeds = (read.status = "ACTIVE" /\ read.cancelAtPeriodEnd)
        /\ t.confirmed = (FALSE)
    BY <1>5 DEF Treated, unscheduleCancellationFlow, Treatment
  <2>2. (t.proceeds => Live(read)) /\ (t.confirmed => op # "downgrade")
    BY <1>5, <2>1 DEF Live
  <2>3. t.confirmed /\ op = "upgrade" => toPlan \in granted
    BY <1>0, <1>5, <2>1
  <2>4. /\ t.accepted \in Provider /\ t.accepted.period = prov.period
        /\ t.accepted.plan = prov.plan \/ (op = "upgrade" /\ t.accepted.plan = toPlan)
        /\ t.accepted.next = prov.next \/ (op = "downgrade" /\ t.accepted.next = toPlan)
    BY <1>0, <1>5, <2>1 DEF Provider
  <2>5. Live(read) /\ (op \in {"upgrade", "downgrade"} => toPlan \in granted) =>
          GoodMethod(t.records)
    BY <1>5, <2>1, MethodsGood
  <2> QED BY <2>2, <2>3, <2>4, <2>5
<1>6. CASE op = "resume"
  <2> DEFINE t == Treated(op, read, toPlan)
  <2>1. /\ t.accepted = [prov EXCEPT !.state = "active"] /\ t.records = (IF read.status = "CANCELLED" THEN reactivate(read) ELSE recoverPayment(read))
        /\ t.proceeds = (read.status \in {"PAST_DUE", "PAUSED", "CANCELLED"})
        /\ t.confirmed = (TRUE)
    BY <1>6 DEF Treated, resume, Treatment
  <2>2. (t.proceeds => Live(read)) /\ (t.confirmed => op # "downgrade")
    BY <1>6, <2>1 DEF Live
  <2>3. t.confirmed /\ op = "upgrade" => toPlan \in granted
    BY <1>0, <1>6, <2>1
  <2>4. /\ t.accepted \in Provider /\ t.accepted.period = prov.period
        /\ t.accepted.plan = prov.plan \/ (op = "upgrade" /\ t.accepted.plan = toPlan)
        /\ t.accepted.next = prov.next \/ (op = "downgrade" /\ t.accepted.next = toPlan)
    BY <1>0, <1>6, <2>1 DEF Provider
  <2>5. Live(read) /\ (op \in {"upgrade", "downgrade"} => toPlan \in granted) =>
          GoodMethod(t.records)
    BY <1>6, <2>1, MethodsGood
  <2> QED BY <2>2, <2>3, <2>4, <2>5
<1> QED BY <1>1, <1>2, <1>3, <1>4, <1>5, <1>6 DEF Requests

-----------------------------------------------------------------------------
(* The row as a request or a tick reads it.                                *)
LEMMA SnapshotFacts ==
  ASSUME Inv
  PROVE  /\ Snapshot \in Row /\ Snapshot.status = sub.status /\ Snapshot.plan = sub.plan
         /\ Snapshot.pendingPlan = sub.pendingPlan /\ Snapshot.period = sub.period
         /\ Live(sub) => Live(Snapshot) /\ Snapshot.pendingPlan \in granted \cup {None}
<1>1. sub \in Row
  BY DEF Inv, Base
<1>2. /\ Snapshot \in Row /\ Snapshot.status = sub.status /\ Snapshot.plan = sub.plan
      /\ Snapshot.pendingPlan = sub.pendingPlan /\ Snapshot.period = sub.period
  BY <1>1 DEF Snapshot, Row
<1> QED BY <1>2 DEF Inv, Base, AcceptedOnly, Live

(* createSubscription, from the provider call to the activation.           *)
LEMMA CreateInv ==
  ASSUME Inv, NEW w \in Workers, NEW plan \in Plans, Create(w, plan)
  PROVE  Inv' /\ RowStep
<1> DEFINE s == [Idle EXCEPT !.step = "create", !.toPlan = plan]
<1>1. s.step = "create" /\ s.toPlan = plan /\ s \in Session
  BY IdleIsFine DEF Idle, Session, Steps
<1>2. Become(w, s) /\ UNCHANGED <<sub, prov, event, claimed, granted, calls, faults>>
  BY DEF Create
<1> HIDE DEF s
<1>3. Fine(s) /\ \A v \in Workers : Apart(s, session[v])
  BY <1>1 DEF Fine, Apart, Acting, Calling, Ticking
<1> QED BY <1>1, <1>2, <1>3, ReadInv

LEMMA GoToFacts ==
  ASSUME NEW s \in Session, NEW step \in Steps
  PROVE  LET t == [s EXCEPT !.step = step] IN
         /\ t \in Session /\ t.step = step /\ t.op = s.op /\ t.key = s.key
         /\ t.toPlan = s.toPlan /\ t.id = s.id /\ t.read = s.read /\ t.seen = s.seen
  BY DEF Session

LEMMA CreateAtProviderInv ==
  ASSUME Inv, NEW w \in Workers, CreateAtProvider(w)
  PROVE  Inv' /\ RowStep
<1>0. PICK s \in Session : s = session[w] /\ s.toPlan \in Plans
  BY DEF Inv, Sessions, Fine, At, CreateAtProvider
<1>1. /\ UNCHANGED <<sub, prov, event, claimed, calls>>
      /\ granted' \in {granted, granted \cup {s.toPlan}} /\ faults' \in 0 .. MaxFaults
  BY <1>0, SubscriptionConstants DEF CreateAtProvider, Lose, Inv, Base
<1>2. Base'
  BY <1>0, <1>1 DEF Inv, Base, AcceptedOnly, KeyCallsOnce
<1>3. \A v \in Workers : Undisturbed(session[v])
  BY <1>0, <1>1 DEF Inv, Sessions, Fine, Undisturbed
<1>4. RowStep
  BY <1>1 DEF RowStep, Inv, Base, Row, Provider, Periods
<1>5. CASE Become(w, Idle)
  <2>1. Fine(Idle)'
    BY DEF Idle, Fine, Acting, Calling, Ticking
  <2> QED BY <1>2, <1>3, <1>4, <1>5, <2>1, IdleIsFine, WorkerInv
<1>6. CASE granted' = granted \cup {s.toPlan} /\ GoTo(w, "created")
  <2>1. "created" \in Steps
    BY DEF Steps
  <2>2. PICK t \in Session : Become(w, t) /\ t.step = "created" /\ t.toPlan = s.toPlan
    BY <1>0, <1>6, <2>1, GoToFacts DEF GoTo
  <2>3. Fine(t)' /\ \A v \in Workers : Apart(t, session[v])
    BY <1>6, <2>2 DEF Fine, Acting, Calling, Ticking, Apart
  <2> QED BY <1>2, <1>3, <1>4, <2>2, <2>3, WorkerInv
<1> QED BY <1>0, <1>5, <1>6 DEF CreateAtProvider

LEMMA PendingInv ==
  ASSUME Inv, NEW w \in Workers, createPendingSubscription(w)
  PROVE  Inv' /\ RowStep
<1> DEFINE Pending(p) == [NoRow EXCEPT !.status = "PENDING", !.plan = p]
<1>0. PICK s \in Session : /\ s = session[w] /\ s.toPlan \in granted
                            /\ s.toPlan \in Plans
  BY DEF Inv, Base, Sessions, Fine, At, createPendingSubscription
<1>1. UNCHANGED <<prov, event, claimed, granted, calls, faults>>
  BY DEF createPendingSubscription
<1>2. CASE sub.status = "ABSENT"
  <2>1. PICK row : row = Pending(s.toPlan)
    OBVIOUS
  <2>2. /\ row.status = "PENDING" /\ row.plan = s.toPlan /\ row.period = 0
        /\ row.pendingPlan = None
    BY <2>1 DEF NoRow
  <2>3. row \in Row
    <3>1. NoRow \in Row
      BY SubscriptionConstants DEF NoRow, Row, Periods
    <3> QED BY <1>0, <2>1, <3>1 DEF Row, SubscriptionStatus
  <2>4. PICK t : t = [s EXCEPT !.step = "pending", !.read = row]
    OBVIOUS
  <2>5. sub' = row /\ Become(w, t)
    BY <1>0, <1>2, <2>1, <2>4 DEF createPendingSubscription
  <2>6. t \in Session /\ t.step = "pending" /\ t.read = row /\ t.toPlan = s.toPlan
    BY <1>0, <2>3, <2>4 DEF Session, Steps
  <2>7. Base'
    BY <1>1, <1>2, <2>2, <2>3, <2>5 DEF Inv, Base, AcceptedOnly, KeyCallsOnce
  <2>8. Fine(t)'
    BY <1>0, <1>1, <2>2, <2>5, <2>6 DEF Fine, Acting, Calling, Ticking
  <2>9. \A v \in Workers : Undisturbed(session[v]) /\ Apart(t, session[v])
    BY <1>1, <1>2, <2>6 DEF Inv, Sessions, Fine, Undisturbed, Apart
  <2>10. RowStep
    BY <1>1, <1>2, <2>2, <2>5 DEF Inv, Base, RowStep, Provider, Periods
  <2> QED BY <2>5, <2>6, <2>7, <2>8, <2>9, <2>10, WorkerInv
<1>3. CASE sub.status # "ABSENT"
  <2>1. Become(w, Idle) /\ UNCHANGED sub
    BY <1>3 DEF createPendingSubscription
  <2> QED BY <1>1, <2>1, IdleIsFine, ReadInv
<1> QED BY <1>2, <1>3

LEMMA ActivationInv ==
  ASSUME Inv, NEW w \in Workers, confirmActivation(w)
  PROVE  Inv' /\ RowStep
<1> DEFINE s == session[w]
<1>0. /\ s \in Session /\ s.toPlan \in granted /\ s.read.status = "PENDING"
      /\ sub.status = "PENDING" => sub.plan = s.toPlan
      /\ sub \in Row /\ prov \in Provider /\ granted \subseteq Plans
      /\ sub.status = "PENDING" => sub.pendingPlan = None
      /\ sub.period <= prov.period /\ sub.period >= sub.period
  BY DEF Inv, Base, Sessions, Fine, At, confirmActivation, Row, Periods
<1>1. /\ prov' = [prov EXCEPT !.plan = s.toPlan, !.state = "active"]
      /\ Become(w, Idle) /\ UNCHANGED <<event, claimed, granted, calls, faults>>
  BY DEF confirmActivation
<1>2. PICK status \in {"TRIALING", "ACTIVE"} : sub' = Outcome(Moves(s.read, status))
  BY DEF confirmActivation
<1>3. /\ prov' \in Provider /\ prov'.period = prov.period
      /\ prov'.plan = s.toPlan /\ prov'.next = prov.next
  BY <1>0, <1>1 DEF Provider
<1>4. /\ sub' \in Row /\ sub'.plan = sub.plan /\ sub'.pendingPlan = sub.pendingPlan
      /\ sub'.period = sub.period
      /\ sub' = sub \/ (sub.status = "PENDING" /\ sub'.status = status)
  <2> DEFINE row == [sub EXCEPT !.status = status, !.overdue = FALSE]
  <2>1. /\ row \in Row /\ row.status = status /\ row.plan = sub.plan
        /\ row.pendingPlan = sub.pendingPlan /\ row.period = sub.period
    BY <1>0 DEF Row, SubscriptionStatus
  <2>2. sub' = sub \/ (sub' = row /\ sub.status = s.read.status)
    BY <1>2 DEF Outcome, Applies, Moves, Method
  <2> HIDE DEF row
  <2> QED BY <1>0, <2>1, <2>2
<1> HIDE DEF s
<1>5. Base'
  BY <1>0, <1>1, <1>3, <1>4 DEF Inv, Base, AcceptedOnly, KeyCallsOnce
<1>6. \A v \in Workers : Undisturbed(session[v])
  BY <1>1, <1>3, <1>4 DEF Inv, Sessions, Fine, Undisturbed
<1>7. RowStep
  BY <1>0, <1>3, <1>4 DEF RowStep, SUBSCRIPTION_STATE_TRANSITIONS
<1>8. Fine(Idle)'
  BY DEF Idle, Fine, Acting, Calling, Ticking
<1> QED BY <1>1, <1>5, <1>6, <1>7, <1>8, IdleIsFine, WorkerInv

-----------------------------------------------------------------------------
(* A request claims its key before anything else.                          *)
LEMMA RequestInv ==
  ASSUME Inv, NEW w \in Workers, NEW k \in Keys, NEW op \in Requests,
         NEW toPlan \in ToPlan(op), Request(w, k, op, toPlan)
  PROVE  Inv' /\ RowStep
<1> DEFINE s == [Idle EXCEPT !.step = "call", !.op = op, !.key = k,
                             !.toPlan = toPlan, !.read = Snapshot]
<1>0. /\ UNCHANGED <<sub, prov, event, granted, calls, faults>>
      /\ claimed' = claimed \cup {k} /\ k \notin claimed /\ calls[k] = 0
  BY DEF Request, KeyIsFree, Inv, Base
<1>1. op \in {"upgrade", "downgrade"} => toPlan \in Plans
  BY DEF ToPlan
<1>2. Base'
  BY <1>0 DEF Inv, Base, AcceptedOnly, KeyCallsOnce
<1>3. \A v \in Workers : Undisturbed(session[v])
  BY <1>0 DEF Inv, Sessions, Fine, Undisturbed
<1>4. RowStep
  BY <1>0 DEF RowStep, Inv, Base, Row, Provider, Periods
<1>5. CASE Become(w, s) /\ Treated(op, sub, toPlan).proceeds
  <2>1. Live(sub)
    BY <1>1, <1>5, TreatedFacts DEF Inv, Base
  <2>2. s \in Session
    BY IdleIsFine, SnapshotFacts DEF Idle, Session, Steps, ToPlan
  <2>3. s.step = "call" /\ s.op = op /\ s.key = k /\ s.toPlan = toPlan /\ s.read = Snapshot
    BY DEF Idle
  <2>4. PICK t \in Session : t = s
    BY <2>2
  <2>5. /\ Become(w, t) /\ t.step = "call" /\ t.op = op /\ t.key = k /\ t.toPlan = toPlan
        /\ Live(t.read) /\ t.read.pendingPlan \in granted \cup {None}
    BY <1>5, <2>1, <2>3, <2>4, SnapshotFacts
  <2> HIDE DEF s
  <2>6. Fine(t)'
    BY <1>0, <1>1, <2>5 DEF Fine, Acting, Calling, Ticking, Live
  <2>7. \A v \in Workers : Apart(t, session[v])
    BY <1>0, <2>5 DEF Inv, Sessions, Fine, Apart, Calling
  <2> QED BY <1>2, <1>3, <1>4, <2>5, <2>6, <2>7, WorkerInv
<1>6. CASE UNCHANGED session
  BY <1>2, <1>3, <1>4, <1>6, WorldInv
<1> QED BY <1>5, <1>6 DEF Request

(* The call to the provider, which may take effect and yet time out.       *)
LEMMA CallProviderInv ==
  ASSUME Inv, NEW w \in Workers, CallProvider(w)
  PROVE  Inv' /\ RowStep
<1>0. PICK s \in Session : s = session[w] /\ s.step = "call" /\ Fine(s)
  BY DEF Inv, Sessions, At, CallProvider
<1>1. /\ s.op \in Requests /\ s.key \in claimed /\ s.key \in Keys /\ calls[s.key] = 0
      /\ s.op \in {"upgrade", "downgrade"} => s.toPlan \in Plans
      /\ Live(s.read) /\ s.read.pendingPlan \in granted \cup {None} /\ s.read \in Row
  BY <1>0 DEF Fine, Acting, Calling, Inv, Base, Session
<1>2. /\ calls' = [calls EXCEPT ![s.key] = calls[s.key] + 1]
      /\ UNCHANGED <<sub, event, claimed>>
  BY <1>0, <1>1 DEF CallProvider, Inv, Base
<1> DEFINE Takes == /\ prov' = Treated(s.op, s.read, s.toPlan).accepted
                    /\ Grants(s.op, s.toPlan)
           To(step) == [s EXCEPT !.step = step]
<1>3. \/ Takes /\ Become(w, To("apply")) /\ UNCHANGED faults
      \/ Become(w, Idle) /\ UNCHANGED <<prov, granted, faults>>
      \/ Become(w, To("unknown")) /\ Lose /\ (Takes \/ UNCHANGED <<prov, granted>>)
  BY <1>0 DEF CallProvider, GoTo
<1>4. faults' \in 0 .. MaxFaults
  BY <1>3, SubscriptionConstants DEF Lose, Inv, Base
<1>5. /\ calls' \in [Keys -> Nat] /\ \A k \in Keys : calls'[k] <= 1
      /\ \A k \in Keys \ {s.key} : calls'[k] = calls[k]
  BY <1>1, <1>2 DEF Inv, Base, KeyCallsOnce
<1>6. /\ prov' \in Provider /\ prov'.period = prov.period
      /\ granted \subseteq granted' /\ granted' \subseteq Plans
      /\ prov'.plan \in granted' \cup {None} /\ prov'.next \in granted' \cup {None}
  <2>1. CASE Takes
    <3> DEFINE p == Treated(s.op, s.read, s.toPlan).accepted
    <3>1. /\ p \in Provider /\ p.period = prov.period
          /\ p.plan = prov.plan \/ (s.op = "upgrade" /\ p.plan = s.toPlan)
          /\ p.next = prov.next \/ (s.op = "downgrade" /\ p.next = s.toPlan)
      BY <1>1, TreatedFacts
    <3>2. prov' = p /\ granted' = IF s.op \in {"upgrade", "downgrade"}
                                    THEN granted \cup {s.toPlan} ELSE granted
      BY <2>1 DEF Grants
    <3> HIDE DEF p, Takes
    <3> QED BY <1>1, <3>1, <3>2 DEF Inv, Base
  <2>2. CASE UNCHANGED <<prov, granted>>
    BY <2>2 DEF Inv, Base
  <2> QED BY <1>3, <2>1, <2>2
<1>7. Base'
  BY <1>1, <1>2, <1>4, <1>5, <1>6 DEF Inv, Base, AcceptedOnly, KeyCallsOnce
<1>8. \A v \in Workers \ {w} : Undisturbed(session[v])
  BY <1>0, <1>1, <1>2, <1>5, <1>6 DEF Inv, Base, Sessions, Fine, Undisturbed, Apart, Calling
<1>9. RowStep
  BY <1>2, <1>6 DEF RowStep, Inv, Base, Row, Provider, Periods
<1>10. PICK t \in Session :
        /\ Become(w, t)
        /\ \/ t = Idle
           \/ /\ t.step \in {"apply", "unknown"} /\ t.op = s.op /\ t.key = s.key
              /\ t.toPlan = s.toPlan /\ t.read = s.read
              /\ t.step = "apply" => Grants(s.op, s.toPlan)
  <2>1. CASE Become(w, Idle)
    BY <2>1, IdleIsFine
  <2>2. CASE Become(w, To("apply")) /\ Takes
    <3>1. "apply" \in Steps
      BY DEF Steps
    <3> QED BY <2>2, <3>1, GoToFacts
  <2>3. CASE Become(w, To("unknown"))
    <3>1. "unknown" \in Steps
      BY DEF Steps
    <3> QED BY <2>3, <3>1, GoToFacts
  <2> QED BY <1>3, <2>1, <2>2, <2>3
<1>11. Fine(t)' /\ \A v \in Workers : Apart(t, session[v])
  <2>1. CASE t = Idle
    BY <2>1, IdleIsFine DEF Idle, Fine, Acting, Calling, Ticking
  <2>2. CASE t # Idle
    BY <1>1, <1>2, <1>6, <1>10, <2>2 DEF Fine, Acting, Calling, Ticking, Grants, Apart
  <2> QED BY <2>1, <2>2
<1> QED BY <1>7, <1>8, <1>9, <1>10, <1>11, WorkerInv

(* What follows the call: nothing is applied that was not accepted.        *)
LEMMA AfterCallInv ==
  ASSUME Inv, NEW w \in Workers, ReconcileTimeout(w) \/ ApplyRequest(w)
  PROVE  Inv' /\ RowStep
<1>0. PICK s \in Session : s = session[w] /\ s.step \in {"unknown", "apply"} /\ Fine(s)
  BY DEF Inv, Sessions, At, ReconcileTimeout, ApplyRequest
<1>1. /\ s.op \in Requests /\ s.key \in claimed /\ s.read \in Row /\ Live(s.read)
      /\ s.op \in {"upgrade", "downgrade"} => s.toPlan \in Plans
      /\ s.read.pendingPlan \in granted \cup {None}
      /\ s.step = "apply" /\ s.op \in {"upgrade", "downgrade"} => s.toPlan \in granted
  BY <1>0 DEF Fine, Acting, Calling, Session
<1>2. CASE ReconcileTimeout(w)
  <2>1. UNCHANGED <<sub, prov, event, claimed, granted, calls, faults>>
    BY <1>2 DEF ReconcileTimeout
  <2>2. CASE Become(w, Idle)
    BY <2>1, <2>2, IdleIsFine, ReadInv
  <2>3. CASE /\ Treated(s.op, s.read, s.toPlan).confirmed
             /\ Become(w, [s EXCEPT !.step = "apply"])
    <3>1. "apply" \in Steps
      BY DEF Steps
    <3>2. PICK t \in Session : /\ Become(w, t) /\ t.step = "apply" /\ t.op = s.op
                                /\ t.key = s.key /\ t.toPlan = s.toPlan /\ t.read = s.read
      BY <2>3, <3>1, GoToFacts
    <3>3. s.op \in {"upgrade", "downgrade"} => s.toPlan \in granted
      BY <1>1, <2>3, TreatedFacts
    <3>4. Fine(t) /\ \A v \in Workers : Apart(t, session[v])
      BY <1>1, <3>2, <3>3 DEF Fine, Acting, Calling, Ticking, Apart
    <3> QED BY <2>1, <3>2, <3>4, ReadInv
  <2> QED BY <1>0, <1>2, <2>2, <2>3 DEF ReconcileTimeout, GoTo
<1>3. CASE ApplyRequest(w)
  <2>1. Call(w, Treated(s.op, s.read, s.toPlan).records, Idle)
    BY <1>0, <1>3 DEF ApplyRequest
  <2>2. GoodMethod(Treated(s.op, s.read, s.toPlan).records)
    BY <1>0, <1>1, <1>3, TreatedFacts DEF ApplyRequest, At
  <2>3. Idle.step = "idle"
    BY DEF Idle
  <2> QED BY <2>1, <2>2, <2>3, IdleIsFine, CallInv
<1> QED BY <1>2, <1>3

-----------------------------------------------------------------------------
(* The reads of the crons and of ProcessEvent.                             *)
LEMMA CronReadInv ==
  ASSUME Inv, NEW w \in Workers, Reconcile(w) \/ FindOverdue(w)
  PROVE  Inv' /\ RowStep
<1>1. PICK step \in {"period", "overdue"} :
        /\ Become(w, [Idle EXCEPT !.step = step, !.read = Snapshot])
        /\ Live(sub) /\ UNCHANGED <<sub, prov, event, claimed, granted, calls, faults>>
  BY DEF Reconcile, FindOverdue, Live
<1> DEFINE s == [Idle EXCEPT !.step = step, !.read = Snapshot]
<1>2. s \in Session /\ s.step = step /\ s.read = Snapshot
  BY IdleIsFine, SnapshotFacts DEF Idle, Session, Steps
<1>3. PICK t \in Session : t = s
  BY <1>2
<1> HIDE DEF s
<1>4. /\ t.step = step /\ Live(t.read) /\ t.read.pendingPlan \in granted \cup {None}
      /\ Become(w, t)
  BY <1>1, <1>2, <1>3, SnapshotFacts DEF s
<1>5. Fine(t) /\ \A v \in Workers : Apart(t, session[v])
  BY <1>4 DEF Fine, Acting, Calling, Ticking, Apart
<1> QED BY <1>1, <1>4, <1>5, ReadInv

LEMMA ReadPeriodInv ==
  ASSUME Inv, NEW w \in Workers, ReadPeriod(w)
  PROVE  Inv' /\ RowStep
<1>0. PICK s \in Session : s = session[w] /\ s.step = "period" /\ Fine(s)
  BY DEF Inv, Sessions, At, ReadPeriod
<1>1. UNCHANGED <<sub, prov, event, claimed, granted, calls, faults>>
  BY DEF ReadPeriod
<1>2. CASE boundaryReached(s.read)
  <2>1. PICK t : t = [s EXCEPT !.step = Scheduled(s.read), !.seen = prov.period]
    OBVIOUS
  <2>2. Scheduled(s.read) \in {"downgrade", "stop", "renew"}
    BY DEF Scheduled
  <2>3. prov.period \in Periods
    BY DEF Inv, Base, Provider
  <2>4. /\ t \in Session /\ t.step = Scheduled(s.read) /\ t.seen = prov.period
        /\ t.read = s.read
    BY <1>0, <2>1, <2>2, <2>3 DEF Session, Steps
  <2>5. Fine(t) /\ \A v \in Workers : Apart(t, session[v])
    BY <1>0, <2>2, <2>4 DEF Fine, Acting, Calling, Ticking, Apart
  <2>6. Become(w, t)
    BY <1>0, <1>2, <2>1 DEF ReadPeriod
  <2> QED BY <1>1, <2>4, <2>5, <2>6, ReadInv
<1>3. CASE ~ boundaryReached(s.read)
  <2>1. Become(w, Idle)
    BY <1>0, <1>3 DEF ReadPeriod
  <2> QED BY <1>1, <2>1, IdleIsFine, ReadInv
<1> QED BY <1>2, <1>3

LEMMA ThenStopFacts ==
  ASSUME NEW s \in Session, NEW row \in Row, s.seen = prov.period,
         Live(row) => row.pendingPlan \in granted \cup {None}
  PROVE  /\ ThenStop(s, row) \in Session /\ Fine(ThenStop(s, row))
         /\ ThenStop(s, row).step \in {"idle", "stop"}
<1> DEFINE t == [s EXCEPT !.step = "stop", !.read = row]
<1>1. CASE row.status = "ACTIVE" /\ row.cancelAtPeriodEnd
  <2>1. ThenStop(s, row) = t
    BY <1>1 DEF ThenStop
  <2>2. t \in Session /\ t.step = "stop" /\ t.read = row /\ t.seen = s.seen
    BY DEF Session, Steps
  <2> HIDE DEF t
  <2>3. Fine(t)
    BY <1>1, <2>2 DEF Fine, Acting, Calling, Ticking, Live
  <2> QED BY <2>1, <2>2, <2>3
<1>2. CASE ~ (row.status = "ACTIVE" /\ row.cancelAtPeriodEnd)
  <2>1. ThenStop(s, row) = Idle /\ Idle.step = "idle"
    BY <1>2 DEF ThenStop, Idle
  <2> QED BY <2>1, IdleIsFine
<1> QED BY <1>1, <1>2

(* What has been updated is read again.                                    *)
LEMMA DowngradedInv ==
  ASSUME Inv, NEW w \in Workers, Downgraded(w)
  PROVE  Inv' /\ RowStep
<1>0. PICK s \in Session : s = session[w] /\ s.seen = prov.period
  <2>1. session[w] \in Session /\ Fine(session[w]) /\ session[w].step = "downgraded"
    BY DEF Inv, Sessions, At, Downgraded
  <2> QED BY <2>1 DEF Fine, Ticking
<1>1. PICK row \in Row : /\ row = Snapshot
                         /\ Live(row) => row.pendingPlan \in granted \cup {None}
  <2>1. Snapshot \in Row /\ Snapshot.status = sub.status
    BY SnapshotFacts
  <2>2. Live(sub) => Snapshot.pendingPlan \in granted \cup {None}
    BY SnapshotFacts
  <2>3. Live(Snapshot) => Live(sub)
    BY ONLY <2>1 DEF Live
  <2> QED BY ONLY <2>1, <2>2, <2>3
<1>2. PICK t \in Session : t = ThenStop(s, row) /\ Fine(t) /\ t.step \in {"idle", "stop"}
  <2>1. /\ ThenStop(s, row) \in Session /\ Fine(ThenStop(s, row))
        /\ ThenStop(s, row).step \in {"idle", "stop"}
    BY <1>0, <1>1, ThenStopFacts
  <2> QED BY ONLY <2>1
<1>3. Become(w, t) /\ UNCHANGED <<sub, prov, event, claimed, granted, calls, faults>>
  BY <1>0, <1>1, <1>2 DEF Downgraded
<1>4. \A v \in Workers : Apart(t, session[v])
  BY <1>2 DEF Apart
<1> QED BY <1>2, <1>3, <1>4, ReadInv

(* The writes of the crons.                                                *)
LEMMA CronWriteInv ==
  ASSUME Inv, NEW w \in Workers,
         ApplyDowngrade(w) \/ Stopped(w) \/ Renew(w) \/ EndOverdue(w)
  PROVE  Inv' /\ RowStep
<1>0. PICK s \in Session : /\ s = session[w] /\ Fine(s)
                            /\ s.step \in {"downgrade", "stopped", "renew", "overdue"}
  BY DEF Inv, Sessions, At, ApplyDowngrade, Stopped, Renew, EndOverdue
<1>1. /\ s.read \in Row /\ Live(s.read) /\ s.read.pendingPlan \in granted \cup {None}
      /\ s.step \in Ticking => s.seen = prov.period
  BY <1>0 DEF Fine, Acting, Session
<1>2. CASE ApplyDowngrade(w)
  <2> DEFINE m == applyScheduledDowngrade(s.read, s.seen)
  <2>1. GoodMethod(m)
    BY <1>0, <1>1, <1>2, MethodsGood DEF ApplyDowngrade, At, Ticking
  <2>2. s.step = "downgrade" /\ s.seen = prov.period
    BY <1>0, <1>1, <1>2 DEF ApplyDowngrade, At, Ticking
  <2>3. Call(w, m, IF Applies(m) THEN [s EXCEPT !.step = "downgraded"]
                                 ELSE ThenStop(s, s.read))
    BY <1>0, <1>2 DEF ApplyDowngrade
  <2> HIDE DEF m
  <2>4. CASE Applies(m)
    <3>1. PICK t : t = [s EXCEPT !.step = "downgraded"]
      OBVIOUS
    <3>2. t \in Session /\ t.step = "downgraded" /\ t.read = s.read /\ t.seen = s.seen
      BY <3>1 DEF Session, Steps
    <3>3. Call(w, m, t)
      BY <2>3, <2>4, <3>1
    <3>4. Fine(t)
      BY <1>1, <2>2, <3>2 DEF Fine, Acting, Calling, Ticking
    <3> QED BY <2>1, <3>2, <3>3, <3>4, CallInv
  <2>5. CASE ~ Applies(m)
    <3>1. PICK t \in Session : /\ t = ThenStop(s, s.read) /\ Fine(t)
                                /\ t.step \in {"idle", "stop"}
      BY <1>1, <2>2, ThenStopFacts
    <3>2. Call(w, m, t)
      BY <2>3, <2>5, <3>1
    <3> QED BY <2>1, <3>1, <3>2, CallInv
  <2> QED BY <2>4, <2>5
<1>3. CASE Stopped(w) \/ Renew(w) \/ EndOverdue(w)
  <2>1. PICK m : GoodMethod(m) /\ Call(w, m, Idle)
    <3>1. CASE Stopped(w)
      BY <1>0, <1>1, <3>1, MethodsGood DEF Stopped
    <3>2. CASE Renew(w)
      <4>1. Call(w, confirmRenewal(s.read, s.seen), Idle) /\ s.seen = prov.period
        BY <1>0, <1>1, <3>2 DEF Renew, At, Ticking
      <4>2. prov.period \in Periods /\ prov.period <= prov.period
        BY DEF Inv, Base, Provider, Periods
      <4>3. CASE prov.period >= s.read.period
        BY <1>1, <4>1, <4>2, <4>3, MethodsGood
      <4>4. CASE ~ (prov.period >= s.read.period)
        <5>1. sub.period # s.read.period
          BY <1>1, <4>4 DEF Inv, Base, Row, Provider, Periods
        <5>2. GoodMethod(confirmRenewal(s.read, s.seen))
          BY <5>1 DEF GoodMethod, Applies, confirmRenewal, Keeps, Method
        <5> QED BY <4>1, <5>2
      <4> QED BY <4>3, <4>4
    <3>3. CASE EndOverdue(w)
      BY <1>0, <1>1, <3>3, MethodsGood DEF EndOverdue, AfterDeadline
    <3> QED BY <1>3, <3>1, <3>2, <3>3
  <2>2. Idle.step = "idle"
    BY DEF Idle
  <2> QED BY <2>1, <2>2, IdleIsFine, CallInv
<1> QED BY <1>2, <1>3

(* The scheduled cancellation at the provider; and any worker that dies.   *)
LEMMA StopInv ==
  ASSUME Inv, NEW w \in Workers, StopBilling(w) \/ Crash(w)
  PROVE  Inv' /\ RowStep
<1>1. /\ prov' = [prov EXCEPT !.state = "cancelled"] \/ prov' = prov
      /\ UNCHANGED <<sub, event, claimed, granted, calls>>
      /\ faults' \in 0 .. MaxFaults
  BY SubscriptionConstants DEF StopBilling, Crash, Lose, Inv, Base
<1>2. /\ prov' \in Provider /\ prov'.period = prov.period
      /\ prov'.plan = prov.plan /\ prov'.next = prov.next
  BY <1>1 DEF Inv, Base, Provider
<1>3. Base'
  BY <1>1, <1>2 DEF Inv, Base, AcceptedOnly, KeyCallsOnce
<1>4. RowStep
  BY <1>1, <1>2 DEF RowStep, Inv, Base, Row, Provider, Periods
<1>5. \A v \in Workers : Undisturbed(session[v])
  BY <1>1, <1>2 DEF Inv, Sessions, Fine, Undisturbed
<1>6. CASE Become(w, Idle)
  <2>1. Fine(Idle)'
    BY DEF Idle, Fine, Acting, Calling, Ticking
  <2> QED BY <1>3, <1>4, <1>5, <1>6, <2>1, IdleIsFine, WorkerInv
<1>7. CASE At(w, "stop") /\ GoTo(w, "stopped")
  <2>0. PICK s \in Session : s = session[w] /\ s.step = "stop" /\ Fine(s)
    BY <1>7 DEF Inv, Sessions, At
  <2>1. "stopped" \in Steps
    BY DEF Steps
  <2>2. PICK t \in Session : /\ Become(w, t) /\ t.step = "stopped" /\ t.read = s.read
                              /\ t.seen = s.seen
    <3> DEFINE new == [s EXCEPT !.step = "stopped"]
    <3>1. Become(w, new)
      BY ONLY <1>7, <2>0 DEF GoTo
    <3>2. new \in Session /\ new.step = "stopped" /\ new.read = s.read /\ new.seen = s.seen
      BY ONLY <2>1, GoToFacts
    <3> HIDE DEF new
    <3> QED BY ONLY <3>1, <3>2
  <2>3. Fine(t)'
    <3>1. /\ Live(s.read) /\ s.read.pendingPlan \in granted \cup {None}
          /\ s.seen = prov.period
      BY ONLY <2>0 DEF Fine, Acting, Ticking
    <3>2. /\ t.read = s.read /\ t.seen = prov'.period /\ t.step = "stopped"
          /\ granted' = granted
      BY ONLY <1>1, <1>2, <2>2, <3>1
    <3> QED BY ONLY <3>1, <3>2 DEF Fine, Acting, Calling, Ticking
  <2>4. \A v \in Workers : Apart(t, session[v])
    BY ONLY <2>2 DEF Apart
  <2> QED BY <1>3, <1>4, <1>5, <2>2, <2>3, <2>4, WorkerInv
<1> QED BY <1>6, <1>7 DEF StopBilling, Crash

-----------------------------------------------------------------------------
(* Webhook events: concluding one leaves the others alone.                 *)
LEMMA ConcludedFacts ==
  ASSUME NEW events \in [EventIds -> Event], NEW e \in EventIds,
         NEW status \in {"PROCESSED", "IGNORED"}
  PROVE  LET c == Concluded(events, e, status) IN
         /\ c \in [EventIds -> Event] /\ \A d \in EventIds \ {e} : c[d] = events[d]
         /\ c[e].status = status /\ c[e].period \in {0, events[e].period}
         /\ c[e].fresh => events[e].fresh /\ c[e].period = events[e].period
<1> DEFINE kept == [events[e] EXCEPT !.status = status]
           gone == [NoEvent EXCEPT !.status = status]
<1>1. /\ kept \in Event /\ kept.status = status /\ kept.period = events[e].period
      /\ kept.fresh = events[e].fresh
  BY DEF Event
<1>2. gone \in Event /\ gone.status = status /\ gone.period = 0 /\ gone.fresh = FALSE
  <2>1. NoEvent \in Event /\ NoEvent.period = 0 /\ NoEvent.fresh = FALSE
    BY SubscriptionConstants DEF NoEvent, Event, Periods
  <2> QED BY <2>1 DEF Event
<1>3. Concluded(events, e, status) = [events EXCEPT ![e] = IF Disputed(e) THEN kept ELSE gone]
  BY DEF Concluded
<1> HIDE DEF kept, gone
<1> QED BY <1>1, <1>2, <1>3

(* A worker left with a failure to record.                                 *)
LEMMA FailedFacts ==
  ASSUME NEW step \in {"failed", "rejected"}, NEW e \in EventIds,
         NEW attempts, attempts + 1 \in 0 .. MAX_ATTEMPTS
  PROVE  /\ Failed(step, e, attempts) \in Session /\ Failed(step, e, attempts).id = e
         /\ Failed(step, e, attempts).step = step
<1>1. PICK n \in 0 .. MAX_ATTEMPTS : n = attempts + 1
  OBVIOUS
<1>2. Failed(step, e, attempts) = [Idle EXCEPT !.step = step, !.id = e, !.attempts = n]
  BY <1>1 DEF Failed
<1> QED BY <1>2, IdleIsFine DEF Idle, Session, Steps

LEMMA MissEventInv ==
  ASSUME Inv, NEW w \in Workers, NEW e \in EventIds, MissEvent(w, e)
  PROVE  Inv' /\ RowStep
<1>0. UNCHANGED <<sub, prov, event, claimed, granted, calls>> /\ faults' \in 0 .. MaxFaults
  BY SubscriptionConstants DEF MissEvent, Lose, Inv, Base
<1>1. PICK attempts \in {0, event[e].attempts} :
        Become(w, Failed("failed", e, attempts))
  BY DEF MissEvent
<1>2. attempts + 1 \in 0 .. MAX_ATTEMPTS
  <2>1. event[e] \in Event /\ event[e].attempts < MAX_ATTEMPTS
    BY DEF MissEvent, Inv, Base
  <2> QED BY <2>1, SubscriptionConstants DEF Event
<1>3. PICK s \in Session : Become(w, s) /\ s.step = "failed" /\ s.id = e
  BY <1>1, <1>2, FailedFacts
<1>4. Base'
  BY <1>0 DEF Inv, Base, AcceptedOnly, KeyCallsOnce
<1>5. \A v \in Workers : Undisturbed(session[v]) /\ Apart(s, session[v])
  BY <1>0, <1>3 DEF Inv, Sessions, Fine, Undisturbed, Apart
<1>6. RowStep
  BY <1>0 DEF RowStep, Inv, Base, Row, Provider, Periods
<1>7. Fine(s)'
  BY <1>3 DEF Fine, Acting, Calling, Ticking
<1> QED BY <1>3, <1>4, <1>5, <1>6, <1>7, WorkerInv

LEMMA ProcessEventInv ==
  ASSUME Inv, NEW w \in Workers, NEW e \in EventIds, ProcessEvent(w, e)
  PROVE  Inv' /\ RowStep
<1>0. /\ event[e].status \in Unprocessed
      /\ \A v \in Workers : session[v].step = "event" => session[v].id # e
      /\ UNCHANGED <<sub, prov, claimed, granted, calls, faults>>
  BY DEF ProcessEvent, Due, Locked, At
<1>1. CASE IsNews(e)
  <2> DEFINE s == [Idle EXCEPT !.step = "event", !.id = e, !.read = Snapshot]
  <2>1. s \in Session /\ s.step = "event" /\ s.id = e /\ s.read = Snapshot
    BY IdleIsFine, SnapshotFacts DEF Idle, Session, Steps
  <2>2. PICK t \in Session : t = s
    BY <2>1
  <2>3. Become(w, t) /\ UNCHANGED event
    BY <1>1, <2>2 DEF ProcessEvent
  <2>4. Live(sub) /\ event[e].period >= sub.period
    BY <1>1 DEF IsNews, Live, Inv, Base
  <2>5. /\ t.step = "event" /\ t.id = e /\ t.read.period = sub.period
        /\ Live(t.read) /\ t.read.pendingPlan \in granted \cup {None}
    BY <2>1, <2>2, <2>4, SnapshotFacts
  <2> HIDE DEF s
  <2>6. Fine(t) /\ \A v \in Workers : Apart(t, session[v])
    BY <1>0, <2>4, <2>5 DEF Fine, Acting, Calling, Ticking, Apart
  <2> QED BY <1>0, <2>3, <2>6, ReadInv
<1>2. CASE ~ IsNews(e)
  <2>1. event' = Concluded(event, e, "IGNORED") /\ UNCHANGED session
    BY <1>2 DEF ProcessEvent
  <2>2. /\ event' \in [EventIds -> Event] /\ event'[e].status = "IGNORED"
        /\ event'[e].period \in {0, event[e].period}
        /\ event'[e].fresh => event[e].fresh /\ event'[e].period = event[e].period
        /\ \A d \in EventIds \ {e} : event'[d] = event[d]
    BY <2>1, ConcludedFacts DEF Inv, Base
  <2>3. \A v \in Workers : Undisturbed(session[v])
    BY <1>0, <2>2 DEF Inv, Base, Sessions, Fine, Undisturbed
  <2>4. 0 <= prov.period
    BY DEF Inv, Base, Provider, Periods
  <2>5. ASSUME NEW d \in EventIds
        PROVE  /\ event'[d].period <= prov.period
               /\ event'[d].fresh => event'[d].period >= sub.period
               /\ event'[d].status \in Unprocessed => event'[d].attempts < MAX_ATTEMPTS
    <3>1. CASE d = e
      BY <2>2, <2>4, <3>1 DEF Inv, Base, Unprocessed
    <3>2. CASE d # e
      BY <2>2, <3>2 DEF Inv, Base
    <3> QED BY <3>1, <3>2
  <2>6. Base'
    BY <1>0, <2>2, <2>5 DEF Inv, Base, AcceptedOnly, KeyCallsOnce
  <2>7. RowStep
    BY <1>0 DEF RowStep, Inv, Base, Row, Provider, Periods
  <2> QED BY <2>1, <2>3, <2>6, <2>7, WorldInv
<1> QED BY <1>1, <1>2

(* The processing of an event: whatever row it decides on, it is the only  *)
(* one that concludes the event.                                           *)
LEMMA FinishEventInv ==
  ASSUME Inv, NEW w \in Workers, FinishEvent(w)
  PROVE  Inv' /\ RowStep
<1>0. PICK s \in Session : s = session[w] /\ s.step = "event" /\ Fine(s)
  BY DEF Inv, Sessions, At, FinishEvent
<1>1. /\ s.read \in Row /\ Live(s.read) /\ s.read.pendingPlan \in granted \cup {None}
      /\ s.id \in EventIds /\ event[s.id] \in Event
      /\ event[s.id].period >= s.read.period /\ event[s.id].period <= prov.period
      /\ event[s.id].attempts < MAX_ATTEMPTS
  BY <1>0 DEF Fine, Acting, Session, Inv, Base
<1>2. PICK m : m = applyBillingWebhookEvent(event[s.id], s.read)
  OBVIOUS
<1>3. GoodMethod(m)
  <2>1. event[s.id].period \in Periods
    BY <1>1 DEF Event
  <2> QED BY <1>1, <1>2, <2>1, MethodsGood DEF applyBillingWebhookEvent
<1>4. UNCHANGED <<prov, claimed, granted, calls>>
  BY DEF FinishEvent
<1>5. \/ /\ sub' = Outcome(m) /\ event' = Concluded(Outdated(m), s.id, "PROCESSED")
         /\ Become(w, Idle) /\ UNCHANGED faults
      \/ /\ \E step \in {"failed", "rejected"} :
              Become(w, Failed(step, s.id, event[s.id].attempts))
         /\ UNCHANGED <<sub, event>>
         /\ UNCHANGED faults \/ Lose
  BY <1>0, <1>2 DEF FinishEvent
<1>6. faults' \in 0 .. MaxFaults
  BY <1>5, SubscriptionConstants DEF Lose, Inv, Base
<1>7. CASE /\ sub' = Outcome(m) /\ event' = Concluded(Outdated(m), s.id, "PROCESSED")
           /\ Become(w, Idle)
  <2>1. PICK events : events = Outdated(m)
    OBVIOUS
  <2>2. /\ sub' \in Row /\ AcceptedOnly' /\ RowStep /\ sub'.period <= prov.period
        /\ sub' = sub \/ Live(sub')
        /\ events \in [EventIds -> Event]
        /\ \A e \in EventIds : /\ events[e].period = event[e].period
                               /\ events[e].status = event[e].status
                               /\ events[e].attempts = event[e].attempts
                               /\ events[e].fresh => event[e].period >= sub'.period
    BY <1>3, <1>4, <1>7, <2>1, RowWritten
  <2>3. /\ event' \in [EventIds -> Event] /\ event'[s.id].status = "PROCESSED"
        /\ event'[s.id].period \in {0, events[s.id].period}
        /\ event'[s.id].fresh => events[s.id].fresh /\ event'[s.id].period = events[s.id].period
        /\ \A d \in EventIds \ {s.id} : event'[d] = events[d]
    BY <1>1, <1>7, <2>1, <2>2, ConcludedFacts
  <2>4. 0 <= prov.period
    BY DEF Inv, Base, Provider, Periods
  <2>5. ASSUME NEW e \in EventIds
        PROVE  /\ event'[e].period <= prov.period
               /\ event'[e].fresh => event'[e].period >= sub'.period
               /\ event'[e].status \in Unprocessed => event'[e].attempts < MAX_ATTEMPTS
    <3>1. CASE e = s.id
      BY <1>1, <2>2, <2>3, <2>4, <3>1 DEF Unprocessed
    <3>2. CASE e # s.id
      BY <2>2, <2>3, <3>2 DEF Inv, Base
    <3> QED BY <3>1, <3>2
  <2>6. Base'
    BY <1>4, <1>6, <2>2, <2>3, <2>5 DEF Inv, Base, KeyCallsOnce, Live
  <2>7. \A v \in Workers \ {w} : Undisturbed(session[v])
    BY <1>0, <1>4, <2>2, <2>3 DEF Inv, Sessions, Fine, Undisturbed, Apart, Live
  <2>8. Fine(Idle)'
    BY DEF Idle, Fine, Acting, Calling, Ticking
  <2> QED BY <1>7, <2>2, <2>6, <2>7, <2>8, IdleIsFine, WorkerInv
<1>8. ASSUME NEW step \in {"failed", "rejected"}, UNCHANGED <<sub, event>>,
             Become(w, Failed(step, s.id, event[s.id].attempts))
      PROVE  Inv' /\ RowStep
  <2>1. event[s.id].attempts + 1 \in 0 .. MAX_ATTEMPTS
    BY <1>1, SubscriptionConstants DEF Event
  <2>2. PICK t \in Session : Become(w, t) /\ t.step = step /\ t.id = s.id
    BY <1>1, <1>8, <2>1, FailedFacts
  <2>3. Base'
    BY <1>4, <1>6, <1>8 DEF Inv, Base, AcceptedOnly, KeyCallsOnce
  <2>4. \A v \in Workers : Undisturbed(session[v]) /\ Apart(t, session[v])
    BY <1>4, <1>8, <2>2 DEF Inv, Sessions, Fine, Undisturbed, Apart
  <2>5. RowStep
    BY <1>4, <1>8 DEF RowStep, Inv, Base, Row, Provider, Periods
  <2>6. Fine(t)'
    BY <1>1, <2>2 DEF Fine, Acting, Calling, Ticking
  <2> QED BY <2>2, <2>3, <2>4, <2>5, <2>6, WorkerInv
<1> QED BY <1>5, <1>7, <1>8

(* A failure is recorded on an event that nobody has locked.               *)
LEMMA RecordFailureInv ==
  ASSUME Inv, NEW w \in Workers, RecordFailure(w)
  PROVE  Inv' /\ RowStep
<1>0. PICK s \in Session : /\ s = session[w] /\ s.step \in {"failed", "rejected"}
                            /\ s.id \in EventIds /\ ~ Locked(s.id)
                            /\ s.attempts \in 0 .. MAX_ATTEMPTS
  BY DEF Inv, Sessions, Fine, Session, RecordFailure
<1>1. /\ event' = [event EXCEPT ![s.id].status = AfterError(s), ![s.id].attempts = s.attempts]
      /\ Become(w, Idle) /\ UNCHANGED <<sub, prov, claimed, granted, calls, faults>>
  BY <1>0 DEF RecordFailure
<1>2. PICK status \in {"FAILED", "PROCESSING_FAILED"} :
        /\ status = AfterError(s)
        /\ status = "PROCESSING_FAILED" => s.attempts < MAX_ATTEMPTS
  BY <1>0, SubscriptionConstants DEF AfterError
<1>3. /\ event' \in [EventIds -> Event] /\ event'[s.id].status = status
      /\ event'[s.id].attempts = s.attempts /\ event'[s.id].period = event[s.id].period
      /\ event'[s.id].fresh = event[s.id].fresh
      /\ \A d \in EventIds \ {s.id} : event'[d] = event[d]
  <2>1. PICK ev : ev = [event[s.id] EXCEPT !.status = status, !.attempts = s.attempts]
    OBVIOUS
  <2>2. event[s.id] \in Event /\ event \in [EventIds -> Event]
    BY <1>0 DEF Inv, Base
  <2>3. /\ ev \in Event /\ ev.status = status /\ ev.attempts = s.attempts
        /\ ev.period = event[s.id].period /\ ev.fresh = event[s.id].fresh
    BY <1>0, <2>1, <2>2 DEF Event
  <2>4. event' = [event EXCEPT ![s.id] = ev]
    BY <1>0, <1>1, <1>2, <2>1, <2>2
  <2> QED BY <1>0, <2>2, <2>3, <2>4
<1>4. ASSUME NEW e \in EventIds
      PROVE  /\ event'[e].period <= prov.period
             /\ event'[e].fresh => event'[e].period >= sub.period
             /\ event'[e].status \in Unprocessed => event'[e].attempts < MAX_ATTEMPTS
  <2>1. CASE e = s.id
    BY <1>0, <1>2, <1>3, <2>1 DEF Inv, Base, Unprocessed
  <2>2. CASE e # s.id
    BY <1>3, <2>2 DEF Inv, Base
  <2> QED BY <2>1, <2>2
<1>5. Base'
  BY <1>1, <1>3, <1>4 DEF Inv, Base, AcceptedOnly, KeyCallsOnce
<1>6. \A v \in Workers : Undisturbed(session[v])
  BY <1>0, <1>1, <1>3 DEF Inv, Sessions, Fine, Undisturbed, Locked, At
<1>7. RowStep
  BY <1>1 DEF RowStep, Inv, Base, Row, Provider, Periods
<1>8. Fine(Idle)'
  BY DEF Idle, Fine, Acting, Calling, Ticking
<1> QED BY <1>1, <1>5, <1>6, <1>7, <1>8, IdleIsFine, WorkerInv

-----------------------------------------------------------------------------
(* The world: the provider bills and sends news, deadlines pass.           *)
LEMMA ReceiveFacts ==
  ASSUME Inv, NEW kind \in EventKinds, NEW period \in Periods, Receive(kind, period)
  PROVE  /\ event' \in [EventIds -> Event]
         /\ \A e \in EventIds :
              \/ event'[e] = event[e]
              \/ /\ event[e].status = "ABSENT" /\ event'[e].period = period
                 /\ event'[e].attempts < MAX_ATTEMPTS
<1>0. event \in [EventIds -> Event]
  BY DEF Inv, Base
<1>1. ASSUME NEW e \in EventIds, event[e].status = "ABSENT",
             event' = [event EXCEPT ![e] =
               [NoEvent EXCEPT !.status = "RECEIVED", !.kind = kind,
                               !.period = period, !.fresh = TRUE]]
      PROVE  /\ event' \in [EventIds -> Event]
             /\ \A d \in EventIds :
                  \/ event'[d] = event[d]
                  \/ /\ event[d].status = "ABSENT" /\ event'[d].period = period
                     /\ event'[d].attempts < MAX_ATTEMPTS
  <2> DEFINE ev == [NoEvent EXCEPT !.status = "RECEIVED", !.kind = kind,
                                   !.period = period, !.fresh = TRUE]
  <2>1. NoEvent \in Event /\ NoEvent.attempts = 0
    BY SubscriptionConstants DEF NoEvent, Event, Periods
  <2>2. ev \in Event /\ ev.period = period /\ ev.attempts < MAX_ATTEMPTS
    <3>1. ev \in Event /\ ev.period = period /\ ev.attempts = 0
      BY <2>1 DEF Event
    <3> HIDE DEF ev
    <3> QED BY <3>1, SubscriptionConstants
  <2>3. event' = [event EXCEPT ![e] = ev]
    BY <1>1
  <2> HIDE DEF ev
  <2> QED BY <1>0, <1>1, <2>2, <2>3
<1> QED BY <1>0, <1>1 DEF Receive

LEMMA WorldStepInv ==
  ASSUME Inv, World
  PROVE  Inv' /\ RowStep
<1>0. /\ sub \in Row /\ prov \in Provider /\ event \in [EventIds -> Event]
      /\ sub.period <= prov.period /\ sub.period \in Periods /\ prov.period \in Periods
  BY DEF Inv, Base, Row, Provider
<1>1. CASE ProviderRenews
  <2>1. /\ prov' = [prov EXCEPT !.period = prov.period + 1, !.next = None,
                       !.plan = IF prov.next = None THEN prov.plan ELSE prov.next]
        /\ prov.period < MaxPeriod /\ Receive("renewed", prov'.period)
        /\ \A w \in Workers : session[w].step \notin Ticking
        /\ UNCHANGED <<sub, claimed, session, granted, calls, faults>>
    BY <1>0, <1>1 DEF ProviderRenews, Provider, Ticking
  <2>2. /\ prov' \in Provider /\ prov'.period = prov.period + 1 /\ prov'.next = None
        /\ prov'.plan \in {prov.plan, prov.next} /\ prov'.period \in Periods
    <3> DEFINE plan == IF prov.next = None THEN prov.plan ELSE prov.next
    <3>1. plan \in {prov.plan, prov.next} /\ plan \in Plans \cup {None}
      BY <1>0 DEF Provider
    <3>2. prov.period + 1 \in Periods
      BY <1>0, <2>1, SubscriptionConstants DEF Periods
    <3>3. prov' = [prov EXCEPT !.period = prov.period + 1, !.next = None, !.plan = plan]
      BY <2>1
    <3> HIDE DEF plan
    <3> QED BY <1>0, <3>1, <3>2, <3>3 DEF Provider
  <2>3. "renewed" \in EventKinds
    BY DEF EventKinds
  <2>4. /\ event' \in [EventIds -> Event]
        /\ \A e \in EventIds :
             \/ event'[e] = event[e]
             \/ /\ event[e].status = "ABSENT" /\ event'[e].period = prov'.period
                /\ event'[e].attempts < MAX_ATTEMPTS
    BY <2>1, <2>2, <2>3, ReceiveFacts
  <2>5. ASSUME NEW e \in EventIds
        PROVE  /\ event'[e].period <= prov'.period
               /\ event'[e].fresh => event'[e].period >= sub.period
               /\ event'[e].status \in Unprocessed => event'[e].attempts < MAX_ATTEMPTS
    <3>1. CASE event'[e] = event[e]
      BY <1>0, <2>2, <3>1 DEF Inv, Base, Event, Periods
    <3>2. CASE event'[e].period = prov'.period /\ event'[e].attempts < MAX_ATTEMPTS
      BY <1>0, <2>2, <3>2 DEF Periods
    <3> QED BY <2>4, <3>1, <3>2
  <2>6. sub.period <= prov'.period /\ sub.period >= sub.period
    BY <1>0, <2>2 DEF Periods
  <2>7. Base'
    BY <2>1, <2>2, <2>4, <2>5, <2>6 DEF Inv, Base, AcceptedOnly, KeyCallsOnce
  <2>8. \A v \in Workers : Undisturbed(session[v])
    BY <2>1, <2>4 DEF Inv, Sessions, Fine, Undisturbed, Unprocessed
  <2>9. RowStep
    BY <2>1, <2>6 DEF RowStep
  <2> QED BY <2>1, <2>7, <2>8, <2>9, WorldInv
<1>2. ASSUME NEW from, NEW to \in {"active", "unpaid", "cancelled"}, NEW kinds \in SUBSET EventKinds,
             ProviderReports(from, to, kinds)
      PROVE  Inv' /\ RowStep
  <2>1. /\ prov' = [prov EXCEPT !.state = to]
        /\ UNCHANGED <<sub, claimed, session, granted, calls, faults>>
    BY <1>2 DEF ProviderReports
  <2>2. /\ prov' \in Provider /\ prov'.period = prov.period
        /\ prov'.plan = prov.plan /\ prov'.next = prov.next
    BY <1>0, <2>1 DEF Provider
  <2>3. PICK kind \in EventKinds : Receive(kind, prov.period)
    BY <1>2 DEF ProviderReports
  <2>4. /\ event' \in [EventIds -> Event]
        /\ \A e \in EventIds :
             \/ event'[e] = event[e]
             \/ /\ event[e].status = "ABSENT" /\ event'[e].period = prov.period
                /\ event'[e].attempts < MAX_ATTEMPTS
    BY <1>0, <2>3, ReceiveFacts
  <2>5. ASSUME NEW e \in EventIds
        PROVE  /\ event'[e].period <= prov'.period
               /\ event'[e].fresh => event'[e].period >= sub.period
               /\ event'[e].status \in Unprocessed => event'[e].attempts < MAX_ATTEMPTS
    <3>1. CASE event'[e] = event[e]
      BY <2>2, <3>1 DEF Inv, Base
    <3>2. CASE event'[e].period = prov.period /\ event'[e].attempts < MAX_ATTEMPTS
      BY <1>0, <2>2, <3>2 DEF Periods
    <3> QED BY <2>4, <3>1, <3>2
  <2>6. sub.period <= prov'.period /\ sub.period >= sub.period
    BY <1>0, <2>2 DEF Periods
  <2>7. Base'
    BY <2>1, <2>2, <2>4, <2>5, <2>6 DEF Inv, Base, AcceptedOnly, KeyCallsOnce
  <2>8. \A v \in Workers : Undisturbed(session[v])
    BY <2>1, <2>2, <2>4 DEF Inv, Sessions, Fine, Undisturbed, Unprocessed
  <2>9. RowStep
    BY <2>1, <2>6 DEF RowStep
  <2> QED BY <2>1, <2>7, <2>8, <2>9, WorldInv
<1>3. CASE DeadlinePasses
  <2>1. /\ sub' = [sub EXCEPT !.overdue = TRUE]
        /\ UNCHANGED <<prov, event, claimed, session, granted, calls, faults>>
    BY <1>3 DEF DeadlinePasses
  <2>2. /\ sub' \in Row /\ sub'.status = sub.status /\ sub'.plan = sub.plan
        /\ sub'.pendingPlan = sub.pendingPlan /\ sub'.period = sub.period
    BY <1>0, <2>1 DEF Row
  <2>3. Base'
    BY <2>1, <2>2 DEF Inv, Base, AcceptedOnly, KeyCallsOnce
  <2>4. \A v \in Workers : Undisturbed(session[v])
    BY <2>1, <2>2 DEF Inv, Sessions, Fine, Undisturbed
  <2>5. RowStep
    BY <1>0, <2>1, <2>2 DEF RowStep, Periods
  <2> QED BY <2>1, <2>3, <2>4, <2>5, WorldInv
<1>4. CASE PaymentFails \/ PaymentRecovers \/ ProviderCancels
  <2>1. /\ {"payment_failed"} \in SUBSET EventKinds /\ {"renewed", "recovered"} \in SUBSET EventKinds
        /\ {"cancelled"} \in SUBSET EventKinds
    BY DEF EventKinds
  <2> QED BY <1>2, <1>4, <2>1 DEF PaymentFails, PaymentRecovers, ProviderCancels
<1> QED BY <1>1, <1>3, <1>4 DEF World

-----------------------------------------------------------------------------
(* Every step keeps the invariant and treats the row as RowStep says.      *)
LEMMA NextInv ==
  ASSUME Inv, [Next]_vars
  PROVE  Inv' /\ RowStep
<1>1. CASE UNCHANGED vars
  <2>1. UNCHANGED <<sub, prov, event, claimed, session, granted, calls, faults>>
    BY <1>1 DEF vars
  <2>2. Inv'
    BY <2>1 DEF Inv, Base, Sessions, Fine, Apart, AcceptedOnly, KeyCallsOnce
  <2>3. RowStep
    BY <2>1 DEF RowStep, Inv, Base, Row, Provider, Periods
  <2> QED BY <2>2, <2>3
<1>2. ASSUME NEW w \in Workers,
             \/ \E plan \in Plans : Create(w, plan)
             \/ \E k \in Keys, op \in Requests :
                  \E toPlan \in ToPlan(op) : Request(w, k, op, toPlan)
             \/ Reconcile(w) \/ FindOverdue(w)
             \/ \E e \in EventIds : ProcessEvent(w, e) \/ MissEvent(w, e)
      PROVE  Inv' /\ RowStep
  BY <1>2, CreateInv, RequestInv, CronReadInv, ProcessEventInv, MissEventInv
<1>3. ASSUME NEW w \in Workers, Step(w) \/ Crash(w)
      PROVE  Inv' /\ RowStep
  BY <1>3, CreateAtProviderInv, PendingInv, ActivationInv, CallProviderInv, AfterCallInv,
     ReadPeriodInv, CronWriteInv, DowngradedInv, StopInv, FinishEventInv,
     RecordFailureInv DEF Step
<1> QED BY <1>1, <1>2, <1>3, WorldStepInv DEF Next

-----------------------------------------------------------------------------
(* Until something fails: while there is no row, whoever has been accepted *)
(* is about to make it; while it is PENDING, somebody is to activate it.   *)
Until(status, step) ==
  sub.status = status => \E w \in Workers : session[w].step = step

Creating ==
  /\ \A w \in Workers : session[w].step \in Acting => Live(sub)
  /\ faults = 0 => Until("PENDING", "pending")
  /\ faults = 0 /\ granted # {} => Until("ABSENT", "created")

LEMMA InitCreating == Init => Creating
  BY DEF Init, Idle, NoRow, Creating, Until, Acting

LEMMA LiveStays ==
  ASSUME Inv, RowStep
  PROVE  Live(sub) => Live(sub)'
<1>1. sub.status \in SubscriptionStatus \cup {"ABSENT"}
  BY DEF Inv, Base, Row
<1> QED BY <1>1 DEF RowStep, Live, SUBSCRIPTION_STATE_TRANSITIONS, SubscriptionStatus

(* What holds of every step of worker w.                                   *)
Alone(w) == /\ \A v \in Workers \ {w} : session'[v] = session[v]
            /\ faults' = 0 => faults = 0

LEMMA BecomeAlone ==
  ASSUME Inv, NEW w \in Workers, NEW s, Become(w, s), UNCHANGED faults \/ Lose
  PROVE  Alone(w) /\ session'[w] = s
<1>1. session \in [Workers -> Session] /\ faults \in 0 .. MaxFaults
  BY DEF Inv, Base, Sessions
<1> QED BY <1>1 DEF Become, Alone, Lose

(* A step of a worker that creates nothing.                                *)
LEMMA CreatingKept ==
  ASSUME Creating, NEW w \in Workers, Alone(w), session[w].step \notin {"created", "pending"},
         session'[w].step \in Acting => Live(sub)', Live(sub) => Live(sub)',
         UNCHANGED <<sub, granted>> \/ Live(sub)'
  PROVE  Creating'
<1>1. \A v \in Workers : session'[v].step \in Acting => Live(sub)'
  BY DEF Creating, Alone
<1>2. faults' = 0 => Until("PENDING", "pending")'
  BY DEF Creating, Until, Alone, Live
<1>3. faults' = 0 /\ granted' # {} => Until("ABSENT", "created")'
  BY DEF Creating, Until, Alone, Live
<1> QED BY <1>1, <1>2, <1>3 DEF Creating

(* A step of a worker that acts on a row it has read.                      *)
LEMMA ActingCreates ==
  ASSUME Inv, Creating, RowStep, NEW w \in Workers,
         \/ CallProvider(w) \/ ReconcileTimeout(w) \/ ApplyRequest(w)
         \/ ReadPeriod(w) \/ ApplyDowngrade(w) \/ Downgraded(w)
         \/ StopBilling(w) \/ Stopped(w) \/ Renew(w)
         \/ EndOverdue(w) \/ FinishEvent(w)
  PROVE  Creating'
<1>1. session[w].step \in Acting
  BY DEF CallProvider, ReconcileTimeout, ApplyRequest, ReadPeriod, ApplyDowngrade, Downgraded,
         StopBilling, Stopped, Renew, EndOverdue, FinishEvent, At, Acting
<1>2. Live(sub)'
  BY <1>1, LiveStays DEF Creating
<1>3. (\E s : Become(w, s)) /\ (UNCHANGED faults \/ Lose)
  <2>1. CASE CallProvider(w) \/ ReconcileTimeout(w) \/ ReadPeriod(w) \/ Downgraded(w)
    BY <2>1 DEF CallProvider, ReconcileTimeout, ReadPeriod, Downgraded, GoTo
  <2>2. CASE ApplyRequest(w) \/ ApplyDowngrade(w) \/ Stopped(w) \/ Renew(w) \/ EndOverdue(w)
    BY <2>2 DEF ApplyRequest, ApplyDowngrade, Stopped, Renew, EndOverdue, Call
  <2>3. CASE StopBilling(w) \/ FinishEvent(w)
    BY <2>3 DEF StopBilling, FinishEvent, GoTo
  <2> QED BY <2>1, <2>2, <2>3
<1>4. Alone(w)
  BY <1>3, BecomeAlone
<1>5. session[w].step \notin {"created", "pending"}
  BY <1>1 DEF Acting
<1> QED BY <1>2, <1>4, <1>5, CreatingKept

(* A step of a worker that creates.                                        *)
LEMMA CreationCreates ==
  ASSUME Inv, Creating, RowStep, NEW w \in Workers,
         CreateAtProvider(w) \/ createPendingSubscription(w) \/ confirmActivation(w)
  PROVE  Creating'
<1>0. session \in [Workers -> Session] /\ sub \in Row
  BY DEF Inv, Base, Sessions
<1>1. CASE CreateAtProvider(w)
  <2>1. PICK s : Become(w, s)
    BY <1>1 DEF CreateAtProvider, GoTo
  <2>2. /\ Alone(w) /\ session'[w] = s /\ session[w].step = "create"
        /\ UNCHANGED sub /\ (UNCHANGED faults \/ Lose)
    BY <1>1, <2>1, BecomeAlone DEF CreateAtProvider, At
  <2>3. CASE session'[w].step = "created"
    <3>1. \A v \in Workers : session'[v].step \in Acting => Live(sub)'
      BY <2>2, <2>3 DEF Creating, Alone, Acting, Live
    <3>2. faults' = 0 => Until("PENDING", "pending")'
      BY <2>2 DEF Creating, Until, Alone
    <3>3. Until("ABSENT", "created")'
      BY <2>3 DEF Until
    <3> QED BY <3>1, <3>2, <3>3 DEF Creating
  <2>4. CASE session'[w] = Idle /\ UNCHANGED <<sub, granted>>
    <3>1. session'[w].step \notin Acting /\ (Live(sub) => Live(sub)')
      BY <2>4 DEF Idle, Acting, Live
    <3> QED BY <2>2, <2>4, <3>1, CreatingKept
  <2>5. CASE session'[w] = Idle /\ Lose
    <3>1. faults' # 0
      BY <2>5 DEF Lose, Inv, Base
    <3>2. \A v \in Workers : session'[v].step \in Acting => Live(sub)'
      BY <2>2, <2>5 DEF Creating, Alone, Acting, Live, Idle
    <3> QED BY <3>1, <3>2 DEF Creating
  <2>6. CASE GoTo(w, "created")
    <3>1. session'[w].step = "created"
      BY <1>0, <2>6 DEF GoTo, Become, Session
    <3> QED BY <2>3, <3>1
  <2>7. CASE Become(w, Idle)
    <3>1. session'[w] = Idle
      BY <1>0, <2>7 DEF Become
    <3> QED BY <1>1, <2>2, <2>4, <2>5, <2>6, <3>1 DEF CreateAtProvider
  <2> QED BY <1>1, <2>6, <2>7 DEF CreateAtProvider
<1>2. CASE createPendingSubscription(w)
  <2>1. PICK s : Become(w, s)
    BY <1>2 DEF createPendingSubscription
  <2>2. /\ Alone(w) /\ session'[w] = s /\ session[w].step = "created"
        /\ UNCHANGED <<granted, faults>>
    BY <1>2, <2>1, BecomeAlone DEF createPendingSubscription, At
  <2>3. CASE sub.status = "ABSENT"
    <3>1. /\ sub' = [NoRow EXCEPT !.status = "PENDING", !.plan = session[w].toPlan]
          /\ Become(w, [session[w] EXCEPT !.step = "pending", !.read = sub'])
      BY <1>2, <2>3 DEF createPendingSubscription
    <3>2. sub'.status = "PENDING" /\ session'[w].step = "pending"
      BY <1>0, <3>1 DEF NoRow, Become, Session
    <3>3. \A v \in Workers : session'[v].step \notin Acting
      BY <2>2, <2>3, <3>2 DEF Creating, Alone, Acting, Live
    <3> QED BY <3>2, <3>3 DEF Creating, Until
  <2>4. CASE sub.status # "ABSENT"
    <3>1. session'[w] = Idle /\ UNCHANGED sub
      BY <1>0, <1>2, <2>4 DEF createPendingSubscription, Become
    <3>2. \A v \in Workers : session'[v].step \in Acting => Live(sub)'
      BY <2>2, <3>1 DEF Creating, Alone, Acting, Live, Idle
    <3>3. faults' = 0 => Until("PENDING", "pending")'
      BY <2>2, <3>1 DEF Creating, Until, Alone
    <3> QED BY <2>4, <3>1, <3>2, <3>3 DEF Creating, Until
  <2> QED BY <2>3, <2>4
<1>3. CASE confirmActivation(w)
  <2>1. Become(w, Idle) /\ UNCHANGED faults /\ session[w].step = "pending"
    BY <1>3 DEF confirmActivation, At
  <2>2. Alone(w) /\ session'[w] = Idle
    BY <2>1, BecomeAlone
  <2>3. /\ session[w].read.status = "PENDING" /\ sub.status # "ABSENT"
    BY <2>1 DEF Inv, Sessions, Fine
  <2>4. Live(sub)'
    <3>1. PICK status \in {"TRIALING", "ACTIVE"} :
             sub' = Outcome(Moves(session[w].read, status))
      BY <1>3 DEF confirmActivation
    <3>2. CASE sub.status = "PENDING"
      <4>0. SUBSCRIPTION_STATE_TRANSITIONS["PENDING"] = {"TRIALING", "ACTIVE"}
        BY DEF SUBSCRIPTION_STATE_TRANSITIONS
      <4>1. Applies(Moves(session[w].read, status))
        <5>1. PICK m : m = Moves(session[w].read, status)
          OBVIOUS
        <5>2. ~ m.noop /\ m.legal /\ m.unchanged
          BY <2>3, <3>2, <4>0, <5>1 DEF Moves, Method
        <5> QED BY <5>1, <5>2 DEF Applies
      <4>2. sub' = [sub EXCEPT !.status = status, !.overdue = FALSE]
        BY <3>1, <4>1 DEF Outcome, Moves, Method
      <4> QED BY <1>0, <4>2 DEF Live, Row
    <3>3. CASE sub.status # "PENDING"
      BY <2>3, <3>3, LiveStays DEF Live
    <3> QED BY <3>2, <3>3
  <2>5. \A v \in Workers : session'[v].step \in Acting => Live(sub)'
    BY <2>4
  <2> QED BY <2>4, <2>5 DEF Creating, Until, Live
<1> QED BY <1>1, <1>2, <1>3

(* A step that begins something, or ends what is not acting.               *)
LEMMA OtherCreates ==
  ASSUME Inv, Creating, RowStep, NEW w \in Workers,
         \/ \E plan \in Plans : Create(w, plan)
         \/ \E k \in Keys, op \in Requests :
              \E toPlan \in ToPlan(op) : Request(w, k, op, toPlan)
         \/ Reconcile(w) \/ FindOverdue(w)
         \/ \E e \in EventIds : ProcessEvent(w, e) \/ MissEvent(w, e)
         \/ RecordFailure(w)
  PROVE  Creating'
<1>0. session \in [Workers -> Session] /\ sub \in Row
  BY DEF Inv, Base, Sessions
<1>1. UNCHANGED <<sub, granted>> /\ (UNCHANGED faults \/ Lose)
      /\ session[w].step \notin {"created", "pending"}
  BY DEF Create, Request, Reconcile, FindOverdue, ProcessEvent, MissEvent, RecordFailure, At
<1>2. PICK s : Become(w, s) /\ (s.step \in Acting => Live(sub))
  <2>1. CASE (\E plan \in Plans : Create(w, plan)) \/ RecordFailure(w)
             \/ \E e \in EventIds : MissEvent(w, e)
    <3>1. CASE \E plan \in Plans : Create(w, plan)
      <4>1. PICK plan \in Plans : Create(w, plan)
        BY <3>1
      <4> DEFINE new == [Idle EXCEPT !.step = "create", !.toPlan = plan]
      <4>2. Become(w, new) /\ new.step = "create"
        BY <4>1 DEF Create, Idle
      <4> HIDE DEF new
      <4> QED BY <4>2 DEF Acting
    <3>2. CASE RecordFailure(w)
      <4>1. Become(w, Idle) /\ Idle.step = "idle"
        BY <3>2 DEF RecordFailure, Idle
      <4> QED BY <4>1 DEF Acting
    <3>3. CASE \E e \in EventIds : MissEvent(w, e)
      <4>1. PICK e \in EventIds : MissEvent(w, e)
        BY <3>3
      <4>2. PICK n \in {0, event[e].attempts} :
               Become(w, Failed("failed", e, n))
        BY <4>1 DEF MissEvent
      <4> DEFINE new == Failed("failed", e, n)
      <4>3. Become(w, new) /\ new.step = "failed"
        BY <4>2 DEF Failed, Idle
      <4> HIDE DEF new
      <4> QED BY <4>3 DEF Acting
    <3> QED BY <2>1, <3>1, <3>2, <3>3
  <2>2. CASE Reconcile(w) \/ FindOverdue(w)
    BY <2>2 DEF Reconcile, FindOverdue, Live
  <2>3. ASSUME NEW k \in Keys, NEW op \in Requests, NEW toPlan \in ToPlan(op),
               Request(w, k, op, toPlan)
        PROVE  \E s : Become(w, s) /\ (s.step \in Acting => Live(sub))
    <3>1. CASE Treated(op, sub, toPlan).proceeds
      <4>1. op \in {"upgrade", "downgrade"} => toPlan \in Plans
        BY DEF ToPlan
      <4>2. Live(sub)
        BY <1>0, <3>1, <4>1, TreatedFacts
      <4> QED BY <2>3, <3>1, <4>2 DEF Request
    <3>2. CASE ~ Treated(op, sub, toPlan).proceeds
      <4>1. UNCHANGED session /\ session[w].step = "idle"
        BY <2>3, <3>2 DEF Request, At
      <4>2. Become(w, session[w])
        BY <1>0, <4>1 DEF Become
      <4> QED BY <4>1, <4>2 DEF Acting
    <3> QED BY <3>1, <3>2
  <2>4. ASSUME NEW e \in EventIds, ProcessEvent(w, e)
        PROVE  \E s : Become(w, s) /\ (s.step \in Acting => Live(sub))
    <3>1. CASE IsNews(e)
      BY <2>4, <3>1 DEF ProcessEvent, IsNews, Live
    <3>2. CASE ~ IsNews(e)
      <4>1. UNCHANGED session /\ session[w].step = "idle"
        BY <2>4, <3>2 DEF ProcessEvent, At
      <4>2. Become(w, session[w])
        BY <1>0, <4>1 DEF Become
      <4> QED BY <4>1, <4>2 DEF Acting
    <3> QED BY <3>1, <3>2
  <2> QED BY <2>1, <2>2, <2>3, <2>4
<1>3. Alone(w) /\ session'[w] = s
  BY <1>1, <1>2, BecomeAlone
<1>4. (Live(sub) => Live(sub)') /\ (s.step \in Acting => Live(sub)')
  BY <1>1, <1>2 DEF Live
<1> QED BY <1>1, <1>3, <1>4, CreatingKept

LEMMA CreatingInv ==
  ASSUME Inv, Creating, [Next]_vars
  PROVE  Creating'
<1>0. RowStep
  BY NextInv
<1>1. ASSUME UNCHANGED <<session, granted, faults>>, sub'.status = sub.status
      PROVE  Creating'
  BY <1>1 DEF Creating, Until, Live
<1>2. CASE UNCHANGED vars
  BY <1>1, <1>2 DEF vars
<1>3. CASE World
  <2>1. sub'.status = sub.status
    BY <1>3 DEF World, ProviderRenews, PaymentFails, PaymentRecovers, ProviderCancels,
                ProviderReports, DeadlinePasses, Inv, Base, Row
  <2>2. UNCHANGED <<session, granted, faults>>
    BY <1>3 DEF World, ProviderRenews, PaymentFails, PaymentRecovers, ProviderCancels,
                ProviderReports, DeadlinePasses
  <2> QED BY <1>1, <2>1, <2>2
<1>4. ASSUME NEW w \in Workers, Crash(w)
      PROVE  Creating'
  <2>1. Alone(w) /\ session'[w] = Idle /\ UNCHANGED sub
    BY <1>4, BecomeAlone DEF Crash
  <2>2. faults' # 0
    BY <1>4 DEF Crash, Lose, Inv, Base
  <2>3. \A v \in Workers : session'[v].step \in Acting => Live(sub)'
    BY <2>1 DEF Creating, Alone, Acting, Live, Idle
  <2> QED BY <2>2, <2>3 DEF Creating
<1> QED BY <1>0, <1>2, <1>3, <1>4, ActingCreates, CreationCreates, OtherCreates DEF Next, Step

(* What every worker relies on holds in every reachable state.             *)
THEOREM InvHolds == Spec => []Inv
<1>1. Inv /\ [Next]_vars => Inv'
  BY NextInv
<1> QED BY <1>1, InitInv, PTL DEF Spec

(* Row, provider, events and what workers have read keep their types.      *)
THEOREM TypeCorrect == Spec => []TypeOK
<1>1. Inv => TypeOK
  BY DEF Inv, Base, Sessions, TypeOK, Provider
<1> QED BY <1>1, InvHolds, PTL

(* No plan is recorded, nor promised, that the provider has not accepted,  *)
(* whatever calls time out and whoever else writes the row.                *)
THEOREM PlansAccepted == Spec => []PlanWasAccepted
<1>1. Inv /\ [Next]_vars => Inv'
  BY NextInv
<1>2. Inv /\ Creating /\ [Next]_vars => Creating'
  BY CreatingInv
<1>3. Inv /\ Creating => PlanWasAccepted
  BY DEF Inv, Base, Creating, Until, PlanWasAccepted, CarriedThrough
<1> QED BY <1>1, <1>2, <1>3, InitInv, InitCreating, PTL DEF Spec

(* A key makes one call to the provider, for any number of retries.        *)
THEOREM KeysCallOnce == Spec => []KeyCallsOnce
<1>1. Inv => KeyCallsOnce
  BY DEF Inv, Base
<1> QED BY <1>1, InvHolds, PTL

(* Stale reads never make the row take a move the state machine forbids.   *)
THEOREM StateMachineFollowed == Spec => FollowsStateMachine
<1>1. Inv /\ [Next]_vars =>
        [sub'.status # sub.status =>
           \/ sub.status = "ABSENT" /\ sub'.status = "PENDING"
           \/ sub'.status \in SUBSCRIPTION_STATE_TRANSITIONS[sub.status]]_vars
  BY NextInv DEF RowStep
<1> QED BY <1>1, InvHolds, PTL DEF Spec, FollowsStateMachine

(* Periods run forward and never ahead of the provider, in whatever order  *)
(* ticks and late events arrive.                                           *)
THEOREM PeriodsConfirmed == Spec => PeriodIsConfirmed
<1>1. Inv /\ [Next]_vars => [sub'.period >= sub.period /\ sub'.period <= prov'.period]_vars
  BY NextInv DEF RowStep
<1> QED BY <1>1, InvHolds, PTL DEF Spec, PeriodIsConfirmed

=============================================================================
