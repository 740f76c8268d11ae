---------------------------- MODULE RefundsProofs ---------------------------
(***************************************************************************)
(* Theorems about Refunds, for any orders, provider refunds, handlers,     *)
(* captured amount and bounds.                                             *)
(***************************************************************************)
EXTENDS Refunds, FiniteSetTheorems, NaturalsInduction, WellFoundedInduction, TLAPS

(* Only createRefund calls the provider, and only about its own rows.      *)
CallsAreInApp ==
  \A w \in Workers : session[w].step \in {"call", "settle", "fail"} =>
    session[w].refund \in RefundIds /\ refund[session[w].refund].inApp

(* Rows that OrdersService made are not known to the provider.             *)
HandRows ==
  \A i \in RefundIds :
    /\ ~ refund[i].inApp => refund[i].rzp = None
    /\ refund[i].status = "ABSENT" => ~ refund[i].inApp

(* A cancellation under way is of an order.                                *)
CancelsOrder ==
  \A w \in Workers : session[w].step \in {"lookup", "cancel"} =>
    session[w].order \in Orders

Inv == /\ TypeOK /\ CallsAreInApp /\ CancelsOrder /\ HandRows
       /\ AppliedMeansSettled /\ CancelledIsOwed

-----------------------------------------------------------------------------
(* All that can happen to a row: it is inserted, it settles, or a row of   *)
(* createRefund learns its Razorpay id or fails.                           *)
Inserted(i) ==
  /\ refund[i].status = "ABSENT"
  /\ refund'[i].status = "PENDING" /\ refund'[i].rzp = None
  /\ \E w \in Workers : /\ IF refund'[i].inApp
                           THEN RefundInsert(w)
                           ELSE CancelCommit(w) /\ session[w].found
                        /\ refund'[i].order = session[w].order

Settled(i) ==
  /\ refund[i].status = "PENDING"
  /\ refund'[i].order = refund[i].order
  /\ refund'[i].amount = refund[i].amount
  /\ refund'[i].inApp = refund[i].inApp
  /\ refund'[i].status \in {"PENDING", "PROCESSED"} \/ refund[i].inApp
  /\ refund'[i].status # "ABSENT"
  /\ refund'[i].rzp = refund[i].rzp \/ refund[i].inApp

RowStep(i) == refund'[i] = refund[i] \/ Inserted(i) \/ Settled(i)

(* The refunds table is only ever changed that way.                        *)
LEMMA RowSteps ==
  ASSUME Inv, Next
  PROVE  \A i \in RefundIds : RowStep(i)
<1> SUFFICES ASSUME NEW i \in RefundIds PROVE RowStep(i)
  OBVIOUS
<1> USE DEF RowStep
<1>1. ASSUME NEW w \in Workers, RefundInsert(w) PROVE RowStep(i)
  <2>1. PICK j \in RefundIds :
          /\ Free(j)
          /\ refund' = [refund EXCEPT
                          ![j] = [status |-> "PENDING", order |-> session[w].order,
                                  amount |-> session[w].amount, rzp |-> None,
                                  inApp |-> TRUE]]
    BY <1>1 DEF RefundInsert
  <2>2. CASE i = j
    <3>1. /\ refund'[i].status = "PENDING" /\ refund'[i].rzp = None
          /\ refund'[i].order = session[w].order /\ refund'[i].inApp
      BY <2>1, <2>2 DEF Inv, TypeOK
    <3>2. refund[i].status = "ABSENT"
      BY <2>1, <2>2 DEF Free
    <3> QED BY <1>1, <3>1, <3>2 DEF Inserted
  <2>3. CASE i # j
    BY <2>1, <2>3 DEF Inv, TypeOK
  <2> QED BY <2>2, <2>3
<1>2. ASSUME NEW w \in Workers, SettleRefund(w) PROVE RowStep(i)
  BY <1>2 DEF Inv, TypeOK, RefundRows, CallsAreInApp, SettleRefund, Settled, At
<1>3. ASSUME NEW w \in Workers, MarkFailed(w) PROVE RowStep(i)
  BY <1>3 DEF Inv, TypeOK, RefundRows, CallsAreInApp, MarkFailed, MayFail,
              Settled, At
<1>4. ASSUME NEW w \in Workers, CancelCommit(w), session[w].found PROVE RowStep(i)
  <2>1. PICK j \in RefundIds : Free(j) /\ refund' = Owe(session[w].order, j)
    BY <1>4 DEF CancelCommit, NeedsRefund
  <2>2. CASE i = j
    <3>1. /\ refund'[i].status = "PENDING" /\ refund'[i].rzp = None
          /\ refund'[i].order = session[w].order /\ ~ refund'[i].inApp
      BY <2>1, <2>2 DEF Owe, Inv, TypeOK
    <3>2. refund[i].status = "ABSENT"
      BY <2>1, <2>2 DEF Free
    <3> QED BY <1>4, <3>1, <3>2 DEF Inserted
  <2>3. CASE i # j
    BY <2>1, <2>3 DEF Owe, Inv, TypeOK
  <2> QED BY <2>2, <2>3
<1>5. ASSUME NEW w \in Workers, RecordCommit(w) PROVE RowStep(i)
  BY <1>5 DEF Inv, TypeOK, RefundRows, RecordCommit, Settled
<1>6. ASSUME NEW e \in EventIds, ApplyRefundWebhook(e) PROVE RowStep(i)
  <2>1. e[2] \in ProviderRefunds
    BY DEF EventIds
  <2>2. PICK j \in WithRefund(e[2]) :
          refund' = IF refund[j].status = "PENDING"
                    THEN [refund EXCEPT ![j].status = Outcome(e[1])] ELSE refund
    BY <1>6 DEF ApplyRefundWebhook
  <2>3. j \in RefundIds /\ refund[j].inApp
    BY <2>1, <2>2, RefundConstants DEF WithRefund, Inv, HandRows
  <2> QED BY <2>2, <2>3 DEF Inv, TypeOK, RefundRows, Outcome, Settled
<1>7. CASE UNCHANGED refund
  BY <1>7
<1>8. ASSUME NEW w \in Workers, CancelCommit(w) PROVE RowStep(i)
  BY <1>4, <1>7, <1>8 DEF CancelCommit, NeedsRefund
<1> QED
  BY <1>1, <1>2, <1>3, <1>5, <1>6, <1>7, <1>8
  DEF Next, Handler, World, PaymentCaptured, RefundLock, CancelRead, CancelLookup, RecordRead, CallProvider,
      MissRefund, ReportMiss, Abandon, ReceiveRefundWebhook, AdminTransition,
      ProviderSettles, DashboardRefund

-----------------------------------------------------------------------------
(* The invariant holds before any refund is asked for.                     *)
LEMMA InitInv == Init => Inv
  BY DEF Init, Inv, TypeOK, OrderStatus, RefundRows, RefundStatus, NoRefund,
         ProviderRows, EventStatus, Sessions, Steps, Idle, CallsAreInApp,
         CancelsOrder, HandRows, AppliedMeansSettled, CancelledIsOwed

LEMMA UpdatedRow ==
  ASSUME NEW old \in RefundRows, NEW st \in RefundStatus,
         NEW rzp \in ProviderRefunds \cup {None}
  PROVE  [old EXCEPT !.status = st, !.rzp = rzp] \in RefundRows
  BY DEF RefundRows

(* A session that follows a typed one is typed.                            *)
LEMMA BecomeTyped ==
  ASSUME TypeOK, NEW w \in Workers, NEW s \in Sessions, Become(w, s)
  PROVE  session' \in [Workers -> Sessions]
  BY DEF TypeOK, Become

LEMMA IdleTyped == Idle \in Sessions
  BY DEF Idle, Sessions, Steps, OrderStatus

(* Handlers keep the tables and their sessions well typed.                 *)
LEMMA HandlerTypeOK ==
  ASSUME TypeOK, CancelsOrder, NEW w \in Workers, Handler(w)
  PROVE  TypeOK'
<1> DEFINE s == session[w]
<1>0. s \in Sessions
  BY DEF TypeOK
<1>1. ASSUME NEW o \in Orders, RefundLock(w, o) PROVE TypeOK'
  <2>1. PICK amount \in Amounts :
          Become(w, [Idle EXCEPT !.step = "insert", !.order = o, !.amount = amount])
    BY <1>1 DEF RefundLock
  <2>2. [Idle EXCEPT !.step = "insert", !.order = o, !.amount = amount] \in Sessions
    BY DEF Idle, Sessions, Steps, OrderStatus
  <2> QED BY <1>1, <2>1, <2>2, BecomeTyped DEF TypeOK, RefundLock
<1>2. ASSUME NEW o \in Orders, CancelRead(w, o) PROVE TypeOK'
  <2>1. [Idle EXCEPT !.step = "lookup", !.order = o, !.seen = status[o]] \in Sessions
    BY DEF TypeOK, Idle, Sessions, Steps
  <2> QED BY <1>2, <2>1, BecomeTyped DEF TypeOK, CancelRead
<1>3. ASSUME NEW o \in Orders, RecordRead(w, o) PROVE TypeOK'
  <2>1. [Idle EXCEPT !.step = "record", !.order = o, !.seen = status[o]] \in Sessions
    BY DEF TypeOK, Idle, Sessions, Steps
  <2> QED BY <1>3, <2>1, BecomeTyped DEF TypeOK, RecordRead
<1>4. CASE RefundInsert(w)
  <2>1. PICK i \in RefundIds :
          /\ refund' = [refund EXCEPT
                          ![i] = [status |-> "PENDING", order |-> s.order,
                                  amount |-> s.amount, rzp |-> None,
                                  inApp |-> TRUE]]
          /\ Become(w, [s EXCEPT !.step = "call", !.refund = i])
    BY <1>4 DEF RefundInsert
  <2>2. [s EXCEPT !.step = "call", !.refund = i] \in Sessions
    BY <1>0 DEF Sessions, Steps
  <2>3. [status |-> "PENDING", order |-> s.order, amount |-> s.amount,
         rzp |-> None, inApp |-> TRUE] \in RefundRows
    BY <1>0 DEF Sessions, RefundRows, RefundStatus
  <2>4. session' \in [Workers -> Sessions]
    BY <2>1, <2>2, BecomeTyped
  <2> QED BY <1>4, <2>1, <2>3, <2>4 DEF TypeOK, RefundInsert
<1>5. CASE CallProvider(w)
  <2>0. \A step \in Steps : [s EXCEPT !.step = step] \in Sessions
    BY <1>0 DEF Sessions
  <2>1. \A step \in Steps, r \in ProviderRefunds,
           state \in {"pending", "processed", "failed"} :
          /\ [s EXCEPT !.step = step, !.rzp = r, !.type = state] \in Sessions
          /\ [state |-> state, order |-> s.order, amount |-> s.amount,
              row |-> s.refund] \in ProviderRows
    BY <1>0 DEF Sessions, ProviderRows
  <2>2. session' \in [Workers -> Sessions]
    <3>1. CASE Become(w, [s EXCEPT !.step = "fail"])
      BY <2>0, <3>1, BecomeTyped DEF Steps
    <3>2. ASSUME NEW r \in ProviderRefunds,
                 NEW state \in {"pending", "processed", "failed"},
                 Become(w, [s EXCEPT
                   !.step = IF state = "failed" THEN "fail" ELSE "settle",
                   !.rzp = r, !.type = state])
          PROVE  session' \in [Workers -> Sessions]
      <4>1. (IF state = "failed" THEN "fail" ELSE "settle") \in Steps
        BY DEF Steps
      <4> QED BY <2>1, <3>2, <4>1, BecomeTyped
    <3> QED BY <1>5, <3>1, <3>2 DEF CallProvider
  <2>3. provider' \in [ProviderRefunds -> ProviderRows]
    BY <1>5, <2>1 DEF CallProvider, TypeOK, Steps
  <2> QED BY <1>5, <2>2, <2>3 DEF TypeOK, CallProvider
<1>6. CASE SettleRefund(w)
  <2> DEFINE i == s.refund
             st == IF s.type = "processed" THEN "PROCESSED" ELSE "PENDING"
             new == [refund[i] EXCEPT !.status = st, !.rzp = s.rzp]
  <2>1. refund' = refund \/ (i \in RefundIds /\ refund' = [refund EXCEPT ![i] = new])
    BY <1>6 DEF SettleRefund, TypeOK, RefundRows
  <2>2. i \in RefundIds => new \in RefundRows
    <3>1. st \in RefundStatus /\ s.rzp \in ProviderRefunds \cup {None}
      BY <1>0 DEF RefundStatus, Sessions
    <3>2. i \in RefundIds => refund[i] \in RefundRows
      BY DEF TypeOK
    <3> HIDE DEF i, st
    <3> QED BY <3>1, <3>2, UpdatedRow
  <2>3. refund' \in [RefundIds -> RefundRows]
    <3> HIDE DEF new, i
    <3> QED BY <2>1, <2>2 DEF TypeOK
  <2> QED BY <1>6, <2>3, IdleTyped, BecomeTyped DEF TypeOK, SettleRefund, Finish
<1>7. CASE MarkFailed(w)
  <2> DEFINE i == s.refund
             st == "FAILED"
             new == [refund[i] EXCEPT !.status = st, !.rzp = s.rzp]
  <2>1. refund' = refund \/ (i \in RefundIds /\ refund' = [refund EXCEPT ![i] = new])
    BY <1>7 DEF MarkFailed, TypeOK, RefundRows
  <2>2. i \in RefundIds => new \in RefundRows
    <3>1. st \in RefundStatus /\ s.rzp \in ProviderRefunds \cup {None}
      BY <1>0 DEF RefundStatus, Sessions
    <3>2. i \in RefundIds => refund[i] \in RefundRows
      BY DEF TypeOK
    <3> HIDE DEF i, st
    <3> QED BY <3>1, <3>2, UpdatedRow
  <2>3. refund' \in [RefundIds -> RefundRows]
    <3> HIDE DEF new, i
    <3> QED BY <2>1, <2>2 DEF TypeOK
  <2> QED BY <1>7, <2>3, IdleTyped, BecomeTyped DEF TypeOK, MarkFailed, Finish
<1>8. ASSUME NEW e \in EventIds, MissRefund(w, e) PROVE TypeOK'
  <2>1. [Idle EXCEPT !.step = "report", !.type = e[1], !.rzp = e[2],
                     !.tries = event[e].attempts] \in Sessions
    BY DEF TypeOK, EventIds, Idle, Sessions, Steps, OrderStatus
  <2> QED BY <1>8, <2>1, BecomeTyped DEF TypeOK, MissRefund
<1>9. CASE ReportMiss(w)
  <2>1. Unresolved(s.tries) \in [status : EventStatus, attempts : Nat]
    BY <1>0 DEF Unresolved, EventStatus, Sessions
  <2>2. event' \in [EventIds -> [status : EventStatus, attempts : Nat]]
    BY <1>9, <2>1 DEF ReportMiss, TypeOK
  <2> QED BY <1>9, <2>2, IdleTyped, BecomeTyped DEF TypeOK, ReportMiss, Finish
<1>10. CASE CancelCommit(w)
  <2>1. [status |-> "PENDING", order |-> s.order, amount |-> CapturedAmount,
         rzp |-> None, inApp |-> FALSE] \in RefundRows
    BY <1>0, RefundConstants DEF Sessions, RefundRows, RefundStatus, Amounts
  <2>2. refund' \in [RefundIds -> RefundRows]
    BY <1>10, <2>1 DEF CancelCommit, NeedsRefund, Owe, TypeOK
  <2>3. status' \in [Orders -> OrderStatus]
    BY <1>10 DEF CancelCommit, CasTo, CasSucceeds, TypeOK, OrderStatus
  <2>4. missed' \subseteq Orders
    BY <1>10 DEF CancelCommit, At, CancelsOrder, TypeOK, CasSucceeds
  <2> QED
    BY <1>10, <2>2, <2>3, <2>4, IdleTyped, BecomeTyped DEF TypeOK, CancelCommit, Finish
<1>11. CASE RecordCommit(w)
  <2>1. \A i \in RefundIds : [refund[i] EXCEPT !.status = "PROCESSED"] \in RefundRows
    BY DEF TypeOK, RefundRows, RefundStatus
  <2>2. refund' \in [RefundIds -> RefundRows]
    BY <1>11, <2>1 DEF RecordCommit, TypeOK
  <2>3. status' \in [Orders -> OrderStatus]
    BY <1>11 DEF RecordCommit, CasTo, CasSucceeds, TypeOK, OrderStatus
  <2> QED
    BY <1>11, <2>2, <2>3, IdleTyped, BecomeTyped DEF TypeOK, RecordCommit, Finish
<1>12. CASE Abandon(w)
  BY <1>12, IdleTyped, BecomeTyped DEF TypeOK, Abandon, Finish
<1>13. CASE CancelLookup(w)
  <2>1. \A b \in BOOLEAN : [s EXCEPT !.step = "cancel", !.found = b] \in Sessions
    BY <1>0 DEF Sessions, Steps
  <2>2. (s.order \in captured) \in BOOLEAN
    OBVIOUS
  <2> QED BY <1>13, <2>1, <2>2, BecomeTyped DEF TypeOK, CancelLookup
<1> QED
  BY <1>1, <1>2, <1>3, <1>4, <1>5, <1>6, <1>7, <1>8, <1>9, <1>10, <1>11, <1>12,
     <1>13
  DEF Handler

(* So do webhooks, the staff and the provider.                             *)
LEMMA WorldTypeOK ==
  ASSUME TypeOK, World
  PROVE  TypeOK'
<1>1. ASSUME NEW e \in EventIds, ApplyRefundWebhook(e) PROVE TypeOK'
  <2>1. PICK i \in RefundIds :
          refund' = IF refund[i].status = "PENDING"
                    THEN [refund EXCEPT ![i].status = Outcome(e[1])] ELSE refund
    BY <1>1 DEF ApplyRefundWebhook, WithRefund
  <2>2. [refund[i] EXCEPT !.status = Outcome(e[1])] \in RefundRows
    BY DEF TypeOK, RefundRows, RefundStatus, Outcome
  <2>3. refund' \in [RefundIds -> RefundRows]
    BY <2>1, <2>2 DEF TypeOK
  <2>4. [event[e] EXCEPT !.status = "PROCESSED"]
          \in [status : EventStatus, attempts : Nat]
    BY DEF TypeOK, EventStatus
  <2>5. event' \in [EventIds -> [status : EventStatus, attempts : Nat]]
    BY <1>1, <2>4 DEF ApplyRefundWebhook, TypeOK
  <2> QED BY <1>1, <2>3, <2>5 DEF TypeOK, ApplyRefundWebhook
<1>2. ASSUME NEW e \in EventIds, ReceiveRefundWebhook(e) PROVE TypeOK'
  <2>1. [event[e] EXCEPT !.status = "RECEIVED"]
          \in [status : EventStatus, attempts : Nat]
    BY DEF TypeOK, EventStatus
  <2> QED BY <1>2, <2>1 DEF TypeOK, ReceiveRefundWebhook
<1>3. ASSUME NEW o \in Orders, NEW to \in AdminTargets, AdminTransition(o, to)
      PROVE  TypeOK'
  BY <1>3, RefundConstants DEF TypeOK, AdminTransition
<1>4. ASSUME NEW r \in ProviderRefunds, ProviderSettles(r) PROVE TypeOK'
  <2>1. \A state \in {"processed", "failed"} :
          [provider[r] EXCEPT !.state = state] \in ProviderRows
    BY DEF TypeOK, ProviderRows
  <2> QED BY <1>4, <2>1 DEF TypeOK, ProviderSettles
<1>5. ASSUME NEW r \in ProviderRefunds, NEW o \in Orders, DashboardRefund(r, o)
      PROVE  TypeOK'
  <2>1. \A amount \in Amounts :
          [state |-> "processed", order |-> o, amount |-> amount, row |-> None]
            \in ProviderRows
    BY DEF ProviderRows
  <2> QED BY <1>5, <2>1 DEF TypeOK, DashboardRefund
<1>6. ASSUME NEW o \in Orders, PaymentCaptured(o) PROVE TypeOK'
  BY <1>6 DEF TypeOK, PaymentCaptured
<1> QED BY <1>1, <1>2, <1>3, <1>4, <1>5, <1>6 DEF World

(* The steps that rely on what was read before them.                       *)
Remembering == {"insert", "lookup", "cancel", "record"}

(* A handler's step is not felt by the sessions of the others.             *)
LEMMA OthersWait ==
  ASSUME TypeOK, NEW v \in Workers, Handler(v), NEW w \in Workers, v # w
  PROVE  session'[w] = session[w]
BY DEF Handler, TypeOK, RefundLock, CancelRead, RecordRead, RefundInsert,
   CallProvider, SettleRefund, MarkFailed, MissRefund, ReportMiss,
   CancelLookup, CancelCommit, RecordCommit, Abandon, Finish, Become

(* A handler begins by reading what it will remember, and forgets it when  *)
(* it has used it.                                                         *)
LEMMA OwnStep ==
  ASSUME Inv, NEW w \in Workers, Handler(w)
  PROVE  \/ session'[w].step \notin Remembering
         \/ CancelLookup(w)
         \/ \E o \in Orders : \/ RefundLock(w, o)
                              \/ CancelRead(w, o)
                              \/ RecordRead(w, o)
<1>0. \A s : Become(w, s) => session'[w] = s
  BY DEF Become, Inv, TypeOK
<1>1. session[w] \in Sessions
  BY DEF Inv, TypeOK
<1>2. CASE RefundInsert(w)
  BY <1>0, <1>1, <1>2 DEF RefundInsert, Sessions, Remembering
<1>3. CASE CallProvider(w)
  <2>1. CASE Become(w, [session[w] EXCEPT !.step = "fail"])
    <3>1. [session[w] EXCEPT !.step = "fail"].step = "fail"
      BY <1>1 DEF Sessions
    <3> QED BY <1>0, <2>1, <3>1 DEF Remembering
  <2>2. ASSUME NEW r \in ProviderRefunds,
               NEW type \in {"pending", "processed", "failed"},
               Become(w, [session[w] EXCEPT
                 !.step = IF type = "failed" THEN "fail" ELSE "settle",
                 !.rzp = r, !.type = type])
        PROVE  session'[w].step \notin Remembering
    <3> DEFINE step == IF type = "failed" THEN "fail" ELSE "settle"
               u == [session[w] EXCEPT !.step = step, !.rzp = r, !.type = type]
    <3>1. step \notin Remembering
      BY DEF Remembering
    <3>2. u.step = step
      <4> HIDE DEF step
      <4> QED BY <1>1 DEF Sessions
    <3> QED BY <1>0, <2>2, <3>1, <3>2
  <2> QED BY <1>3, <2>1, <2>2 DEF CallProvider
<1>4. ASSUME NEW e \in EventIds, MissRefund(w, e)
      PROVE  session'[w].step \notin Remembering
  BY <1>0, <1>4 DEF MissRefund, Idle, Remembering
<1>5. Finish(w) => session'[w].step \notin Remembering
  BY <1>0 DEF Finish, Idle, Remembering
<1> QED
  BY <1>2, <1>3, <1>4, <1>5
  DEF Handler, SettleRefund, MarkFailed, ReportMiss, CancelCommit, RecordCommit,
      Abandon

(* What a handler remembers is what it has read itself.                    *)
LEMMA OnlyReads ==
  ASSUME Inv, Next, NEW w \in Workers,
         session'[w].step \in Remembering
  PROVE  \/ session'[w] = session[w]
         \/ CancelLookup(w)
         \/ \E o \in Orders : \/ RefundLock(w, o)
                              \/ CancelRead(w, o)
                              \/ RecordRead(w, o)
<1>1. ASSUME NEW v \in Workers, Handler(v), v # w
      PROVE  session'[w] = session[w]
  BY <1>1, OthersWait DEF Inv
<1>2. CASE World
  BY <1>2 DEF World, PaymentCaptured, ApplyRefundWebhook, ReceiveRefundWebhook,
              AdminTransition, ProviderSettles, DashboardRefund
<1> QED BY <1>1, <1>2, OwnStep DEF Next

(* A handler goes on to the provider with the row it has inserted.         *)
LEMMA CallsStep ==
  ASSUME Inv, Next
  PROVE  CallsAreInApp'
<1> DEFINE Calling(s) == s.step \in {"call", "settle", "fail"}
           OnOwnRow(s) == s.refund \in RefundIds /\ refund'[s.refund].inApp
<1>1. \A i \in RefundIds : refund[i].inApp => refund'[i].inApp
  BY RowSteps DEF RowStep, Inserted, Settled, Inv, HandRows
<1>2. \A v \in Workers : Calling(session[v]) => OnOwnRow(session[v])
  BY <1>1 DEF Inv, CallsAreInApp
<1>3. ASSUME NEW w \in Workers, Handler(w)
      PROVE  \E s \in Sessions : Become(w, s) /\ (Calling(s) => OnOwnRow(s))
  <2> DEFINE s == session[w]
  <2>0. s \in Sessions
    BY DEF Inv, TypeOK
  <2>1. ASSUME NEW o \in Orders, RefundLock(w, o) \/ CancelRead(w, o) \/ RecordRead(w, o)
        PROVE  \E u \in Sessions : Become(w, u) /\ ~ Calling(u)
    <3>1. ASSUME NEW amount \in Amounts
          PROVE  LET u == [Idle EXCEPT !.step = "insert", !.order = o,
                                       !.amount = amount]
                 IN u \in Sessions /\ ~ Calling(u)
      BY DEF Idle, Sessions, Steps, OrderStatus
    <3>2. ASSUME NEW step \in {"lookup", "record"}
          PROVE  LET u == [Idle EXCEPT !.step = step, !.order = o,
                                       !.seen = status[o]]
                 IN u \in Sessions /\ ~ Calling(u)
      BY DEF Inv, TypeOK, Idle, Sessions, Steps
    <3>3. CASE RefundLock(w, o)
      BY <3>1, <3>3 DEF RefundLock
    <3>4. CASE CancelRead(w, o) \/ RecordRead(w, o)
      BY <3>2, <3>4 DEF CancelRead, RecordRead
    <3> QED BY <2>1, <3>3, <3>4
  <2>2. ASSUME NEW e \in EventIds, MissRefund(w, e)
        PROVE  \E u \in Sessions : Become(w, u) /\ ~ Calling(u)
    <3> DEFINE u == [Idle EXCEPT !.step = "report", !.type = e[1], !.rzp = e[2],
                                 !.tries = event[e].attempts]
    <3>1. u \in Sessions
      BY DEF Inv, TypeOK, EventIds, Idle, Sessions, Steps, OrderStatus
    <3>2. ~ Calling(u)
      BY DEF Idle
    <3> QED BY <2>2, <3>1, <3>2 DEF MissRefund
  <2>3. Idle \in Sessions /\ ~ Calling(Idle)
    BY IdleTyped DEF Idle
  <2>4. CASE RefundInsert(w)
    <3>1. PICK i \in RefundIds :
            /\ refund' = [refund EXCEPT
                            ![i] = [status |-> "PENDING", order |-> s.order,
                                    amount |-> s.amount, rzp |-> None,
                                    inApp |-> TRUE]]
            /\ Become(w, [s EXCEPT !.step = "call", !.refund = i])
      BY <2>4 DEF RefundInsert
    <3>2. [s EXCEPT !.step = "call", !.refund = i] \in Sessions
      BY <2>0 DEF Sessions, Steps
    <3>3. [s EXCEPT !.step = "call", !.refund = i].refund = i
      BY <2>0 DEF Sessions
    <3>4. refund'[i].inApp
      BY <3>1 DEF Inv, TypeOK
    <3> QED BY <3>1, <3>2, <3>3, <3>4
  <2>5. CASE CallProvider(w)
    <3>1. OnOwnRow(s)
      BY <1>2, <2>5 DEF CallProvider, At
    <3>2. CASE Become(w, [s EXCEPT !.step = "fail"])
      <4>1. /\ [s EXCEPT !.step = "fail"] \in Sessions
            /\ [s EXCEPT !.step = "fail"].refund = s.refund
        BY <2>0 DEF Sessions, Steps
      <4> QED BY <3>1, <3>2, <4>1
    <3>3. ASSUME NEW r \in ProviderRefunds,
                 NEW type \in {"pending", "processed", "failed"},
                 Become(w, [s EXCEPT
                   !.step = IF type = "failed" THEN "fail" ELSE "settle",
                   !.rzp = r, !.type = type])
          PROVE  \E u \in Sessions : Become(w, u) /\ OnOwnRow(u)
      <4> DEFINE step == IF type = "failed" THEN "fail" ELSE "settle"
                 u == [s EXCEPT !.step = step, !.rzp = r, !.type = type]
      <4>1. step \in Steps
        BY DEF Steps
      <4>2. u \in Sessions /\ u.refund = s.refund
        <5> HIDE DEF step
        <5> QED BY <2>0, <4>1 DEF Sessions
      <4> QED BY <3>1, <3>3, <4>2
    <3> QED BY <2>5, <3>2, <3>3 DEF CallProvider
  <2>6. CASE \/ SettleRefund(w) \/ MarkFailed(w) \/ ReportMiss(w)
             \/ CancelCommit(w) \/ RecordCommit(w) \/ Abandon(w)
    BY <2>3, <2>6 DEF SettleRefund, MarkFailed, ReportMiss, CancelCommit,
                      RecordCommit, Abandon, Finish
  <2>7. CASE CancelLookup(w)
    <3> DEFINE u == [s EXCEPT !.step = "cancel", !.found = s.order \in captured]
    <3>1. \A b \in BOOLEAN : LET x == [s EXCEPT !.step = "cancel", !.found = b]
                            IN x \in Sessions /\ x.step = "cancel"
      BY <2>0 DEF Sessions, Steps
    <3>2. (s.order \in captured) \in BOOLEAN
      OBVIOUS
    <3>3. u \in Sessions /\ u.step = "cancel"
      BY <3>1, <3>2
    <3> HIDE DEF u
    <3> QED BY <2>7, <3>3 DEF CancelLookup, u
  <2> QED
    BY <1>3, <2>1, <2>2, <2>4, <2>5, <2>6, <2>7 DEF Handler
<1>4. CASE \E w \in Workers : Handler(w)
  <2>1. PICK w \in Workers : Handler(w)
    BY <1>4
  <2>2. PICK s \in Sessions : Become(w, s) /\ (Calling(s) => OnOwnRow(s))
    BY <1>3, <2>1
  <2>3. session'[w] = s /\ \A v \in Workers : v # w => session'[v] = session[v]
    BY <2>2 DEF Become, Inv, TypeOK
  <2> QED BY <1>2, <2>2, <2>3 DEF CallsAreInApp
<1>5. CASE World
  <2>1. session' = session
    BY <1>5 DEF World, PaymentCaptured, ApplyRefundWebhook, ReceiveRefundWebhook, AdminTransition,
                ProviderSettles, DashboardRefund
  <2> QED BY <1>2, <2>1 DEF CallsAreInApp
<1> QED BY <1>4, <1>5 DEF Next

(* A cancellation goes on with the order it began with.                    *)
LEMMA CancelsStep ==
  ASSUME Inv, Next
  PROVE  CancelsOrder'
<1> SUFFICES ASSUME NEW w \in Workers, session'[w].step \in {"lookup", "cancel"}
             PROVE  session'[w].order \in Orders
  BY DEF CancelsOrder
<1>0. \A u : Become(w, u) => session'[w] = u
  BY DEF Become, Inv, TypeOK
<1>1. CASE session'[w] = session[w]
  BY <1>1 DEF Inv, CancelsOrder
<1>2. CASE CancelLookup(w)
  <2>1. session[w].order \in Orders /\ session[w] \in Sessions
    BY <1>2 DEF CancelLookup, At, Inv, CancelsOrder, TypeOK
  <2> QED BY <1>0, <1>2, <2>1 DEF CancelLookup, Sessions
<1>3. ASSUME NEW o \in Orders, CancelRead(w, o) PROVE session'[w].order \in Orders
  BY <1>0, <1>3 DEF CancelRead, Idle
<1>4. ASSUME NEW o \in Orders, RefundLock(w, o) \/ RecordRead(w, o) PROVE FALSE
  BY <1>0, <1>4 DEF RefundLock, RecordRead, Idle
<1> QED BY <1>1, <1>2, <1>3, <1>4, OnlyReads DEF Remembering

(* Every step of the specification keeps the invariant.                    *)
LEMMA StepInv == Inv /\ [Next]_vars => Inv'
<1> SUFFICES ASSUME Inv, [Next]_vars PROVE Inv'
  OBVIOUS
<1>1. CASE UNCHANGED vars
  BY <1>1 DEF vars, Inv, TypeOK, CallsAreInApp, CancelsOrder, HandRows, AppliedMeansSettled,
              CancelledIsOwed, WithRefund, Reserving
<1>2. CASE Next
  <2>0. \A i \in RefundIds : RowStep(i)
    BY <1>2, RowSteps
  <2>1. TypeOK'
    BY <1>2, HandlerTypeOK, WorldTypeOK DEF Inv, Next
  <2>2. CallsAreInApp'
    BY <1>2, CallsStep
  <2>3. HandRows'
    BY <2>0 DEF Inv, TypeOK, RefundRows, HandRows, RowStep, Inserted, Settled
  <2>4. AppliedMeansSettled'
    <3> SUFFICES ASSUME NEW e \in EventIds,
                        event'[e].status \in {"PROCESSED", "IGNORED"}
                 PROVE  \E i \in WithRefund(e[2])' :
                          refund'[i].status \in {"PROCESSED", "FAILED"}
      BY DEF AppliedMeansSettled
    <3>1. CASE event[e].status \in {"PROCESSED", "IGNORED"}
      BY <2>0, <3>1 DEF Inv, AppliedMeansSettled, WithRefund, RowStep, Inserted,
                        Settled
    <3>2. CASE ApplyRefundWebhook(e)
      <4>1. PICK i \in WithRefund(e[2]) :
              refund' = IF refund[i].status = "PENDING"
                        THEN [refund EXCEPT ![i].status = Outcome(e[1])] ELSE refund
        BY <3>2 DEF ApplyRefundWebhook
      <4>2. i \in RefundIds /\ refund[i] \in RefundRows /\ refund[i].rzp = e[2]
        BY DEF WithRefund, Inv, TypeOK
      <4>3. refund[i].status # "ABSENT"
        BY <4>2, RefundConstants DEF Inv, HandRows, EventIds
      <4>4. refund'[i].status \in {"PROCESSED", "FAILED"} /\ refund'[i].rzp = e[2]
        BY <4>1, <4>2, <4>3 DEF Inv, TypeOK, RefundRows, RefundStatus, Outcome
      <4> QED BY <4>2, <4>4 DEF WithRefund
    <3>3. ASSUME NEW w \in Workers, Handler(w)
          PROVE  event[e].status \in {"PROCESSED", "IGNORED"}
      <4>1. CASE ReportMiss(w)
        BY <4>1 DEF ReportMiss, Unresolved, Inv, TypeOK
      <4>2. CASE event' = event
        BY <4>2
      <4> QED
        BY <3>3, <4>1, <4>2 DEF Handler, RefundLock, CancelRead, CancelLookup,
           RecordRead, RefundInsert, CallProvider, SettleRefund, MarkFailed, MissRefund,
           CancelCommit, RecordCommit, Abandon
    <3>4. CASE World /\ ~ ApplyRefundWebhook(e)
      <4>1. ASSUME NEW f \in EventIds, f # e, ApplyRefundWebhook(f)
            PROVE  event'[e] = event[e]
        BY <4>1 DEF ApplyRefundWebhook, Inv, TypeOK
      <4>2. ASSUME NEW f \in EventIds, ReceiveRefundWebhook(f)
            PROVE  event[e].status \in {"PROCESSED", "IGNORED"}
        BY <4>2 DEF ReceiveRefundWebhook, Inv, TypeOK
      <4> QED
        BY <3>1, <3>4, <4>1, <4>2
        DEF World, AdminTransition, PaymentCaptured, ProviderSettles, DashboardRefund
    <3> QED BY <1>2, <3>1, <3>2, <3>3, <3>4 DEF Next
  <2>5. CancelledIsOwed'
    <3> SUFFICES ASSUME NEW o \in Orders, status'[o] = "CANCELLED",
                        o \notin missed'
                 PROVE  \E i \in Reserving(o)' :
                          ~ refund'[i].inApp /\ refund'[i].amount = CapturedAmount
      BY DEF CancelledIsOwed
    <3>0. o \notin missed
      BY <1>2 DEF Next, World, Handler, RefundLock, CancelRead, CancelLookup,
         RecordRead, RefundInsert, CallProvider, SettleRefund, MarkFailed,
         MissRefund, ReportMiss, Abandon, ApplyRefundWebhook, CancelCommit,
         RecordCommit, ReceiveRefundWebhook, AdminTransition, PaymentCaptured,
         ProviderSettles, DashboardRefund
    <3>1. CASE status[o] = "CANCELLED"
      BY <2>0, <3>0, <3>1 DEF Inv, CancelledIsOwed, Reserving, RESERVING_STATUSES,
                        RowStep, Inserted, Settled
    <3>2. ASSUME NEW w \in Workers, CancelCommit(w), session[w].order = o,
                 session[w].found
          PROVE  \E i \in Reserving(o)' :
                   ~ refund'[i].inApp /\ refund'[i].amount = CapturedAmount
      BY <3>2 DEF CancelCommit, NeedsRefund, Owe, Reserving, RESERVING_STATUSES,
                  Inv, TypeOK
    <3>4. ASSUME NEW w \in Workers, CancelCommit(w), session[w].order = o,
                 ~ session[w].found
          PROVE  status[o] = "CANCELLED"
      BY <3>4 DEF CancelCommit, CasTo, CasSucceeds, Inv, TypeOK
    <3>3. status[o] = "CANCELLED"
          \/ \E w \in Workers : CancelCommit(w) /\ session[w].order = o
      <4>1. ASSUME NEW p \in Orders, NEW to \in AdminTargets, AdminTransition(p, to)
            PROVE  status[o] = "CANCELLED"
        BY <4>1, RefundConstants DEF AdminTransition, Inv, TypeOK
      <4>2. ASSUME NEW w \in Workers, RecordCommit(w)
            PROVE  status[o] = "CANCELLED"
        BY <4>2 DEF RecordCommit, CasTo, CasSucceeds, Inv, TypeOK
      <4>3. ASSUME NEW w \in Workers, CancelCommit(w), session[w].order # o
            PROVE  status[o] = "CANCELLED"
        BY <4>3 DEF CancelCommit, CasTo, CasSucceeds, Inv, TypeOK
      <4>4. CASE UNCHANGED status
        BY <4>4
      <4>5. \/ \E p \in Orders, to \in AdminTargets : AdminTransition(p, to)
            \/ \E w \in Workers : RecordCommit(w) \/ CancelCommit(w)
            \/ UNCHANGED status
        BY <1>2 DEF Next, World, Handler, RefundLock, CancelRead, CancelLookup,
           RecordRead, RefundInsert, CallProvider, SettleRefund, MarkFailed,
           MissRefund, ReportMiss, Abandon, PaymentCaptured, ApplyRefundWebhook, ReceiveRefundWebhook,
           ProviderSettles, DashboardRefund
      <4> QED BY <4>1, <4>2, <4>3, <4>4, <4>5
    <3> QED BY <3>1, <3>2, <3>3, <3>4
  <2>6. CancelsOrder'
    BY <1>2, CancelsStep
  <2> QED BY <2>1, <2>2, <2>3, <2>4, <2>5, <2>6 DEF Inv
<1> QED BY <1>1, <1>2

-----------------------------------------------------------------------------
(* Of finite sets there is one that no other is smaller than.              *)
LEMMA SmallestMember ==
  ASSUME NEW C, C # {}, \A T \in C : IsFiniteSet(T)
  PROVE  \E T \in C : \A V \in C : ~ (Cardinality(V) < Cardinality(T))
<1> DEFINE Sizes == { Cardinality(T) : T \in C }
           Less == OpToRel(<, Nat)
<1>1. Sizes \subseteq Nat /\ Sizes # {}
  BY FS_CardinalityType
<1>2. PICK n \in Sizes : \A m \in Sizes : <<m, n>> \notin Less
  <2>1. IsWellFoundedOn(Less, Nat)
    BY NatLessThanWellFounded
  <2> HIDE DEF Sizes, Less
  <2> QED BY <1>1, <2>1, WFMin
<1>3. \A m \in Sizes : ~ (m < n)
  BY <1>1, <1>2 DEF OpToRel
<1> QED BY <1>2, <1>3

(* Taking a member away leaves fewer.                                      *)
LEMMA OneFewer ==
  ASSUME NEW T, IsFiniteSet(T), NEW x \in T
  PROVE  Cardinality(T \ {x}) < Cardinality(T)
<1>1. Cardinality(T \ {x}) = Cardinality(T) - 1
  BY FS_RemoveElement
<1> QED BY <1>1, FS_CardinalityType

(* The sum of the rows' amounts, one by one: a unit of row i is <<i, k>>.  *)
SumOf(rows, S) == MapThenSumSet(LAMBDA i : rows[i].amount, S)

Units(rows, S) == { p \in S \X Nat : p[2] < rows[p[1]].amount }

Counted(rows, S) == IsFiniteSet(S) /\ \A i \in S : rows[i].amount \in Nat

(* A row that joins brings the units of its amount.                        *)
LEMMA OneMoreUnits ==
  ASSUME NEW rows, NEW T, NEW x, x \notin T, rows[x].amount \in Nat,
         IsFiniteSet(Units(rows, T))
  PROVE  /\ IsFiniteSet(Units(rows, T \cup {x}))
         /\ Cardinality(Units(rows, T \cup {x}))
              = rows[x].amount + Cardinality(Units(rows, T))
<1> DEFINE Own == {x} \X (0 .. rows[x].amount - 1)
           old == Units(rows, T)
<1>1. Units(rows, T \cup {x}) = old \cup Own
  BY DEF Units
<1>2. old \cap Own = {}
  BY DEF Units
<1>3. IsFiniteSet(Own) /\ Cardinality(Own) = rows[x].amount
  <2>1. IsFiniteSet({x}) /\ Cardinality({x}) = 1
    BY FS_Singleton
  <2>2. /\ IsFiniteSet(0 .. rows[x].amount - 1)
        /\ Cardinality(0 .. rows[x].amount - 1) = rows[x].amount
    <3> DEFINE n == rows[x].amount
    <3>1. n \in Nat
      OBVIOUS
    <3> HIDE DEF n
    <3>2. n - 1 \in Int
      BY <3>1
    <3>3. /\ IsFiniteSet(0 .. n - 1)
          /\ Cardinality(0 .. n - 1) = IF 0 > n - 1 THEN 0 ELSE n - 1 - 0 + 1
      BY ONLY <3>2, FS_Interval
    <3>4. n = IF 0 > n - 1 THEN 0 ELSE n - 1 - 0 + 1
      BY <3>1
    <3> QED BY <3>3, <3>4 DEF n
  <2>3. IsFiniteSet(Own) /\ Cardinality(Own) = 1 * rows[x].amount
    <3> DEFINE A == {x}
               B == 0 .. rows[x].amount - 1
    <3>1. /\ IsFiniteSet(A) /\ Cardinality(A) = 1
          /\ IsFiniteSet(B) /\ Cardinality(B) = rows[x].amount
      BY <2>1, <2>2
    <3> HIDE DEF A, B
    <3>2. IsFiniteSet(A \X B) /\ Cardinality(A \X B) = Cardinality(A) * Cardinality(B)
      BY ONLY <3>1, FS_Product
    <3> QED BY <3>1, <3>2 DEF A, B
  <2> QED BY <2>3
<1>4. Cardinality(old) \in Nat /\ Cardinality({}) = 0
  BY FS_CardinalityType, FS_EmptySet
<1> HIDE DEF Own, old
<1>5. /\ IsFiniteSet(old \cup Own)
      /\ Cardinality(old \cup Own) = Cardinality(old) + Cardinality(Own) - Cardinality({})
  <2>1. IsFiniteSet(old)
    BY DEF old
  <2> QED BY <1>2, <1>3, <2>1, FS_Union
<1>6. Cardinality(old \cup Own) = rows[x].amount + Cardinality(old)
  BY <1>3, <1>4, <1>5
<1> QED BY <1>1, <1>5, <1>6 DEF old

(* Finitely many rows have finitely many units.                            *)
LEMMA UnitsFinite ==
  ASSUME NEW rows, NEW S, Counted(rows, S)
  PROVE  IsFiniteSet(Units(rows, S))
<1> DEFINE Bad == { T \in SUBSET S : ~ IsFiniteSet(Units(rows, T)) }
<1>1. \A T \in SUBSET S : IsFiniteSet(T)
  BY FS_Subset DEF Counted
<1>2. CASE Bad # {}
  <2>1. PICK T \in Bad : \A V \in Bad : ~ (Cardinality(V) < Cardinality(T))
    BY <1>1, <1>2, SmallestMember
  <2>2. T # {}
    <3>1. Units(rows, {}) = {}
      BY DEF Units
    <3> QED BY <3>1, FS_EmptySet
  <2>3. PICK x : x \in T
    BY <2>2
  <2>4. Cardinality(T \ {x}) < Cardinality(T) /\ T \ {x} \in SUBSET S
    BY <1>1, <2>3, OneFewer
  <2>5. IsFiniteSet(Units(rows, T \ {x}))
    BY <2>1, <2>4
  <2>6. (T \ {x}) \cup {x} = T /\ x \notin T \ {x} /\ rows[x].amount \in Nat
    BY <2>3 DEF Counted
  <2>7. IsFiniteSet(Units(rows, (T \ {x}) \cup {x}))
    <3> DEFINE V == T \ {x}
    <3> HIDE DEF V
    <3> QED BY <2>5, <2>6, OneMoreUnits DEF V
  <2> QED BY <2>6, <2>7
<1> QED BY <1>2

(* f adds up the amounts of S, taking the members in the order of pick.    *)
AddsUp(rows, S, pick, f) ==
  \A T \in SUBSET S :
    /\ T # {} => pick[T] \in T
    /\ f[T] = IF T = {} THEN 0 ELSE rows[pick[T]].amount + f[T \ {pick[T]}]

(* That leaves no choice of f.                                             *)
LEMMA AddsUpOnce ==
  ASSUME NEW rows, NEW S, IsFiniteSet(S), NEW pick, NEW f, NEW g,
         AddsUp(rows, S, pick, f), AddsUp(rows, S, pick, g)
  PROVE  f[S] = g[S]
<1> DEFINE Bad == { T \in SUBSET S : f[T] # g[T] }
<1>1. \A T \in SUBSET S : IsFiniteSet(T)
  BY FS_Subset
<1>2. CASE Bad # {}
  <2>1. PICK T \in Bad : \A V \in Bad : ~ (Cardinality(V) < Cardinality(T))
    BY <1>1, <1>2, SmallestMember
  <2>2. T # {}
    BY DEF AddsUp
  <2>3. pick[T] \in T
    BY <2>2 DEF AddsUp
  <2>4. /\ Cardinality(T \ {pick[T]}) < Cardinality(T)
        /\ T \ {pick[T]} \in SUBSET S
    BY <1>1, <2>3, OneFewer
  <2>5. f[T \ {pick[T]}] = g[T \ {pick[T]}]
    BY <2>1, <2>4
  <2> QED BY <2>2, <2>5 DEF AddsUp
<1> QED BY <1>2

(* A sum, a fold over the set of rows in an order of CHOOSE's making, is   *)
(* the number of its units, which is all that is used of it below.         *)
LEMMA SumIsCount ==
  ASSUME NEW rows, NEW S, Counted(rows, S)
  PROVE  SumOf(rows, S) = Cardinality(Units(rows, S))
<1> DEFINE pick == [T \in SUBSET S |-> CHOOSE x \in T : TRUE]
           Folds(f) == f = [T \in SUBSET S |->
                              IF T = {} THEN 0
                              ELSE rows[CHOOSE x \in T : TRUE].amount
                                     + f[T \ {CHOOSE x \in T : TRUE}]]
           count == [T \in SUBSET S |-> Cardinality(Units(rows, T))]
<1>1. SumOf(rows, S) = (CHOOSE f : Folds(f))[S]
  BY DEF SumOf, MapThenSumSet, MapThenFoldSet
<1>2. \A T \in SUBSET S : T # {} => pick[T] \in T
  OBVIOUS
<1>3. Folds(count)
  <2> SUFFICES ASSUME NEW T \in SUBSET S
               PROVE  count[T] = IF T = {} THEN 0
                                 ELSE rows[pick[T]].amount + count[T \ {pick[T]}]
    OBVIOUS
  <2>1. CASE T = {}
    <3>1. Units(rows, {}) = {}
      BY DEF Units
    <3> QED BY <2>1, <3>1, FS_EmptySet
  <2>2. CASE T # {}
    <3> DEFINE x == pick[T]
               V == T \ {x}
    <3>1. x \in T
      BY <1>2, <2>2
    <3> HIDE DEF pick, x
    <3>2. V \in SUBSET S /\ V \cup {x} = T /\ x \notin V
      BY <3>1
    <3>3. Counted(rows, V) /\ rows[x].amount \in Nat
      BY <3>1, FS_Subset DEF Counted
    <3>4. Cardinality(Units(rows, V \cup {x}))
            = rows[x].amount + Cardinality(Units(rows, V))
      <4> HIDE DEF V
      <4> QED BY <3>2, <3>3, UnitsFinite, OneMoreUnits
    <3> QED BY <2>2, <3>2, <3>4 DEF x
  <2> QED BY <2>1, <2>2
<1>4. Folds(CHOOSE f : Folds(f))
  <2> HIDE DEF Folds
  <2> QED BY <1>3
<1>5. (CHOOSE f : Folds(f))[S] = count[S]
  <2> DEFINE f == CHOOSE g : Folds(g)
  <2>1. Folds(f)
    BY <1>4
  <2> HIDE DEF f
  <2>2. AddsUp(rows, S, pick, f)
    BY <1>2, <2>1 DEF AddsUp
  <2>3. AddsUp(rows, S, pick, count)
    BY <1>2, <1>3 DEF AddsUp
  <2> HIDE DEF pick, count
  <2>4. f[S] = count[S]
    BY <2>2, <2>3, AddsUpOnce DEF Counted
  <2> QED BY <2>4 DEF f
<1> QED BY <1>1, <1>5

(* Rows that keep their amounts keep their sum.                            *)
LEMMA SumKept ==
  ASSUME NEW rows, NEW rows2, NEW S, Counted(rows, S),
         \A i \in S : rows2[i].amount = rows[i].amount
  PROVE  SumOf(rows2, S) = SumOf(rows, S)
<1>1. Units(rows2, S) = Units(rows, S)
  BY DEF Units
<1>2. Counted(rows2, S)
  BY DEF Counted
<1> QED BY <1>1, <1>2, SumIsCount

(* Fewer rows do not sum up to more.                                       *)
LEMMA SumMonotone ==
  ASSUME NEW rows, NEW S, NEW T, Counted(rows, T), S \subseteq T
  PROVE  SumOf(rows, S) \in Nat /\ SumOf(rows, T) \in Nat
         /\ SumOf(rows, S) <= SumOf(rows, T)
<1>1. Counted(rows, S)
  BY FS_Subset DEF Counted
<1>2. Units(rows, S) \subseteq Units(rows, T)
  BY DEF Units
<1>3. IsFiniteSet(Units(rows, T)) /\ IsFiniteSet(Units(rows, S))
  BY <1>1, UnitsFinite
<1>4. /\ Cardinality(Units(rows, S)) \in Nat
      /\ Cardinality(Units(rows, T)) \in Nat
      /\ Cardinality(Units(rows, S)) <= Cardinality(Units(rows, T))
  BY <1>2, <1>3, FS_CardinalityType, FS_Subset
<1> QED BY <1>1, <1>4, SumIsCount

(* A row that joins adds its amount.                                       *)
LEMMA SumJoined ==
  ASSUME NEW rows, NEW S, Counted(rows, S), NEW i, i \notin S,
         rows[i].amount \in Nat
  PROVE  SumOf(rows, S \cup {i}) = rows[i].amount + SumOf(rows, S)
<1>1. Counted(rows, S \cup {i})
  BY FS_AddElement DEF Counted
<1>2. IsFiniteSet(Units(rows, S))
  BY UnitsFinite
<1>3. Cardinality(Units(rows, S \cup {i}))
        = rows[i].amount + Cardinality(Units(rows, S))
  BY <1>2, OneMoreUnits
<1> QED BY <1>1, <1>3, SumIsCount

-----------------------------------------------------------------------------
(* The balance of createRefund, and what of it are the rows it made.       *)
Given(o) == SumOf(refund, Reserving(o))

InApp(o) == { i \in Reserving(o) : refund[i].inApp }

Claimed(o) == SumOf(refund, InApp(o))

(* FOR UPDATE lets one request at a time past the balance.                 *)
OneLockHolder ==
  \A v, w \in Workers :
    At(v, "insert") /\ At(w, "insert") /\ session[v].order = session[w].order =>
      v = w

(* What a lock holder is about to insert still fits.                       *)
InsertFits ==
  \A w \in Workers : At(w, "insert") =>
    session[w].amount + Given(session[w].order) <= CapturedAmount

ClaimsFit == \A o \in Orders : Claimed(o) <= CapturedAmount

(* What a handler takes from its first step to its last.                   *)
Remembers(w) ==
  LET s == session[w] IN
  /\ s.step \in Remembering => s.order \in Orders
  /\ s.step = "insert" => s.amount \in Amounts
  /\ s.step \in {"lookup", "cancel"} => isTransitionAllowed(s.seen, "CANCELLED")
  /\ s.step = "record" => isTransitionAllowed(s.seen, "REFUNDED")

Balance == /\ OneLockHolder /\ InsertFits /\ ClaimsFit
           /\ \A w \in Workers : Remembers(w)

(* The model's sums are those of the lemmas above.                         *)
LEMMA TotalIsSum == \A S : Total(S) = SumOf(refund, S)
  BY Zenon DEF Total, SumOf

LEMMA ClaimsFitIsWithin == ClaimsFit <=> InAppWithinCaptured
  BY TotalIsSum DEF ClaimsFit, Claimed, InApp, InAppWithinCaptured

(* The rows have amounts and there are finitely many of them.              *)
LEMMA RowsCounted ==
  ASSUME NEW rows \in [RefundIds -> RefundRows], NEW S \in SUBSET RefundIds
  PROVE  Counted(rows, S)
<1>1. IsFiniteSet(RefundIds)
  BY RefundConstants, FS_Interval DEF RefundIds
<1>2. IsFiniteSet(S)
  BY <1>1, FS_Subset
<1>3. \A i \in S : rows[i].amount \in Nat
  BY RefundConstants DEF RefundRows, Amounts
<1> QED BY <1>2, <1>3 DEF Counted

LEMMA ClaimedIsNumber ==
  ASSUME NEW rows \in [RefundIds -> RefundRows], NEW S \in SUBSET RefundIds
  PROVE  SumOf(rows, S) \in Nat
  BY RowsCounted, SumMonotone

(* Fewer rows, each of the same amount, do not sum up to more.             *)
LEMMA NoMore ==
  ASSUME NEW rows, NEW rows2, NEW S, NEW S2, Counted(rows, S), S2 \subseteq S,
         \A i \in S2 : rows2[i].amount = rows[i].amount
  PROVE  SumOf(rows2, S2) <= SumOf(rows, S)
<1>1. Counted(rows, S2)
  BY FS_Subset DEF Counted
<1>2. SumOf(rows2, S2) = SumOf(rows, S2)
  BY <1>1, SumKept
<1> QED BY <1>2, SumMonotone

(* A row that counts has counted before, or has been inserted.             *)
LEMMA CountedBefore ==
  ASSUME Inv, Next, NEW o, NEW i \in RefundIds, refund'[i].order = o,
         refund'[i].status \in RESERVING_STATUSES, ~ Inserted(i)
  PROVE  /\ i \in Reserving(o)
         /\ refund'[i].amount = refund[i].amount
         /\ refund'[i].inApp = refund[i].inApp
<1>1. CASE refund'[i] = refund[i]
  BY <1>1 DEF Reserving
<1>2. CASE Settled(i)
  BY <1>2 DEF Reserving, RESERVING_STATUSES, Settled
<1> QED BY <1>1, <1>2, RowSteps DEF RowStep

(* Only createRefund's insert claims more of what an order was paid.       *)
LEMMA ClaimsGrowByInsert ==
  ASSUME Inv, Next, NEW o \in Orders,
         \A w \in Workers : RefundInsert(w) => session[w].order # o
  PROVE  Claimed(o)' <= Claimed(o)
<1>1. \A i \in InApp(o)' : i \in InApp(o) /\ refund'[i].amount = refund[i].amount
  <2> SUFFICES ASSUME NEW i \in RefundIds, refund'[i].order = o,
                      refund'[i].status \in RESERVING_STATUSES, refund'[i].inApp
               PROVE  i \in InApp(o) /\ refund'[i].amount = refund[i].amount
    BY DEF InApp, Reserving
  <2>1. ~ Inserted(i)
    BY DEF Inserted
  <2> QED BY <2>1, CountedBefore DEF InApp
<1>2. Counted(refund, InApp(o))
  BY RowsCounted DEF Inv, TypeOK, InApp, Reserving
<1> DEFINE S2 == InApp(o)'
<1>3. S2 \subseteq InApp(o) /\ \A i \in S2 : refund'[i].amount = refund[i].amount
  BY <1>1
<1>4. SumOf(refund', S2) <= SumOf(refund, InApp(o))
  <2> HIDE DEF S2
  <2> QED BY <1>2, <1>3, NoMore
<1> QED BY <1>4 DEF Claimed

(* Only the inserts of a refund and of a cancellation take of what is left.*)
LEMMA GivenGrowsByInsert ==
  ASSUME Inv, Next, NEW o,
         \A w \in Workers :
           RefundInsert(w) \/ (CancelCommit(w) /\ session[w].found) =>
             session[w].order # o
  PROVE  Given(o)' <= Given(o)
<1>1. \A i \in Reserving(o)' : i \in Reserving(o) /\ refund'[i].amount = refund[i].amount
  <2> SUFFICES ASSUME NEW i \in RefundIds, refund'[i].order = o,
                      refund'[i].status \in RESERVING_STATUSES
               PROVE  i \in Reserving(o) /\ refund'[i].amount = refund[i].amount
    BY DEF Reserving
  <2>1. ~ Inserted(i)
    BY DEF Inserted
  <2> QED BY <2>1, CountedBefore
<1>2. Counted(refund, Reserving(o))
  BY RowsCounted DEF Inv, TypeOK, Reserving
<1> DEFINE S2 == Reserving(o)'
<1>3. S2 \subseteq Reserving(o) /\ \A i \in S2 : refund'[i].amount = refund[i].amount
  BY <1>1
<1>4. SumOf(refund', S2) <= SumOf(refund, Reserving(o))
  <2> HIDE DEF S2
  <2> QED BY <1>2, <1>3, NoMore
<1> QED BY <1>4 DEF Given

(* That insert claims the amount the lock holder has found to fit.         *)
LEMMA InsertClaims ==
  ASSUME Inv, NEW w \in Workers, RefundInsert(w), NEW o, o = session[w].order
  PROVE  Claimed(o)' = session[w].amount + Claimed(o)
<1> DEFINE s == session[w]
           S == InApp(o)
           row == [status |-> "PENDING", order |-> o, amount |-> s.amount,
                   rzp |-> None, inApp |-> TRUE]
<1>1. PICK i \in RefundIds : Free(i) /\ refund' = [refund EXCEPT ![i] = row]
  BY DEF RefundInsert
<1>2. refund'[i] = row /\ \A j \in RefundIds : j # i => refund'[j] = refund[j]
  BY <1>1 DEF Inv, TypeOK
<1>3. i \notin S /\ S \in SUBSET RefundIds
  BY <1>1 DEF Free, InApp, Reserving, RESERVING_STATUSES
<1>4. { j \in RefundIds : /\ refund'[j].order = o
                          /\ refund'[j].status \in RESERVING_STATUSES
                          /\ refund'[j].inApp } = S \cup {i}
  BY <1>2 DEF InApp, Reserving, RESERVING_STATUSES
<1>5. s.amount \in Nat
  BY RefundConstants DEF Inv, TypeOK, Sessions, Amounts
<1>6. Counted(refund, S)
  BY <1>3, RowsCounted DEF Inv, TypeOK
<1>7. \A j \in S : refund'[j].amount = refund[j].amount
  BY <1>2, <1>3
<1>8. refund'[i].amount = s.amount
  BY <1>2
<1>9. SumOf(refund', S \cup {i}) = s.amount + SumOf(refund, S)
  <2> HIDE DEF S, s
  <2>1. Counted(refund', S)
    BY <1>6, <1>7 DEF Counted
  <2> QED BY <1>3, <1>5, <1>6, <1>7, <1>8, <2>1, SumKept, SumJoined
<1>10. InApp(o)' = S \cup {i}
  <2> HIDE DEF S
  <2> QED BY <1>4 DEF InApp, Reserving
<1> QED BY <1>9, <1>10 DEF Claimed

(* So it keeps what its later steps rely on.                               *)
LEMMA RemembersStep ==
  ASSUME Inv, Next, NEW w \in Workers, Remembers(w)
  PROVE  Remembers(w)'
<1>0. \A s : Become(w, s) => session'[w] = s
  BY DEF Become, Inv, TypeOK
<1>1. CASE session'[w] = session[w]
  BY <1>1 DEF Remembers
<1>2. ASSUME NEW o \in Orders, RefundLock(w, o) PROVE Remembers(w)'
  <2>1. PICK amount \in Amounts :
          Become(w, [Idle EXCEPT !.step = "insert", !.order = o, !.amount = amount])
    BY <1>2 DEF RefundLock
  <2> QED BY <1>0, <2>1 DEF Remembers, Remembering, Idle
<1>3. ASSUME NEW o \in Orders, CancelRead(w, o) PROVE Remembers(w)'
  BY <1>0, <1>3 DEF CancelRead, Remembers, Remembering, Idle
<1>4. ASSUME NEW o \in Orders, RecordRead(w, o) PROVE Remembers(w)'
  BY <1>0, <1>4 DEF RecordRead, Remembers, Remembering, Idle
<1>5. CASE session'[w].step \notin Remembering
  BY <1>5 DEF Remembers, Remembering
<1>6. CASE CancelLookup(w)
  <2>1. /\ session[w] \in Sessions /\ session[w].order \in Orders
        /\ isTransitionAllowed(session[w].seen, "CANCELLED")
    BY <1>6 DEF CancelLookup, At, Inv, TypeOK, Remembers, Remembering
  <2>2. /\ session'[w].step = "cancel" /\ session'[w].order = session[w].order
        /\ session'[w].seen = session[w].seen
    BY <1>0, <1>6, <2>1 DEF CancelLookup, Sessions
  <2> QED BY <2>1, <2>2 DEF Remembers
<1> QED BY <1>1, <1>2, <1>3, <1>4, <1>5, <1>6, OnlyReads

(* A handler gets to its insert by createRefund's test of the balance.     *)
LEMMA OnlyLockInserts ==
  ASSUME Inv, Next, NEW w \in Workers, (At(w, "insert"))'
  PROVE  \/ session'[w] = session[w]
         \/ RefundLock(w, session'[w].order) /\ session'[w].order \in Orders
<1>0. \A s : Become(w, s) => session'[w] = s
  BY DEF Become, Inv, TypeOK
<1>1. ASSUME NEW o \in Orders, RefundLock(w, o) PROVE session'[w].order = o
  BY <1>0, <1>1 DEF RefundLock, Idle
<1>2. ASSUME NEW o \in Orders, CancelRead(w, o) \/ RecordRead(w, o) PROVE FALSE
  BY <1>0, <1>2 DEF CancelRead, RecordRead, Idle, At
<1>3. session'[w].step \in Remembering
  BY DEF At, Remembering
<1>4. ~ CancelLookup(w)
  BY <1>0 DEF CancelLookup, At, Inv, TypeOK, Sessions
<1> QED BY <1>1, <1>2, <1>3, <1>4, OnlyReads

(* The lock, the room it gave the insert and the total stay in step.       *)
LEMMA BalanceStep ==
  ASSUME Inv, Balance, Next
  PROVE  Balance'
<1>0. TypeOK'
  BY HandlerTypeOK, WorldTypeOK DEF Inv, Next
<1>1. \A o : /\ Claimed(o) \in Nat /\ Claimed(o)' \in Nat
             /\ Given(o) \in Nat /\ Given(o)' \in Nat
             /\ Claimed(o) <= Given(o)
  <2>1. \A o : /\ InApp(o) \in SUBSET RefundIds /\ InApp(o)' \in SUBSET RefundIds
               /\ Reserving(o) \in SUBSET RefundIds /\ Reserving(o)' \in SUBSET RefundIds
               /\ InApp(o) \subseteq Reserving(o)
    BY DEF InApp, Reserving
  <2>2. refund \in [RefundIds -> RefundRows] /\ refund' \in [RefundIds -> RefundRows]
    BY <1>0 DEF Inv, TypeOK
  <2>3. \A o : Counted(refund, Reserving(o))
    BY <2>1, <2>2, RowsCounted
  <2>4. \A o : Claimed(o) <= Given(o)
    BY <2>1, <2>3, SumMonotone DEF Claimed, Given
  <2> QED BY <2>1, <2>2, <2>4, ClaimedIsNumber DEF Claimed, Given
<1>2. OneLockHolder'
  <2> SUFFICES ASSUME NEW v \in Workers, NEW w \in Workers,
                      (At(v, "insert"))', (At(w, "insert"))',
                      session'[v].order = session'[w].order
               PROVE  v = w
    BY DEF OneLockHolder
  <2>1. \A u \in Workers, x \in Workers :
          (At(u, "insert"))' /\ (At(x, "insert"))' /\ u # x
            /\ session'[u].order = session'[x].order =>
              ~ RefundLock(u, session'[u].order)
    <3> SUFFICES ASSUME NEW u \in Workers, NEW x \in Workers, u # x,
                        (At(x, "insert"))', NEW o, o = session'[x].order,
                        RefundLock(u, o)
                 PROVE  FALSE
      OBVIOUS
    <3>1. session'[x] = session[x]
      BY DEF RefundLock, Become, Inv, TypeOK
    <3> QED BY <3>1 DEF RefundLock, Locked, At
  <2>2. v # w => session'[v] = session[v] /\ session'[w] = session[w]
    BY <2>1, OnlyLockInserts
  <2> QED BY <2>2 DEF Balance, OneLockHolder, At
<1>3. InsertFits'
  <2> SUFFICES ASSUME NEW w \in Workers, (At(w, "insert"))',
                      NEW o, o = session'[w].order
               PROVE  session'[w].amount + Given(o)' <= CapturedAmount
    BY DEF InsertFits
  <2>1. CASE session'[w] = session[w]
    <3>1. At(w, "insert") /\ session[w].order = o
      BY <2>1 DEF At
    <3>2. session[w].amount + Given(o) <= CapturedAmount
      BY <3>1 DEF Balance, InsertFits
    <3>3. ASSUME NEW v \in Workers, RefundInsert(v), session[v].order = o
          PROVE  FALSE
      <4>1. v = w
        BY <3>1, <3>3 DEF RefundInsert, Balance, OneLockHolder, At
      <4>2. session'[v].step = "call"
        BY <3>3 DEF RefundInsert, Become, Inv, TypeOK, Sessions
      <4> QED BY <2>1, <3>1, <4>1, <4>2 DEF At
    <3>4. ASSUME NEW v \in Workers, CancelCommit(v), session[v].order = o,
                 session[v].found
          PROVE  FALSE
      BY <3>1, <3>4 DEF CancelCommit, NeedsRefund, AttemptBusy, Locked
    <3>5. Given(o)' <= Given(o)
      BY <3>3, <3>4, GivenGrowsByInsert
    <3>6. session[w].amount \in Nat
      BY RefundConstants DEF Inv, TypeOK, Sessions, Amounts
    <3> QED BY <1>1, <2>1, <3>2, <3>5, <3>6, RefundConstants
  <2>2. CASE RefundLock(w, o) /\ o \in Orders
    <3>1. PICK amount \in Amounts :
            /\ amount + Total(Reserving(o)) <= CapturedAmount
            /\ Become(w, [Idle EXCEPT !.step = "insert", !.order = o,
                                      !.amount = amount])
      BY <2>2 DEF RefundLock
    <3>2. session'[w].amount = amount
      BY <3>1 DEF Become, Inv, TypeOK, Idle
    <3>3. Given(o)' = Given(o)
      BY <2>2 DEF RefundLock, Given, Reserving
    <3>4. Given(o) = Total(Reserving(o))
      BY TotalIsSum DEF Given
    <3> QED BY <3>1, <3>2, <3>3, <3>4
  <2> QED BY <2>1, <2>2, OnlyLockInserts
<1>4. ClaimsFit'
  <2> SUFFICES ASSUME NEW o \in Orders PROVE Claimed(o)' <= CapturedAmount
    BY DEF ClaimsFit
  <2>1. CASE \E w \in Workers : RefundInsert(w) /\ session[w].order = o
    <3>1. PICK w \in Workers : RefundInsert(w) /\ session[w].order = o
      BY <2>1
    <3>2. session[w].amount + Given(o) <= CapturedAmount
      BY <3>1 DEF Balance, InsertFits, RefundInsert
    <3>3. session[w].amount \in Nat
      BY RefundConstants DEF Inv, TypeOK, Sessions, Amounts
    <3>4. Claimed(o)' = session[w].amount + Claimed(o)
      BY <3>1, InsertClaims
    <3> QED BY <1>1, <3>2, <3>3, <3>4, RefundConstants
  <2>2. CASE ~ \E w \in Workers : RefundInsert(w) /\ session[w].order = o
    <3>1. Claimed(o)' <= Claimed(o)
      BY <2>2, ClaimsGrowByInsert
    <3> QED BY <1>1, <3>1, RefundConstants DEF Balance, ClaimsFit
  <2> QED BY <2>1, <2>2
<1>5. \A w \in Workers : Remembers(w)'
  BY RemembersStep DEF Balance
<1> QED BY <1>2, <1>3, <1>4, <1>5 DEF Balance

(* Nothing is claimed before any refund is asked for.                      *)
LEMMA InitBalance == Init => Balance
<1> SUFFICES ASSUME Init PROVE Balance
  OBVIOUS
<1>1. OneLockHolder /\ InsertFits /\ \A w \in Workers : Remembers(w)
  BY DEF Init, OneLockHolder, InsertFits, Remembers, Remembering, At, Idle
<1>2. ASSUME NEW o \in Orders PROVE Claimed(o) = 0
  <2>1. InApp(o) = {}
    BY DEF Init, InApp, Reserving, RESERVING_STATUSES, NoRefund
  <2>2. Counted(refund, {}) /\ Units(refund, {}) = {}
    BY FS_EmptySet DEF Counted, Units
  <2> QED BY <2>1, <2>2, SumIsCount, FS_EmptySet DEF Claimed
<1> QED BY <1>1, <1>2, RefundConstants DEF Balance, ClaimsFit

-----------------------------------------------------------------------------
(* The refinement.  The book adds up as createRefund does.                 *)
LEMMA SameSum == \A rows, S : Book!SumOver(rows, S) = SumOf(rows, S)
  BY Zenon DEF Book!SumOver, Book!MapThenSumSet, Book!MapThenFoldSet,
               SumOf, MapThenSumSet, MapThenFoldSet

(* It moves an order along the same state machine.                         *)
LEMMA SameMoves ==
  \A from, to : Book!isTransitionAllowed(from, to) <=> isTransitionAllowed(from, to)
  BY DEF Book!isTransitionAllowed, Book!ORDER_STATE_TRANSITIONS,
         isTransitionAllowed, ORDER_STATE_TRANSITIONS

(* An entry is a row without its Razorpay id.                              *)
LEMMA EntryOf ==
  /\ \A i \in RefundIds : Entries[i] = [status |-> refund[i].status,
                                        order |-> refund[i].order,
                                        amount |-> refund[i].amount,
                                        inApp |-> refund[i].inApp]
  /\ Entries = [i \in RefundIds |-> Entries[i]]
  /\ Book!Lines = RefundIds
  BY DEF Entries, Book!Lines, RefundIds

(* A row that is inserted is an entry that is made.                        *)
LEMMA InsertEnters ==
  ASSUME Inv, NEW i \in RefundIds, Free(i), NEW o, NEW amount, NEW inApp,
         refund' = [refund EXCEPT
                      ![i] = [status |-> "PENDING", order |-> o,
                              amount |-> amount, rzp |-> None, inApp |-> inApp]]
  PROVE  Book!Enter(o, amount, inApp)
<1> DEFINE new == [status |-> "PENDING", order |-> o, amount |-> amount,
                   inApp |-> inApp]
<1>1. /\ refund'[i] = [status |-> "PENDING", order |-> o, amount |-> amount,
                       rzp |-> None, inApp |-> inApp]
      /\ \A j \in RefundIds : j # i => refund'[j] = refund[j]
  BY DEF Inv, TypeOK
<1>2. Entries' = [Entries EXCEPT ![i] = new]
  <2>1. /\ refund'[i].status = "PENDING" /\ refund'[i].order = o
        /\ refund'[i].amount = amount /\ refund'[i].inApp = inApp
    BY <1>1
  <2> QED BY <1>1, <2>1 DEF Entries
<1>3. Entries[i].status = "ABSENT"
  BY EntryOf DEF Free
<1> HIDE DEF new
<1> QED BY <1>2, <1>3, EntryOf DEF Book!Enter, new

(* A row that settles is an entry that settles.                            *)
LEMMA RowSettles ==
  ASSUME Inv, NEW i \in RefundIds, refund[i].status = "PENDING", refund[i].inApp,
         NEW to \in {"PROCESSED", "FAILED"}, NEW rzp,
         refund' = [refund EXCEPT ![i].status = to, ![i].rzp = rzp],
         UNCHANGED status
  PROVE  Book!BookNext
<1>1. /\ refund'[i].status = to /\ refund'[i].order = refund[i].order
      /\ refund'[i].amount = refund[i].amount /\ refund'[i].inApp
      /\ \A j \in RefundIds : j # i => refund'[j] = refund[j]
  BY DEF Inv, TypeOK, RefundRows
<1>2. Entries' = [Entries EXCEPT ![i].status = to]
  <2> DEFINE next == [Entries EXCEPT ![i].status = to]
  <2>1. /\ Entries[i] = [status |-> refund[i].status, order |-> refund[i].order,
                         amount |-> refund[i].amount, inApp |-> refund[i].inApp]
        /\ DOMAIN Entries = RefundIds
    BY DEF Entries
  <2>2. next[i] = [status |-> to, order |-> refund[i].order,
                   amount |-> refund[i].amount, inApp |-> refund[i].inApp]
    <3>1. next[i] = [Entries[i] EXCEPT !.status = to]
      BY <2>1
    <3>2. next[i] = [[status |-> refund[i].status, order |-> refund[i].order,
                      amount |-> refund[i].amount, inApp |-> refund[i].inApp]
                       EXCEPT !.status = to]
      <4> HIDE DEF next
      <4> QED BY ONLY <2>1, <3>1
    <3> HIDE DEF next
    <3> QED BY ONLY <3>2
  <2>3. Entries'[i] = [status |-> refund'[i].status, order |-> refund'[i].order,
                       amount |-> refund'[i].amount, inApp |-> refund'[i].inApp]
    BY DEF Entries
  <2>4. Entries'[i] = next[i]
    BY <1>1, <2>2, <2>3
  <2>5. ASSUME NEW j \in RefundIds, j # i PROVE Entries'[j] = next[j]
    <3>1. next[j] = Entries[j]
      BY <2>1, <2>5
    <3>2. refund'[j] = refund[j]
      BY <1>1, <2>5
    <3>3. Entries'[j] = Entries[j]
      BY <3>2 DEF Entries
    <3> QED BY <3>1, <3>3
  <2>6. next = [j \in RefundIds |-> next[j]]
    BY <2>1
  <2>7. Entries' = [j \in RefundIds |-> Entries'[j]]
    BY DEF Entries
  <2> HIDE DEF next
  <2>8. \A j \in RefundIds : Entries'[j] = next[j]
    BY <2>4, <2>5
  <2>9. Entries' = next
    BY <2>6, <2>7, <2>8
  <2> QED BY <2>9 DEF next
<1>3. Book!Settle(i, to)
  BY <1>2, EntryOf DEF Book!Settle
<1> QED BY <1>3, EntryOf DEF Book!BookNext

(* createRefund enters what there still is room for.                       *)
LEMMA InsertAsks ==
  ASSUME Inv, Balance, NEW w \in Workers, RefundInsert(w)
  PROVE  Book!BookNext
<1> DEFINE o == session[w].order
           amount == session[w].amount
<1>1. /\ o \in Orders /\ amount \in Amounts
      /\ amount + Given(o) <= CapturedAmount
  BY DEF RefundInsert, At, Balance, InsertFits, Remembers, Remembering
<1>2. Book!Enter(o, amount, TRUE)
  <2>1. PICK i \in RefundIds :
          /\ Free(i)
          /\ refund' = [refund EXCEPT ![i] = [status |-> "PENDING", order |-> o,
                          amount |-> amount, rzp |-> None, inApp |-> TRUE]]
    BY DEF RefundInsert
  <2> HIDE DEF o, amount
  <2> QED BY <2>1, InsertEnters
<1>3. Book!Room(o, amount)
  <2>1. Book!Counting(o) = Reserving(o)
    BY EntryOf DEF Book!Counting, Reserving, RESERVING_STATUSES
  <2>2. Counted(refund, Reserving(o))
    BY RowsCounted DEF Inv, TypeOK, Reserving
  <2>3. \A i \in Reserving(o) : Entries[i].amount = refund[i].amount
    BY EntryOf DEF Reserving
  <2>4. SumOf(Entries, Reserving(o)) = Given(o)
    <3> HIDE DEF o
    <3> QED BY <2>2, <2>3, SumKept DEF Given
  <2> HIDE DEF o, amount
  <2> QED BY <1>1, <2>1, <2>4, SameSum DEF Book!Room
<1>4. UNCHANGED status
  BY DEF RefundInsert
<1> HIDE DEF o, amount
<1> QED BY <1>1, <1>2, <1>3, <1>4 DEF Book!Ask, Book!BookNext, Amounts

(* The compare-and-swap of an order makes the move, or makes none.         *)
LEMMA CasMoves ==
  ASSUME Inv, NEW o \in Orders, NEW seen, NEW to,
         isTransitionAllowed(seen, to), status' = CasTo(o, seen, to)
  PROVE  Book!Moves(o, to)
  BY SameMoves DEF CasTo, CasSucceeds, Book!Moves

(* performCancellation enters the debt, and moves the order if it can.     *)
LEMMA CancelEnters ==
  ASSUME Inv, Balance, NEW w \in Workers, CancelCommit(w)
  PROVE  Book!BookNext
<1> DEFINE o == session[w].order
<1>1. o \in Orders /\ isTransitionAllowed(session[w].seen, "CANCELLED")
  BY DEF CancelCommit, At, Balance, Remembers, Remembering
<1>2. ASSUME NEW i \in RefundIds, Free(i), refund' = Owe(o, i)
      PROVE  Book!Enter(o, CapturedAmount, FALSE)
  <2> HIDE DEF o
  <2> QED BY <1>2, InsertEnters DEF Owe
<1>3. Book!Enter(o, CapturedAmount, FALSE) \/ UNCHANGED Entries
  BY <1>2 DEF CancelCommit, Entries
<1>4. Book!Moves(o, "CANCELLED")
  <2>1. status' = CasTo(o, session[w].seen, "CANCELLED")
    BY DEF CancelCommit
  <2> HIDE DEF o
  <2> QED BY <1>1, <2>1, CasMoves
<1> HIDE DEF o
<1> QED BY <1>1, <1>3, <1>4 DEF Book!Cancel, Book!BookNext

(* performRefundRecording settles all that is pending for the order.       *)
LEMMA RecordRecords ==
  ASSUME Inv, Balance, NEW w \in Workers, RecordCommit(w)
  PROVE  Book!BookNext
<1> DEFINE o == session[w].order
<1>1. o \in Orders /\ isTransitionAllowed(session[w].seen, "REFUNDED")
  BY DEF RecordCommit, At, Balance, Remembers, Remembering
<1>2. Entries' = [i \in RefundIds |->
                    IF Entries[i].order = o /\ Entries[i].status = "PENDING"
                    THEN [Entries[i] EXCEPT !.status = "PROCESSED"] ELSE Entries[i]]
  <2>1. \A i \in RefundIds :
          refund'[i] = IF refund[i].order = o /\ refund[i].status = "PENDING"
                       THEN [refund[i] EXCEPT !.status = "PROCESSED"] ELSE refund[i]
    BY DEF RecordCommit
  <2>2. \A i \in RefundIds : refund[i] \in RefundRows
    BY DEF Inv, TypeOK
  <2>3. ASSUME NEW i \in RefundIds
        PROVE  Entries'[i] =
                 IF Entries[i].order = o /\ Entries[i].status = "PENDING"
                 THEN [Entries[i] EXCEPT !.status = "PROCESSED"] ELSE Entries[i]
    <3> HIDE DEF o
    <3>1. Entries'[i] = [status |-> refund'[i].status, order |-> refund'[i].order,
                         amount |-> refund'[i].amount, inApp |-> refund'[i].inApp]
      BY DEF Entries
    <3>2. Entries[i] = [status |-> refund[i].status, order |-> refund[i].order,
                        amount |-> refund[i].amount, inApp |-> refund[i].inApp]
      BY EntryOf
    <3>3. CASE refund[i].order = o /\ refund[i].status = "PENDING"
      <4>1. refund'[i] = [refund[i] EXCEPT !.status = "PROCESSED"]
        BY <2>1, <3>3
      <4>2. /\ refund'[i].status = "PROCESSED" /\ refund'[i].order = refund[i].order
            /\ refund'[i].amount = refund[i].amount /\ refund'[i].inApp = refund[i].inApp
        BY <2>2, <4>1 DEF RefundRows
      <4> QED BY <3>1, <3>2, <3>3, <4>2
    <3>4. CASE ~ (refund[i].order = o /\ refund[i].status = "PENDING")
      <4>1. refund'[i] = refund[i]
        BY <2>1, <3>4
      <4> QED BY <3>1, <3>2, <3>4, <4>1
    <3> QED BY <3>3, <3>4
  <2>4. Entries' = [i \in RefundIds |-> Entries'[i]]
    BY DEF Entries
  <2> HIDE DEF o
  <2> QED BY <2>3, <2>4
<1>3. Book!Moves(o, "REFUNDED")
  <2>1. status' = CasTo(o, session[w].seen, "REFUNDED")
    BY DEF RecordCommit
  <2> HIDE DEF o
  <2> QED BY <1>1, <2>1, CasMoves
<1> HIDE DEF o
<1> QED BY <1>1, <1>2, <1>3, EntryOf DEF Book!Record, Book!BookNext

(* The answer of the provider settles what it was asked for, if nobody     *)
(* else has done so before.                                                *)
LEMMA AnswerSettles ==
  ASSUME Inv, NEW w \in Workers, SettleRefund(w) \/ MarkFailed(w)
  PROVE  Book!BookNext \/ UNCHANGED Book!book
<1> DEFINE s == session[w]
           i == s.refund
<1>1. i \in RefundIds /\ refund[i].inApp
  BY DEF Inv, CallsAreInApp, SettleRefund, MarkFailed, At
<1>2. UNCHANGED status
  BY DEF SettleRefund, MarkFailed
<1>3. CASE UNCHANGED refund
  BY <1>2, <1>3 DEF Book!book, Entries
<1>4. ASSUME refund[i].status = "PENDING", NEW to, to \in {"PENDING", "PROCESSED", "FAILED"},
             refund' = [refund EXCEPT ![i].status = to, ![i].rzp = s.rzp]
      PROVE  Book!BookNext \/ UNCHANGED Book!book
  <2>1. CASE to = "PENDING"
    <3>1. \A j \in RefundIds : /\ refund'[j].status = refund[j].status
                               /\ refund'[j].order = refund[j].order
                               /\ refund'[j].amount = refund[j].amount
                               /\ refund'[j].inApp = refund[j].inApp
      BY <1>1, <1>4, <2>1 DEF Inv, TypeOK, RefundRows
    <3>2. Entries' = Entries
      BY <3>1 DEF Entries
    <3> QED BY <1>2, <3>2 DEF Book!book
  <2>2. CASE to # "PENDING"
    <3> HIDE DEF s, i
    <3> QED BY <1>1, <1>2, <1>4, <2>2, RowSettles
  <2> QED BY <2>1, <2>2
<1>5. CASE SettleRefund(w)
  <2> DEFINE to == IF s.type = "processed" THEN "PROCESSED" ELSE "PENDING"
  <2>1. \/ UNCHANGED refund
        \/ /\ refund[i].status = "PENDING"
           /\ refund' = [refund EXCEPT ![i].status = to, ![i].rzp = s.rzp]
    BY <1>5 DEF SettleRefund
  <2>2. to \in {"PENDING", "PROCESSED", "FAILED"}
    OBVIOUS
  <2> HIDE DEF s, i, to
  <2> QED BY <1>3, <1>4, <2>1, <2>2
<1>6. CASE MarkFailed(w)
  <2>1. \/ UNCHANGED refund
        \/ /\ refund[i].status = "PENDING"
           /\ refund' = [refund EXCEPT ![i].status = "FAILED", ![i].rzp = s.rzp]
    BY <1>6 DEF MarkFailed, MayFail
  <2> HIDE DEF s, i
  <2> QED BY <1>3, <1>4, <2>1
<1> QED BY <1>5, <1>6

(* So does a webhook.                                                      *)
LEMMA WebhookSettles ==
  ASSUME Inv, NEW e \in EventIds, ApplyRefundWebhook(e)
  PROVE  Book!BookNext \/ UNCHANGED Book!book
<1>1. e[2] \in ProviderRefunds
  BY DEF EventIds
<1>2. PICK i \in WithRefund(e[2]) :
        refund' = IF refund[i].status = "PENDING"
                  THEN [refund EXCEPT ![i].status = Outcome(e[1])] ELSE refund
  BY DEF ApplyRefundWebhook
<1>3. i \in RefundIds /\ refund[i].inApp
  BY <1>1, <1>2, RefundConstants DEF WithRefund, Inv, HandRows
<1>4. UNCHANGED status
  BY DEF ApplyRefundWebhook
<1>5. CASE refund[i].status # "PENDING"
  BY <1>2, <1>4, <1>5 DEF Book!book, Entries
<1>6. CASE refund[i].status = "PENDING"
  <2>1. Outcome(e[1]) \in {"PROCESSED", "FAILED"}
    BY DEF Outcome
  <2>2. refund' = [refund EXCEPT ![i].status = Outcome(e[1]), ![i].rzp = refund[i].rzp]
    <3> DEFINE to == Outcome(e[1])
               next == [refund EXCEPT ![i].status = to]
    <3>1. refund[i] \in RefundRows
      BY <1>3 DEF Inv, TypeOK
    <3>2. [refund[i] EXCEPT !.status = to, !.rzp = refund[i].rzp]
            = [refund[i] EXCEPT !.status = to]
      BY <3>1 DEF RefundRows
    <3> QED BY <1>2, <1>3, <1>6, <3>2 DEF Inv, TypeOK
  <2> QED BY <1>3, <1>4, <1>6, <2>1, <2>2, RowSettles
<1> QED BY <1>5, <1>6

(* Every step of the services is one step of the book, or none.            *)
LEMMA StepIsBooks ==
  ASSUME Inv, Balance, Next
  PROVE  Book!BookNext \/ UNCHANGED Book!book
<1>1. ASSUME NEW o \in Orders, NEW to \in AdminTargets, AdminTransition(o, to)
      PROVE  Book!BookNext
  <2>1. Book!Fulfil(o, to)
    BY <1>1, SameMoves DEF AdminTransition, Book!Fulfil, Book!Moves, Entries
  <2> QED BY <2>1 DEF Book!BookNext
<1>2. CASE UNCHANGED <<status, refund>>
  BY <1>2 DEF Book!book, Entries
<1> QED
  BY <1>1, <1>2, InsertAsks, CancelEnters, RecordRecords, AnswerSettles,
     WebhookSettles
  DEF Next, Handler, World, RefundLock, CancelRead, RecordRead, CallProvider,
      MissRefund, ReportMiss, Abandon, ReceiveRefundWebhook, ProviderSettles,
      DashboardRefund, CancelLookup, PaymentCaptured

-----------------------------------------------------------------------------
(* The inductive invariant holds of RefundsService and its neighbours.     *)
THEOREM InvHolds == Spec => []Inv
  BY InitInv, StepInv, PTL DEF Spec

(* The balance holds in every state, too.                                  *)
LEMMA BalanceHolds == Spec => []Balance
<1>1. Inv /\ Balance /\ [Next]_vars => Balance'
  <2> SUFFICES ASSUME Inv, Balance, UNCHANGED vars PROVE Balance'
    BY BalanceStep
  <2> QED
    BY DEF vars, Balance, OneLockHolder, InsertFits, ClaimsFit, Claimed, Given,
           InApp, Reserving, Remembers, At
<1> QED BY <1>1, InvHolds, InitBalance, PTL DEF Spec

(* createRefund, however many requests run at once, never asks for more    *)
(* than was captured.                                                      *)
THEOREM WithinCaptured == Spec => []InAppWithinCaptured
<1>1. Balance => InAppWithinCaptured
  BY ClaimsFitIsWithin DEF Balance
<1> QED BY <1>1, BalanceHolds, PTL

(* The tables and sessions stay well typed.                                *)
THEOREM TypeCorrect == Spec => []TypeOK
<1>1. Inv => TypeOK
  BY DEF Inv
<1> QED BY <1>1, InvHolds, PTL

(* Whoever settles a refund first (the answer, a webhook, the staff) is    *)
(* not overruled.                                                          *)
THEOREM SettlesOnce == Spec => RefundSettlesOnce
<1>1. Inv /\ [Next]_vars =>
        [\A i \in RefundIds : refund[i].status \in {"PROCESSED", "FAILED"} =>
                               refund'[i] = refund[i]]_vars
  BY RowSteps DEF RowStep, Inserted, Settled
<1> QED BY <1>1, InvHolds, PTL DEF Spec, RefundSettlesOnce

(* applyRefundWebhookEvent marks no event processed in vain.               *)
THEOREM EventsNotLost == Spec => []AppliedMeansSettled
<1>1. Inv => AppliedMeansSettled
  BY DEF Inv
<1> QED BY <1>1, InvHolds, PTL

(* performCancellation never cancels an order without the debt, if it      *)
(* found the captured attempt when it looked for it.                       *)
THEOREM MoneyStaysOwed == Spec => []CancelledIsOwed
<1>1. Inv => CancelledIsOwed
  BY DEF Inv
<1> QED BY <1>1, InvHolds, PTL

(* RefundsService, the webhooks and OrdersService together are the book:   *)
(* what createRefund asks for has room at its insert among everything      *)
(* refunded or owed then, and whoever settles an entry does so alone.      *)
THEOREM ImplementsBook == Spec => KeepsBook
<1>1. Init => Book!BookInit
  BY DEF Init, Book!BookInit, Book!Blank, Book!Lines, RefundIds, NoRefund, Entries
<1>2. Inv /\ Balance /\ [Next]_vars => [Book!BookNext]_Book!book
  <2> SUFFICES ASSUME UNCHANGED vars PROVE UNCHANGED Book!book
    BY StepIsBooks
  <2> QED BY DEF vars, Book!book, Entries
<1> QED BY InvHolds, BalanceHolds, <1>1, <1>2, PTL
        DEF Spec, KeepsBook, Book!BookSpec

-----------------------------------------------------------------------------
(* The book is not too weak a promise: what the app gives back is bounded, *)
(* and what is settled is final, in whatever keeps it.                     *)
EntryRows == [status : {"ABSENT", "PENDING", "PROCESSED", "FAILED"},
              order : Orders \cup {None}, amount : Nat, inApp : BOOLEAN]

Asked(o) == { i \in RefundIds : /\ Entries[i].order = o /\ Entries[i].inApp
                                /\ Entries[i].status \in {"PENDING", "PROCESSED"} }

BookInv ==
  /\ Entries \in [RefundIds -> EntryRows]
  /\ \A o \in Orders : SumOf(Entries, Asked(o)) <= CapturedAmount

LEMMA EntriesCounted ==
  ASSUME NEW rows \in [RefundIds -> EntryRows], NEW S \in SUBSET RefundIds
  PROVE  Counted(rows, S)
<1>1. IsFiniteSet(RefundIds)
  BY RefundConstants, FS_Interval DEF RefundIds
<1>2. IsFiniteSet(S)
  BY <1>1, FS_Subset
<1>3. \A i \in S : rows[i].amount \in Nat
  BY DEF EntryRows
<1> QED BY <1>2, <1>3 DEF Counted

(* As long as no entry of the app is made, no order asks for more.         *)
LEMMA NothingAsked ==
  ASSUME BookInv, Entries' \in [RefundIds -> EntryRows], NEW o \in Orders,
         Asked(o)' \subseteq Asked(o),
         \A i \in Asked(o)' : Entries'[i].amount = Entries[i].amount
  PROVE  SumOf(Entries', Asked(o)') <= CapturedAmount
<1>1. Asked(o) \in SUBSET RefundIds /\ Entries \in [RefundIds -> EntryRows]
  BY DEF Asked, BookInv
<1>2. PICK old : old = Entries
  OBVIOUS
<1>3. PICK new : new = Entries'
  OBVIOUS
<1>4. PICK S : S = Asked(o)
  OBVIOUS
<1>5. PICK T : T = Asked(o)'
  OBVIOUS
<1>6. Counted(old, S)
  BY ONLY <1>1, <1>2, <1>4, EntriesCounted
<1>7. T \subseteq S /\ \A i \in T : new[i].amount = old[i].amount
  BY <1>2, <1>3, <1>4, <1>5
<1>8. SumOf(new, T) <= SumOf(old, S)
  BY ONLY <1>6, <1>7, NoMore
<1>9. SumOf(old, S) \in Nat /\ SumOf(new, T) \in Nat
  <2>1. T \in SUBSET RefundIds /\ new \in [RefundIds -> EntryRows]
    BY <1>1, <1>3, <1>4, <1>7
  <2>2. Counted(new, T)
    BY ONLY <2>1, EntriesCounted
  <2> QED BY ONLY <1>6, <2>2, SumMonotone
<1>10. SumOf(old, S) <= CapturedAmount
  BY <1>2, <1>4 DEF BookInv
<1>11. SumOf(new, T) <= CapturedAmount
  BY ONLY <1>8, <1>9, <1>10, RefundConstants
<1> QED BY ONLY <1>3, <1>5, <1>11

(* What an entry can be made of, and where.                                *)
LEMMA EnterMakes ==
  ASSUME BookInv, NEW o \in Orders, NEW amount \in Nat, NEW inApp \in BOOLEAN,
         Book!Enter(o, amount, inApp)
  PROVE  \E i \in RefundIds :
           /\ Entries[i].status = "ABSENT"
           /\ Entries' \in [RefundIds -> EntryRows]
           /\ Entries'[i] = [status |-> "PENDING", order |-> o,
                             amount |-> amount, inApp |-> inApp]
           /\ \A j \in RefundIds : j # i => Entries'[j] = Entries[j]
<1> DEFINE new == [status |-> "PENDING", order |-> o, amount |-> amount,
                   inApp |-> inApp]
<1>1. PICK i \in RefundIds : /\ Entries[i].status = "ABSENT"
                             /\ Entries' = [Entries EXCEPT ![i] = new]
  BY EntryOf DEF Book!Enter
<1>2. new \in EntryRows
  BY DEF EntryRows
<1>3. Entries \in [RefundIds -> EntryRows]
  BY DEF BookInv
<1> HIDE DEF new
<1>4. /\ Entries' \in [RefundIds -> EntryRows] /\ Entries'[i] = new
      /\ \A j \in RefundIds : j # i => Entries'[j] = Entries[j]
  BY ONLY <1>1, <1>2, <1>3
<1> QED BY <1>1, <1>4 DEF new

LEMMA AskKeeps ==
  ASSUME BookInv, NEW o \in Orders, NEW amount \in Nat, Book!Ask(o, amount)
  PROVE  BookInv'
<1>1. PICK i \in RefundIds :
        /\ Entries[i].status = "ABSENT"
        /\ Entries' \in [RefundIds -> EntryRows]
        /\ Entries'[i] = [status |-> "PENDING", order |-> o,
                          amount |-> amount, inApp |-> TRUE]
        /\ \A j \in RefundIds : j # i => Entries'[j] = Entries[j]
  BY EnterMakes DEF Book!Ask
<1>2. amount + SumOf(Entries, Book!Counting(o)) <= CapturedAmount
  BY SameSum DEF Book!Ask, Book!Room
<1>3. /\ i \notin Asked(o) /\ Asked(o) \in SUBSET RefundIds
      /\ Asked(o) \subseteq Book!Counting(o) /\ Book!Counting(o) \in SUBSET RefundIds
  BY <1>1, EntryOf DEF Asked, Book!Counting
<1>4. Asked(o)' = Asked(o) \cup {i}
  BY <1>1 DEF Asked
<1>5. \A p \in Orders : p # o => Asked(p)' = Asked(p)
  BY <1>1 DEF Asked
<1>6. SumOf(Entries', Asked(o)') <= CapturedAmount
  <2>1. PICK old : old = Entries
    OBVIOUS
  <2>2. PICK new : new = Entries'
    OBVIOUS
  <2>3. PICK S : S = Asked(o)
    OBVIOUS
  <2>4. PICK C : C = Book!Counting(o)
    OBVIOUS
  <2>5. /\ old \in [RefundIds -> EntryRows] /\ new \in [RefundIds -> EntryRows]
        /\ S \in SUBSET RefundIds /\ C \in SUBSET RefundIds /\ S \subseteq C
        /\ i \notin S /\ new[i].amount = amount
        /\ amount + SumOf(old, C) <= CapturedAmount
    BY <1>1, <1>2, <1>3, <2>1, <2>2, <2>3, <2>4 DEF BookInv
  <2>6. \A j \in S : new[j].amount = old[j].amount
    BY <1>1, <2>1, <2>2, <2>5
  <2>7. Counted(old, S) /\ Counted(old, C) /\ Counted(new, S)
    BY ONLY <2>5, EntriesCounted
  <2>8. SumOf(new, S \cup {i}) = amount + SumOf(new, S)
    <3>1. new[i].amount \in Nat
      BY <2>5
    <3> QED BY ONLY <2>5, <2>7, <3>1, SumJoined
  <2>9. SumOf(new, S) = SumOf(old, S)
    BY ONLY <2>6, <2>7, SumKept
  <2>10. SumOf(old, S) \in Nat /\ SumOf(old, C) \in Nat /\ SumOf(old, S) <= SumOf(old, C)
    BY ONLY <2>5, <2>7, SumMonotone
  <2>11. SumOf(new, S \cup {i}) <= CapturedAmount
    BY ONLY <2>5, <2>8, <2>9, <2>10, RefundConstants, amount \in Nat
  <2> QED BY ONLY <1>4, <2>2, <2>3, <2>11
<1>7. ASSUME NEW p \in Orders, p # o
      PROVE  SumOf(Entries', Asked(p)') <= CapturedAmount
  <2>1. Asked(p)' = Asked(p)
    BY <1>5, <1>7
  <2>2. \A j \in Asked(p)' : Entries'[j].amount = Entries[j].amount
    BY <1>1, <2>1 DEF Asked
  <2> QED BY <1>1, <2>1, <2>2, NothingAsked
<1> QED BY <1>1, <1>6, <1>7 DEF BookInv

(* A step that makes no entry of the app: what it leaves is as it was, or  *)
(* has settled.                                                            *)
LEMMA NoAskKeeps ==
  ASSUME BookInv, Entries' \in [RefundIds -> EntryRows],
         \A i \in RefundIds :
           \/ Entries'[i] = Entries[i]
           \/ ~ Entries'[i].inApp
           \/ /\ Entries[i].status = "PENDING" /\ Entries'[i].order = Entries[i].order
              /\ Entries'[i].amount = Entries[i].amount
              /\ Entries'[i].inApp = Entries[i].inApp
  PROVE  BookInv'
<1>1. ASSUME NEW o \in Orders
      PROVE  SumOf(Entries', Asked(o)') <= CapturedAmount
  <2>1. ASSUME NEW i \in RefundIds, Entries'[i].order = o, Entries'[i].inApp,
               Entries'[i].status \in {"PENDING", "PROCESSED"}
        PROVE  i \in Asked(o) /\ Entries'[i].amount = Entries[i].amount
    <3>1. CASE Entries'[i] = Entries[i]
      BY <2>1, <3>1 DEF Asked
    <3>2. CASE /\ Entries[i].status = "PENDING" /\ Entries'[i].order = Entries[i].order
               /\ Entries'[i].amount = Entries[i].amount
               /\ Entries'[i].inApp = Entries[i].inApp
      BY <2>1, <3>2 DEF Asked
    <3> QED BY <2>1, <3>1, <3>2
  <2>2. /\ Asked(o)' \subseteq Asked(o)
        /\ \A i \in Asked(o)' : Entries'[i].amount = Entries[i].amount
    BY <2>1 DEF Asked
  <2> QED BY <2>2, NothingAsked
<1> QED BY <1>1 DEF BookInv

(* One entry changes its status.                                           *)
LEMMA SettleKeeps ==
  ASSUME BookInv, NEW i \in RefundIds, NEW to \in {"PROCESSED", "FAILED"},
         Book!Settle(i, to)
  PROVE  /\ BookInv'
         /\ \A j \in RefundIds : Entries[j].status # "PENDING" => Entries'[j] = Entries[j]
<1>1. /\ Entries[i] \in EntryRows /\ Entries \in [RefundIds -> EntryRows]
      /\ Entries[i].status = "PENDING"
      /\ Entries' = [Entries EXCEPT ![i].status = to]
  BY DEF BookInv, Book!Settle
<1>2. PICK new : new = [Entries[i] EXCEPT !.status = to]
  OBVIOUS
<1>3. /\ new \in EntryRows /\ new.order = Entries[i].order
      /\ new.amount = Entries[i].amount /\ new.inApp = Entries[i].inApp
  BY <1>1, <1>2 DEF EntryRows
<1>4. Entries' = [Entries EXCEPT ![i] = new]
  BY ONLY <1>1, <1>2
<1>5. /\ Entries' \in [RefundIds -> EntryRows] /\ Entries'[i] = new
      /\ \A j \in RefundIds : j # i => Entries'[j] = Entries[j]
  BY ONLY <1>1, <1>3, <1>4
<1>6. BookInv'
  BY <1>1, <1>3, <1>5, NoAskKeeps
<1>7. ASSUME NEW j \in RefundIds, Entries[j].status # "PENDING"
      PROVE  Entries'[j] = Entries[j]
  BY ONLY <1>1, <1>5, <1>7
<1> QED BY <1>6, <1>7

(* All that is pending of an order is given back by hand.                  *)
LEMMA RecordKeeps ==
  ASSUME BookInv, NEW o \in Orders, Book!Record(o)
  PROVE  /\ BookInv'
         /\ \A j \in RefundIds : Entries[j].status # "PENDING" => Entries'[j] = Entries[j]
<1>1. ASSUME NEW i \in RefundIds
      PROVE  /\ Entries'[i] \in EntryRows
             /\ Entries[i].status # "PENDING" => Entries'[i] = Entries[i]
             /\ Entries[i].status = "PENDING" =>
                  /\ Entries'[i].order = Entries[i].order
                  /\ Entries'[i].amount = Entries[i].amount
                  /\ Entries'[i].inApp = Entries[i].inApp
  <2>1. PICK e \in EntryRows : e = Entries[i]
    BY DEF BookInv
  <2>2. Entries'[i] = IF e.order = o /\ e.status = "PENDING"
                      THEN [e EXCEPT !.status = "PROCESSED"] ELSE e
    BY <2>1, EntryOf DEF Book!Record
  <2>3. LET s == [e EXCEPT !.status = "PROCESSED"]
        IN  s \in EntryRows /\ s.order = e.order /\ s.amount = e.amount /\ s.inApp = e.inApp
    BY DEF EntryRows
  <2>4. CASE e.order = o /\ e.status = "PENDING"
    BY ONLY <2>1, <2>2, <2>3, <2>4
  <2>5. CASE ~ (e.order = o /\ e.status = "PENDING")
    BY ONLY <2>1, <2>2, <2>5
  <2> QED BY <2>4, <2>5
<1>2. Entries' \in [RefundIds -> EntryRows]
  <2>1. Entries' = [i \in RefundIds |-> Entries'[i]]
    BY DEF Entries
  <2> QED BY <1>1, <2>1
<1>3. BookInv'
  BY <1>1, <1>2, NoAskKeeps
<1> QED BY <1>1, <1>3

(* A step of the book keeps it, and what is settled.                       *)
LEMMA BookStepKeeps ==
  ASSUME BookInv, Book!BookNext
  PROVE  /\ BookInv'
         /\ \A j \in RefundIds :
              Entries[j].status \in {"PROCESSED", "FAILED"} => Entries'[j] = Entries[j]
<1>1. CapturedAmount \in Nat
  BY RefundConstants
<1>2. ASSUME NEW o \in Orders, NEW to \in AdminTargets, Book!Fulfil(o, to)
      PROVE  /\ BookInv'
             /\ \A j \in RefundIds : Entries'[j] = Entries[j]
  <2>1. Entries' = Entries
    BY <1>2 DEF Book!Fulfil
  <2>2. \A j \in RefundIds : Entries'[j] = Entries[j]
    BY <2>1
  <2>3. Entries' \in [RefundIds -> EntryRows]
    BY <2>1 DEF BookInv
  <2> QED BY <2>2, <2>3, NoAskKeeps
<1>3. ASSUME NEW o \in Orders, NEW amount \in 1 .. CapturedAmount, Book!Ask(o, amount)
      PROVE  /\ BookInv'
             /\ \A j \in RefundIds :
                  Entries[j].status # "ABSENT" => Entries'[j] = Entries[j]
  <2>1. amount \in Nat
    BY <1>1
  <2>2. BookInv'
    BY <1>3, <2>1, AskKeeps
  <2>3. Book!Enter(o, amount, TRUE)
    BY <1>3 DEF Book!Ask
  <2> QED BY <2>1, <2>2, <2>3, EnterMakes
<1>4. ASSUME NEW o \in Orders, Book!Cancel(o)
      PROVE  /\ BookInv'
             /\ \A j \in RefundIds :
                  Entries[j].status # "ABSENT" => Entries'[j] = Entries[j]
  <2>1. CASE UNCHANGED Entries
    <3>1. \A j \in RefundIds : Entries'[j] = Entries[j]
      BY <2>1
    <3>2. Entries' \in [RefundIds -> EntryRows]
      BY <2>1 DEF BookInv
    <3> QED BY <3>1, <3>2, NoAskKeeps
  <2>2. CASE Book!Enter(o, CapturedAmount, FALSE)
    <3>1. PICK i \in RefundIds :
            /\ Entries[i].status = "ABSENT"
            /\ Entries' \in [RefundIds -> EntryRows]
            /\ Entries'[i] = [status |-> "PENDING", order |-> o,
                              amount |-> CapturedAmount, inApp |-> FALSE]
            /\ \A j \in RefundIds : j # i => Entries'[j] = Entries[j]
      BY <1>1, <2>2, EnterMakes
    <3>2. ~ Entries'[i].inApp
      BY <3>1
    <3>3. BookInv'
      BY <3>1, <3>2, NoAskKeeps
    <3> QED BY <3>1, <3>3
  <2> QED BY <1>4, <2>1, <2>2 DEF Book!Cancel
<1> QED
  BY <1>2, <1>3, <1>4, RecordKeeps, SettleKeeps, EntryOf DEF Book!BookNext

LEMMA BookInitInv == Book!BookInit => BookInv
<1> SUFFICES ASSUME Book!BookInit PROVE BookInv
  OBVIOUS
<1>1. Entries = [i \in RefundIds |-> Book!Blank]
  BY EntryOf DEF Book!BookInit
<1>2. Book!Blank \in EntryRows /\ Book!Blank.status = "ABSENT"
  BY DEF Book!Blank, EntryRows
<1>3. Entries \in [RefundIds -> EntryRows]
  BY <1>1, <1>2
<1>4. ASSUME NEW o \in Orders PROVE SumOf(Entries, Asked(o)) <= CapturedAmount
  <2>1. Asked(o) = {}
    BY <1>1, <1>2 DEF Asked
  <2>2. Counted(Entries, {}) /\ Units(Entries, {}) = {}
    BY FS_EmptySet DEF Counted, Units
  <2>3. SumOf(Entries, {}) = 0
    BY <2>2, SumIsCount, FS_EmptySet
  <2> QED BY <2>1, <2>3, RefundConstants
<1> QED BY <1>3, <1>4 DEF BookInv

(* What the app asks for is the same in the table and in the book.         *)
LEMMA AskedIsInApp == BookInv => InAppWithinCaptured
<1> SUFFICES ASSUME BookInv, NEW o \in Orders
             PROVE  SumOf(refund, InApp(o)) <= CapturedAmount
  BY TotalIsSum DEF InAppWithinCaptured, InApp
<1>1. Asked(o) = InApp(o) /\ Asked(o) \in SUBSET RefundIds
  BY EntryOf DEF Asked, InApp, Reserving, RESERVING_STATUSES
<1>2. \A i \in Asked(o) : refund[i].amount = Entries[i].amount
  BY EntryOf DEF Asked
<1>3. Counted(Entries, Asked(o))
  BY <1>1, EntriesCounted DEF BookInv
<1>4. SumOf(refund, Asked(o)) = SumOf(Entries, Asked(o))
  BY <1>2, <1>3, SumKept
<1> QED BY <1>1, <1>4 DEF BookInv

(* Of any services that keep the book: what the app asks for stays within  *)
(* what was captured, and what is settled is never rewritten.              *)
THEOREM BookSuffices ==
  KeepsBook => /\ []InAppWithinCaptured
               /\ [][\A i \in RefundIds :
                       Entries[i].status \in {"PROCESSED", "FAILED"} =>
                         Entries'[i] = Entries[i]]_(Book!book)
<1>1. ASSUME BookInv, UNCHANGED Book!book PROVE BookInv'
  <2>1. Entries' = Entries
    BY <1>1 DEF Book!book
  <2>2. Entries' \in [RefundIds -> EntryRows] /\ \A i \in RefundIds : Entries'[i] = Entries[i]
    BY <1>1, <2>1 DEF BookInv
  <2> QED BY <1>1, <2>2, NoAskKeeps
<1>2. BookInv /\ [Book!BookNext]_(Book!book) => BookInv'
  BY <1>1, BookStepKeeps
<1>3. BookInv /\ [Book!BookNext]_(Book!book) =>
        [\A i \in RefundIds : Entries[i].status \in {"PROCESSED", "FAILED"} =>
                                Entries'[i] = Entries[i]]_(Book!book)
  BY BookStepKeeps
<1> QED BY <1>2, <1>3, BookInitInv, AskedIsInApp, PTL DEF KeepsBook, Book!BookSpec
=============================================================================
