------------------------ MODULE PaymentsLedgerProofs ------------------------
(* Payments implements OrderLedger: each transaction of the three capture  *)
(* paths, of expiry and of the staff is one step of the ledger or leaves   *)
(* it alone.  Captures stay, and no captured event is written off in vain. *)
EXTENDS PaymentsProofs

Taken == { o \in Orders : CapturedOf(o) # {} }
Told == { o \in Orders : Announced(o, "ORDER_PAID") }

LEMMA TypesHere ==
  ASSUME Inv
  PROVE  /\ status \in [Orders -> OrderStatus]
         /\ attempts \in [AttemptIds -> AttemptRows]
         /\ session \in [Workers -> Sessions]
  BY DEF Inv, TypeOK

(* A session that moves on is at the step it moves to.                     *)
LEMMA BecomesAt ==
  ASSUME Inv, NEW w \in Workers, NEW step,
         \/ Become(w, [session[w] EXCEPT !.step = step])
         \/ \E a : Become(w, [session[w] EXCEPT !.step = step, !.attempt = a])
  PROVE  session'[w].step = step
<1>1. session[w] \in Sessions
  BY TypesHere
<1>2. CASE Become(w, [session[w] EXCEPT !.step = step])
  <2>1. session'[w] = [session[w] EXCEPT !.step = step]
    BY <1>2, TypesHere DEF Become
  <2> QED BY ONLY <1>1, <2>1 DEF Sessions
<1>3. ASSUME NEW a, Become(w, [session[w] EXCEPT !.step = step, !.attempt = a])
      PROVE  session'[w].step = step
  <2>1. session'[w] = [session[w] EXCEPT !.step = step, !.attempt = a]
    BY <1>3, TypesHere DEF Become
  <2> QED BY ONLY <1>1, <2>1 DEF Sessions
<1> QED BY <1>2, <1>3

(* Captured rows stay as they are and no other becomes one.                *)
LEMMA SameTaken ==
  ASSUME \A b \in AttemptIds :
           /\ attempts'[b].status = "CAPTURED" <=> attempts[b].status = "CAPTURED"
           /\ attempts[b].status = "CAPTURED" => attempts'[b].order = attempts[b].order
  PROVE  Taken' = Taken
  <1>1. \A o \in Orders : CapturedOf(o)' = CapturedOf(o)
    BY DEF CapturedOf
  <1> QED BY <1>1 DEF Taken

(* One row of order o becomes a captured one.                              *)
LEMMA OneMoreTaken ==
  ASSUME Inv, NEW a \in AttemptIds, NEW o \in Orders, NEW row,
         attempts' = [attempts EXCEPT ![a] = row],
         row.status = "CAPTURED", row.order = o,
         attempts[a].status # "ABSENT" => attempts[a].order = o
  PROVE  Taken' = Taken \cup {o}
  <1>1. /\ attempts'[a] = row
        /\ \A b \in AttemptIds : b # a => attempts'[b] = attempts[b]
    BY TypesHere
  <1>2. a \in CapturedOf(o)'
    BY <1>1 DEF CapturedOf
  <1>3. \A q \in Orders : q # o => CapturedOf(q)' = CapturedOf(q)
    BY <1>1 DEF CapturedOf
  <1> QED BY <1>2, <1>3 DEF Taken

LEMMA OneMoreTold ==
  ASSUME NEW o \in Orders, NEW key, outbox' = outbox \cup {<<o, key>>}
  PROVE  Told' = IF key = "ORDER_PAID" THEN Told \cup {o} ELSE Told
  <1>1. \A q \in Orders : Announced(q, "ORDER_PAID")' <=>
                           Announced(q, "ORDER_PAID") \/ (q = o /\ key = "ORDER_PAID")
    BY DEF Announced
  <1> QED BY <1>1 DEF Told

LEMMA FailureTold ==
  ASSUME NEW o \in Orders, outbox' = outbox \cup {<<o, "PAYMENT_FAILED">>}
  PROVE  Told' = Told
  BY OneMoreTold

(* The steps of the ledger, in the terms of Payments.                      *)
LEMMA LedgerSteps ==
  /\ \A o \in Orders :
       /\ status[o] = "PENDING_PAYMENT" /\ o \notin Taken
       /\ status' = [status EXCEPT ![o] = "PAID"]
       /\ Taken' = Taken \cup {o}
       /\ Told' = Told \cup {o}
       => Ledger!LedgerNext
  /\ \A o \in Orders :
       /\ o \notin Taken
       /\ Taken' = Taken \cup {o}
       /\ Told' \in {Told, Told \cup {o}}
       /\ UNCHANGED status
       => Ledger!LedgerNext
  /\ \A o \in Orders, to \in OrderStatus :
       /\ status[o] \in OrderStatus /\ isTransitionAllowed(status[o], to)
       /\ status' = [status EXCEPT ![o] = to]
       /\ Taken' = Taken /\ Told' = Told
       => Ledger!LedgerNext
  /\ UNCHANGED status /\ Taken' = Taken /\ Told' = Told => UNCHANGED Ledger!ledger
  <1>1. ASSUME NEW o \in Orders, status[o] = "PENDING_PAYMENT", o \notin Taken,
               status' = [status EXCEPT ![o] = "PAID"],
               Taken' = Taken \cup {o}, Told' = Told \cup {o}
        PROVE  Ledger!LedgerNext
    <2>1. Ledger!Pay(o)
      BY <1>1 DEF Ledger!Pay, Taken, Told
    <2> QED BY <2>1 DEF Ledger!LedgerNext
  <1>2. ASSUME NEW o \in Orders, o \notin Taken, Taken' = Taken \cup {o},
               Told' \in {Told, Told \cup {o}}, UNCHANGED status
        PROVE  Ledger!LedgerNext
    <2>1. Ledger!TakeLate(o)
      BY <1>2 DEF Ledger!TakeLate, Taken, Told
    <2> QED BY <2>1 DEF Ledger!LedgerNext
  <1>3. ASSUME NEW o \in Orders, NEW to \in OrderStatus, status[o] \in OrderStatus,
               isTransitionAllowed(status[o], to),
               status' = [status EXCEPT ![o] = to], Taken' = Taken, Told' = Told
        PROVE  Ledger!LedgerNext
    <2>1. to \in Ledger!ORDER_STATE_TRANSITIONS[status[o]]
      BY <1>3 DEF isTransitionAllowed, ORDER_STATE_TRANSITIONS,
                  Ledger!ORDER_STATE_TRANSITIONS
    <2>2. Ledger!Move(o)
      BY <1>3, <2>1 DEF Ledger!Move, Taken, Told
    <2> QED BY <2>2 DEF Ledger!LedgerNext
  <1>4. UNCHANGED status /\ Taken' = Taken /\ Told' = Told => UNCHANGED Ledger!ledger
    BY DEF Ledger!ledger, Taken, Told
  <1> QED BY <1>1, <1>2, <1>3, <1>4

LEMMA PaidFrom ==
  ASSUME NEW from \in OrderStatus, isTransitionAllowed(from, "PAID")
  PROVE  from = "PENDING_PAYMENT"
  BY DEF OrderStatus, isTransitionAllowed, ORDER_STATE_TRANSITIONS

LEMMA QuietStep ==
  ASSUME UNCHANGED <<status, attempts, outbox>> PROVE UNCHANGED Ledger!ledger
  <1>1. Taken' = Taken
    BY SameTaken
  <1>2. Told' = Told
    BY DEF Told, Announced
  <1> QED BY <1>1, <1>2, LedgerSteps

-----------------------------------------------------------------------------
(* One lemma per step that is not quiet.                                   *)

LEMMA InitiateReadLedger ==
  ASSUME Inv, NEW w \in Workers, NEW o \in Orders, InitiateRead(w, o)
  PROVE  Ledger!LedgerNext \/ UNCHANGED Ledger!ledger
  <1>1. /\ UNCHANGED <<attempts, outbox>> /\ status[o] \in Unpaid
        /\ status' = [status EXCEPT ![o] = "PENDING_PAYMENT"]
    BY DEF InitiateRead
  <1>2. CASE status[o] = "PENDING_PAYMENT"
    <2>1. UNCHANGED status
      BY <1>1, <1>2, TypesHere
    <2> QED BY <1>1, <2>1, QuietStep
  <1>3. CASE status[o] = "PAYMENT_FAILED"
    <2>1. /\ isTransitionAllowed(status[o], "PENDING_PAYMENT")
          /\ status[o] \in OrderStatus /\ "PENDING_PAYMENT" \in OrderStatus
      BY <1>3 DEF isTransitionAllowed, ORDER_STATE_TRANSITIONS, OrderStatus
    <2>2. Taken' = Taken /\ Told' = Told
      BY <1>1, SameTaken DEF Told, Announced
    <2> QED BY <1>1, <2>1, <2>2, LedgerSteps
  <1> QED BY <1>1, <1>2, <1>3 DEF Unpaid

LEMMA InitiateOpenLedger ==
  ASSUME Inv, NEW w \in Workers, InitiateOpen(w)
  PROVE  UNCHANGED Ledger!ledger
  <1>1. PICK a \in AttemptIds :
          /\ attempts[a].status = "ABSENT"
          /\ Row(a, session[w].order, session[w].rzp, "INITIATED", None)
    BY DEF InitiateOpen, Free
  <1>2. UNCHANGED <<status, outbox>>
    BY DEF InitiateOpen
  <1>3. Taken' = Taken
    <2>1. \A b \in AttemptIds :
            /\ attempts'[b].status = "CAPTURED" <=> attempts[b].status = "CAPTURED"
            /\ attempts[b].status = "CAPTURED" => attempts'[b].order = attempts[b].order
      BY <1>1, TypesHere DEF Row
    <2> QED BY <2>1, SameTaken
  <1>4. Told' = Told
    BY <1>2 DEF Told, Announced
  <1> QED BY <1>2, <1>3, <1>4, LedgerSteps

LEMMA VerifyCommitLedger ==
  ASSUME Inv, NEW w \in Workers, VerifyCommit(w)
  PROVE  Ledger!LedgerNext \/ UNCHANGED Ledger!ledger
  <1> DEFINE s == session[w]
             o == s.order
             a == s.attempt
             row == [attempts[a] EXCEPT !.status = "CAPTURED", !.pay = s.payment]
  <1>1. s \in Sessions /\ OnPayment(s) /\ OnAttempt(s)
    BY DEF VerifyCommit, At, Inv, TypeOK, SessionsOK, SessionOK
  <1>2. /\ o \in Orders /\ a \in AttemptIds /\ attempts[a] \in AttemptRows
        /\ attempts[a].order = o /\ attempts[a].status # "CAPTURED"
        /\ s.seen \in OrderStatus
    BY <1>1, TypesHere
       DEF OnPayment, OnAttempt, Sessions, VerifyCommit, VerifyCanCommit, Wins
  <1>3. /\ attempts' = [attempts EXCEPT ![a] = row]
        /\ row.status = "CAPTURED" /\ row.order = o
    BY <1>2, TypesHere DEF VerifyCommit, AttemptRows
  <1>4. o \notin Taken
    BY <1>2 DEF VerifyCommit, VerifyCanCommit, CapturedElsewhere, CapturedOf, Taken
  <1>5. s.seen = "PENDING_PAYMENT"
    BY <1>2, PaidFrom DEF VerifyCommit, VerifyCanCommit
  <1>6. /\ outbox' = outbox \cup {<<o, "ORDER_PAID">>}
        /\ status' = IF status[o] = s.seen THEN [status EXCEPT ![o] = "PAID"]
                     ELSE status
    BY DEF VerifyCommit, Insert, Transition, CasSucceeds
  <1> HIDE DEF row, a, o, s
  <1>7. Taken' = Taken \cup {o}
    BY <1>2, <1>3, OneMoreTaken
  <1>8. Told' = Told \cup {o}
    BY <1>2, <1>6, OneMoreTold
  <1> QED BY <1>2, <1>4, <1>5, <1>6, <1>7, <1>8, LedgerSteps

LEMMA ReconcileSettleLedger ==
  ASSUME Inv, NEW w \in Workers, ReconcileSettle(w)
  PROVE  Ledger!LedgerNext \/ UNCHANGED Ledger!ledger
  <1> DEFINE s == session[w]
             o == s.order
  <1>1. o \in Orders
    BY DEF ReconcileSettle, At, Inv, SessionsOK, SessionOK, OnPayment
  <1>2. PICK a \in AttemptIds :
          /\ IF Reusable(s) # {} THEN a = Newest(Reusable(s)) ELSE Free(a)
          /\ \/ /\ StillOwed(o)
                /\ Row(a, o, s.rzp, "CAPTURED", s.payment)
                /\ status' = [status EXCEPT ![o] = "PAID"]
                /\ Insert(o, "ORDER_PAID")
             \/ UNCHANGED <<attempts, status, outbox>>
    BY DEF ReconcileSettle
  <1>3. CASE UNCHANGED <<attempts, status, outbox>>
    BY <1>3, QuietStep
  <1>4. CASE /\ StillOwed(o)
             /\ Row(a, o, s.rzp, "CAPTURED", s.payment)
             /\ status' = [status EXCEPT ![o] = "PAID"]
             /\ Insert(o, "ORDER_PAID")
    <2> DEFINE row == [order |-> o, rzp |-> s.rzp, status |-> "CAPTURED",
                       pay |-> s.payment]
    <2>1. attempts[a].status # "ABSENT" => attempts[a].order = o
      <3>1. CASE Reusable(s) # {}
        <4>1. a \in Reusable(s)
          BY <1>2, <3>1, NewestIn DEF Reusable
        <4> QED BY <4>1 DEF Reusable
      <3>2. CASE Reusable(s) = {}
        BY <1>2, <3>2 DEF Free
      <3> QED BY <3>1, <3>2
    <2>2. /\ attempts' = [attempts EXCEPT ![a] = row]
          /\ row.status = "CAPTURED" /\ row.order = o
          /\ outbox' = outbox \cup {<<o, "ORDER_PAID">>}
          /\ status[o] = "PENDING_PAYMENT" /\ o \notin Taken
      BY <1>4 DEF Row, Insert, StillOwed, Taken
    <2> HIDE DEF row, o
    <2>3. Taken' = Taken \cup {o}
      BY <1>1, <2>1, <2>2, OneMoreTaken
    <2>4. Told' = Told \cup {o}
      BY <1>1, <2>2, OneMoreTold
    <2> QED BY <1>1, <1>4, <2>2, <2>3, <2>4, LedgerSteps
  <1> QED BY <1>2, <1>3, <1>4

LEMMA ReconcileExpireLedger ==
  ASSUME Inv, NEW w \in Workers, ReconcileExpire(w)
  PROVE  Ledger!LedgerNext \/ UNCHANGED Ledger!ledger
  <1> DEFINE o == session[w].order
  <1>1. o \in Orders
    BY DEF ReconcileExpire, At, Inv, SessionsOK, SessionOK
  <1>2. CASE UNCHANGED <<attempts, status, outbox>>
    BY <1>2, QuietStep
  <1>3. CASE /\ StillOwed(o)
             /\ attempts' = [b \in AttemptIds |->
                  IF attempts[b].order = o /\ attempts[b].status = "INITIATED"
                  THEN [attempts[b] EXCEPT !.status = "ABANDONED"] ELSE attempts[b]]
             /\ status' = [status EXCEPT ![o] = "PAYMENT_FAILED"]
             /\ Insert(o, "PAYMENT_FAILED")
    <2>1. Taken' = Taken
      <3>1. \A b \in AttemptIds :
              /\ attempts'[b].status = "CAPTURED" <=> attempts[b].status = "CAPTURED"
              /\ attempts[b].status = "CAPTURED" =>
                   attempts'[b].order = attempts[b].order
        <4> SUFFICES ASSUME NEW b \in AttemptIds
                     PROVE  /\ attempts'[b].status = "CAPTURED" <=> attempts[b].status = "CAPTURED"
                            /\ attempts[b].status = "CAPTURED" =>
                                 attempts'[b].order = attempts[b].order
          OBVIOUS
        <4>1. attempts[b] \in AttemptRows
          BY TypesHere
        <4>2. CASE attempts'[b] = attempts[b]
          BY <4>2
        <4>3. CASE /\ attempts[b].status = "INITIATED"
                   /\ attempts'[b] = [attempts[b] EXCEPT !.status = "ABANDONED"]
          BY ONLY <4>1, <4>3 DEF AttemptRows
        <4>4. attempts'[b] = IF attempts[b].order = o /\ attempts[b].status = "INITIATED"
                             THEN [attempts[b] EXCEPT !.status = "ABANDONED"]
                             ELSE attempts[b]
          BY <1>3
        <4> QED BY ONLY <4>2, <4>3, <4>4
      <3> QED BY <3>1, SameTaken
    <2>2. Told' = Told
      <3>1. outbox' = outbox \cup {<<o, "PAYMENT_FAILED">>}
        BY <1>3 DEF Insert
      <3> HIDE DEF o
      <3> QED BY ONLY <1>1, <3>1, FailureTold
    <2>3. /\ isTransitionAllowed(status[o], "PAYMENT_FAILED")
          /\ status[o] \in OrderStatus /\ "PAYMENT_FAILED" \in OrderStatus
      BY <1>3 DEF StillOwed, isTransitionAllowed, ORDER_STATE_TRANSITIONS, OrderStatus
    <2> HIDE DEF o
    <2> QED BY <1>1, <1>3, <2>1, <2>2, <2>3, LedgerSteps
  <1> QED BY <1>2, <1>3 DEF ReconcileExpire

LEMMA AdminTransitionLedger ==
  ASSUME Inv, NEW o \in Orders, NEW to \in AdminTargets, AdminTransition(o, to)
  PROVE  Ledger!LedgerNext
  <1>1. /\ status[o] \in OrderStatus /\ to \in OrderStatus /\ to # "ORDER_PAID"
        /\ isTransitionAllowed(status[o], to)
        /\ status' = [status EXCEPT ![o] = to] /\ UNCHANGED attempts
        /\ outbox' = outbox \cup {<<o, to>>}
    BY TypesHere, ConstantsAssumption DEF AdminTransition, Insert, OrderStatus
  <1>2. Taken' = Taken
    BY <1>1, SameTaken
  <1>3. Told' = Told
    BY <1>1, OneMoreTold
  <1> QED BY <1>1, <1>2, <1>3, LedgerSteps

LEMMA WebhookCommitLedger ==
  ASSUME Inv, NEW w \in Workers, WebhookCommit(w)
  PROVE  Ledger!LedgerNext \/ UNCHANGED Ledger!ledger
  <1> DEFINE s == session[w]
             o == s.order
  <1>1. /\ s \in Sessions /\ OnPayment(s) /\ o \in Orders
        /\ OnAttempt(s) \/ (s.attempt = None /\ s.stamp)
        /\ s.type \in {"captured", "failed"} /\ s.seen \in OrderStatus
    BY DEF WebhookCommit, At, Inv, TypeOK, SessionsOK, SessionOK, OnPayment, Sessions
  <1>2. PICK a \in AttemptIds :
          /\ IsTarget(s, a)
          /\ ~ Mismatch(s) /\ ~ UniqueViolation(s, a) /\ ~ IllegalTransition(s, a)
          /\ attempts' = [attempts EXCEPT ![a] = Applied(s, a)]
          /\ IF Moves(s, a)
             THEN /\ status' = [status EXCEPT ![o] = Goal(s.type)]
                  /\ Insert(o, Key(s.type))
             ELSE UNCHANGED <<status, outbox>>
    BY DEF WebhookCommit
  <1> DEFINE row == Applied(s, a)
  <1>3. GoodRow(a, row, o)
    BY <1>1, <1>2, WebhookRow
  <1>4. /\ row.order = o
        /\ row.status = IF Wins(s.type, a)
                        THEN IF s.type = "captured" THEN "CAPTURED" ELSE "FAILED"
                        ELSE attempts[a].status
        /\ attempts[a].status # "ABSENT" => attempts[a].order = o
    BY <1>3 DEF Applied, GoodRow
  <1>5. CASE s.type = "captured" /\ Wins(s.type, a)
    <2>1. row.status = "CAPTURED" /\ attempts[a].status # "CAPTURED"
      BY <1>4, <1>5 DEF Wins
    <2>2. o \notin Taken
      BY <1>2, <1>5, <2>1 DEF Mismatch, UniqueViolation, CapturedElsewhere,
                              CapturedOf, Taken
    <2>3. Taken' = Taken \cup {o}
      <3> HIDE DEF row, o, s
      <3> QED BY <1>1, <1>2, <1>4, <2>1, OneMoreTaken DEF row
    <2>4. CASE Moves(s, a)
      <3>1. /\ s.seen = "PENDING_PAYMENT" /\ status[o] = s.seen
            /\ status' = [status EXCEPT ![o] = "PAID"]
            /\ outbox' = outbox \cup {<<o, "ORDER_PAID">>}
        BY <1>1, <1>2, <1>5, <2>4, PaidFrom
           DEF Moves, CasSucceeds, Goal, Key, Insert
      <3> HIDE DEF row, o, s
      <3>2. Told' = Told \cup {o}
        BY <1>1, <3>1, OneMoreTold
      <3> QED BY <1>1, <2>2, <2>3, <3>1, <3>2, LedgerSteps
    <2>5. CASE ~ Moves(s, a)
      <3>1. UNCHANGED status /\ Told' = Told
        BY <1>2, <2>5 DEF Told, Announced
      <3> HIDE DEF row, o, s
      <3> QED BY <1>1, <2>2, <2>3, <3>1, LedgerSteps
    <2> QED BY <2>4, <2>5
  <1>6. CASE ~ (s.type = "captured" /\ Wins(s.type, a))
    <2>1. row.status = "CAPTURED" <=> attempts[a].status = "CAPTURED"
      BY <1>1, <1>4, <1>6 DEF Wins
    <2>2. Taken' = Taken
      <3>1. \A b \in AttemptIds :
              /\ attempts'[b].status = "CAPTURED" <=> attempts[b].status = "CAPTURED"
              /\ attempts[b].status = "CAPTURED" =>
                   attempts'[b].order = attempts[b].order
        <4> HIDE DEF row
        <4> QED BY <1>2, <1>4, <2>1, TypesHere DEF row
      <3> QED BY <3>1, SameTaken
    <2>3. CASE Moves(s, a)
      <3>1. /\ s.type = "failed" /\ status[o] = s.seen
            /\ isTransitionAllowed(status[o], "PAYMENT_FAILED")
            /\ status' = [status EXCEPT ![o] = "PAYMENT_FAILED"]
            /\ outbox' = outbox \cup {<<o, "PAYMENT_FAILED">>}
            /\ status[o] \in OrderStatus /\ "PAYMENT_FAILED" \in OrderStatus
        <4>1. /\ s.type = "failed" /\ status[o] = s.seen
              /\ isTransitionAllowed(status[o], "PAYMENT_FAILED")
          <5> HIDE DEF s, o, row
          <5>1. s.type # "captured" /\ status[s.order] = s.seen
                /\ isTransitionAllowed(s.seen, "PAYMENT_FAILED")
            BY ONLY <1>6, <2>3 DEF Moves, CasSucceeds, Goal
          <5>2. s.type \in {"captured", "failed"} /\ o = s.order
            BY <1>1 DEF s, o
          <5> QED BY ONLY <5>1, <5>2
        <4>2. /\ status' = [status EXCEPT ![o] = "PAYMENT_FAILED"]
              /\ outbox' = outbox \cup {<<o, "PAYMENT_FAILED">>}
          BY <1>2, <2>3, <4>1 DEF Goal, Key, Insert
        <4>3. "PAYMENT_FAILED" \in OrderStatus
          BY DEF OrderStatus
        <4>4. status[o] \in OrderStatus
          BY <1>1, TypesHere
        <4> QED BY <4>1, <4>2, <4>3, <4>4
      <3> HIDE DEF row, o, s
      <3>2. Told' = Told
        BY ONLY <1>1, <3>1, FailureTold
      <3> QED BY <1>1, <2>2, <3>1, <3>2, LedgerSteps
    <2>4. CASE ~ Moves(s, a)
      <3>1. UNCHANGED status /\ Told' = Told
        BY <1>2, <2>4 DEF Told, Announced
      <3> QED BY <2>2, <3>1, LedgerSteps
    <2> QED BY <2>3, <2>4
  <1> QED BY <1>5, <1>6

-----------------------------------------------------------------------------
LEMMA InitLedger == Init => Ledger!LedgerInit
  BY DEF Init, Ledger!LedgerInit, CapturedOf, NoAttempt, Announced

LEMMA NextLedger ==
  ASSUME Inv, [Next]_vars
  PROVE  [Ledger!LedgerNext]_(Ledger!ledger)
  <1> DEFINE Goal0 == Ledger!LedgerNext \/ UNCHANGED Ledger!ledger
  <1>1. ASSUME UNCHANGED <<status, attempts, outbox>> PROVE Goal0
    BY <1>1, QuietStep
  <1>2. ASSUME NEW w \in Workers, Handler(w) PROVE Goal0
    <2>1. ASSUME NEW o \in Orders, InitiateRead(w, o) PROVE Goal0
      BY <2>1, InitiateReadLedger
    <2>2. CASE InitiateOpen(w)
      BY <2>2, InitiateOpenLedger
    <2>3. CASE VerifyCommit(w)
      BY <2>3, VerifyCommitLedger
    <2>4. CASE WebhookCommit(w)
      BY <2>4, WebhookCommitLedger
    <2>5. CASE ReconcileSettle(w)
      BY <2>5, ReconcileSettleLedger
    <2>6. CASE ReconcileExpire(w)
      BY <2>6, ReconcileExpireLedger
    <2>7. ASSUME \/ \E o \in Orders : ReconcileRead(w, o)
                 \/ InitiateAssociate(w)
                 \/ \E p \in Payments : VerifyRead(w, p)
                 \/ VerifyLookup(w) \/ VerifyFind(w) \/ VerifyRollback(w)
                 \/ \E e \in EventIds : WebhookRead(w, e) \/ WebhookMiss(w, e)
                 \/ WebhookTarget(w) \/ WebhookRollback(w) \/ WebhookReport(w)
                 \/ Abandon(w)
          PROVE  UNCHANGED <<status, attempts, outbox>>
      BY <2>7 DEF ReconcileRead, InitiateAssociate, VerifyRead, VerifyLookup,
                  VerifyFind, VerifyRollback, WebhookRead, WebhookMiss, WebhookTarget,
                  WebhookRollback, WebhookReport, Abandon, db
    <2> HIDE DEF Goal0
    <2> QED BY <1>1, <1>2, <2>1, <2>2, <2>3, <2>4, <2>5, <2>6, <2>7 DEF Handler
  <1>3. ASSUME NEW o \in Orders, NEW to \in AdminTargets, AdminTransition(o, to)
        PROVE  Goal0
    BY <1>3, AdminTransitionLedger
  <1>4. ASSUME \/ \E p \in Payments, r \in ProviderOrders : CustomerPays(p, r)
               \/ \E p \in Payments : ProviderCaptures(p)
               \/ \E e \in EventIds : ReceiveWebhook(e)
               \/ \E o \in Orders : GrowOld(o)
               \/ UNCHANGED vars
        PROVE  UNCHANGED <<status, attempts, outbox>>
    BY <1>4 DEF CustomerPays, ProviderCaptures, ReceiveWebhook, GrowOld, vars, db
  <1>5. Goal0
    <2> HIDE DEF Goal0
    <2> QED BY <1>1, <1>2, <1>3, <1>4 DEF Next, World
  <1> QED BY <1>5

(* Whatever the interleaving of callbacks, webhooks, reconciliation and    *)
(* staff, orders and captures move as the ledger says they may.            *)
THEOREM ImplementsLedger == Spec => KeepsLedger
  BY InvHolds, InitLedger, NextLedger, PTL DEF Spec, KeepsLedger, Ledger!LedgerSpec

(* No step of any handler takes an attempt out of CAPTURED.                *)
THEOREM CaptureIsFinal == Spec => CapturedForGood
  <1> DEFINE Stays == \A a \in AttemptIds : attempts[a].status = "CAPTURED" =>
                                             attempts'[a].status = "CAPTURED"
  <1>1. ASSUME Inv, Next PROVE Stays
    <2> USE TypesHere
    <2>1. ASSUME UNCHANGED attempts PROVE Stays
      BY <2>1
    <2>2. ASSUME NEW w \in Workers, InitiateOpen(w) PROVE Stays
      <3>1. PICK a \in AttemptIds :
              attempts[a].status = "ABSENT"
              /\ Row(a, session[w].order, session[w].rzp, "INITIATED", None)
        BY <2>2 DEF InitiateOpen, Free
      <3> QED BY <1>1, <3>1 DEF Row
    <2>3. ASSUME NEW w \in Workers, VerifyCommit(w) PROVE Stays
      BY <1>1, <2>3 DEF VerifyCommit, AttemptRows
    <2>4. ASSUME NEW w \in Workers, WebhookCommit(w) PROVE Stays
      <3>1. PICK a \in AttemptIds :
              attempts' = [attempts EXCEPT ![a] = Applied(session[w], a)]
        BY <2>4 DEF WebhookCommit
      <3>2. attempts[a].status = "CAPTURED" =>
              Applied(session[w], a).status = "CAPTURED"
        BY DEF Applied, Wins
      <3> QED BY <1>1, <3>1, <3>2
    <2>5. ASSUME NEW w \in Workers, ReconcileSettle(w) PROVE Stays
      BY <1>1, <2>5 DEF ReconcileSettle, Row
    <2>6. ASSUME NEW w \in Workers, ReconcileExpire(w) PROVE Stays
      BY <1>1, <2>6 DEF ReconcileExpire
    <2>7. ASSUME NEW w \in Workers,
                 \/ \E o \in Orders : InitiateRead(w, o) \/ ReconcileRead(w, o)
                 \/ InitiateAssociate(w)
                 \/ \E p \in Payments : VerifyRead(w, p)
                 \/ VerifyLookup(w) \/ VerifyFind(w) \/ VerifyRollback(w)
                 \/ \E e \in EventIds : WebhookRead(w, e) \/ WebhookMiss(w, e)
                 \/ WebhookTarget(w) \/ WebhookRollback(w) \/ WebhookReport(w)
                 \/ Abandon(w)
          PROVE  UNCHANGED attempts
      BY <2>7 DEF InitiateRead, ReconcileRead, InitiateAssociate, VerifyRead,
                  VerifyLookup, VerifyFind, VerifyRollback, WebhookRead, WebhookMiss,
                  WebhookTarget, WebhookRollback, WebhookReport, Abandon, db
    <2>8. World => UNCHANGED attempts
      BY DEF World, AdminTransition, CustomerPays, ProviderCaptures, ReceiveWebhook, GrowOld, db
    <2> HIDE DEF Stays
    <2> QED BY <1>1, <2>1, <2>2, <2>3, <2>4, <2>5, <2>6, <2>7, <2>8 DEF Next, Handler
  <1>2. Inv /\ [Next]_vars => [Stays]_vars
    BY <1>1
  <1> QED BY InvHolds, <1>2, PTL DEF Spec, CapturedForGood

-----------------------------------------------------------------------------
(* No captured event is lost to a rolled-back race.  What the write-off of *)
(* a unique violation rests on: the row that was in the way is a captured  *)
(* one of the same order.                                                  *)

(* An attempt carrying a payment that Razorpay authorized is captured.     *)
AcceptedRows ==
  \A a \in AttemptIds :
    attempts[a].pay # None /\ payment[attempts[a].pay].state \in {"authorized", "captured"}
      => attempts[a].status = "CAPTURED"

(* Only what Razorpay reported is stored, and only that is being handled.  *)
StoredIsEmitted == \A e \in EventIds : event[e].status # "ABSENT" => Emitted(e)

HandledEvent(s) == <<s.type, s.payment>>

HandledIsEmitted ==
  \A w \in Workers : session[w].step \in {"target", "apply", "report"} =>
                      Emitted(HandledEvent(session[w]))

Recorded(p) ==
  payment[p].state = "captured" =>
    \A o \in Orders : rzpOrder[o] = payment[p].rzp => HasCapture(o)

VerdictsRecorded ==
  \A w \in Workers :
    /\ session[w].step = "report" /\ session[w].type = "captured"
    /\ session[w].result = "PROCESSED"
    => Recorded(session[w].payment)

ProcessedRecorded ==
  \A p \in Payments : event[<<"captured", p>>].status = "PROCESSED" => Recorded(p)

RecordInv == /\ AcceptedRows /\ StoredIsEmitted /\ HandledIsEmitted
             /\ VerdictsRecorded /\ ProcessedRecorded

(* A ledger step never gives a captured order up.                          *)
LEMMA CaptureStays ==
  ASSUME Inv, [Next]_vars, NEW o \in Orders, HasCapture(o)
  PROVE  HasCapture(o)'
  <1>1. o \in Taken
    BY DEF Taken, HasCapture, CapturedOf
  <1>2. Taken \subseteq Taken'
    BY NextLedger
       DEF Ledger!LedgerNext, Ledger!Pay, Ledger!TakeLate, Ledger!Move,
           Ledger!ledger, Taken, Told
  <1> QED BY <1>1, <1>2 DEF Taken, HasCapture, CapturedOf

(* A payment keeps its Razorpay order, and its state only moves forward.   *)
LEMMA PaymentStays ==
  ASSUME Inv, [Next]_vars, NEW p \in Payments, payment[p].state # "none"
  PROVE  /\ payment'[p].rzp = payment[p].rzp
         /\ \/ payment'[p].state = payment[p].state
            \/ payment[p].state = "authorized" /\ payment'[p].state = "captured"
            \/ payment[p].state = "failed" /\ payment'[p].state = "late"
  <1>1. payment \in [Payments -> [state : PaymentStates,
                                  rzp : ProviderOrders \cup {None}]]
    BY DEF Inv, TypeOK
  <1>2. ASSUME NEW q \in Payments, NEW r \in ProviderOrders, CustomerPays(q, r)
        PROVE  payment'[p] = payment[p]
    BY <1>1, <1>2 DEF CustomerPays
  <1>3. ASSUME NEW q \in Payments, ProviderCaptures(q)
        PROVE  /\ payment'[p].rzp = payment[p].rzp
               /\ \/ payment'[p].state = payment[p].state
                  \/ payment[p].state = "authorized" /\ payment'[p].state = "captured"
                  \/ payment[p].state = "failed" /\ payment'[p].state = "late"
    BY <1>1, <1>3 DEF ProviderCaptures
  <1>4. ASSUME NEW w \in Workers, Handler(w) PROVE UNCHANGED payment
    BY <1>4 DEF Handler, InitiateRead, InitiateAssociate, InitiateOpen, VerifyRead,
                VerifyLookup, VerifyFind, VerifyCommit, VerifyRollback, WebhookRead, WebhookMiss,
                WebhookTarget, WebhookCommit, WebhookRollback, WebhookReport,
                ReconcileRead, ReconcileSettle, ReconcileExpire, Abandon
  <1>5. ASSUME \/ \E o \in Orders, to \in AdminTargets : AdminTransition(o, to)
               \/ \E e \in EventIds : ReceiveWebhook(e)
               \/ \E o \in Orders : GrowOld(o)
               \/ UNCHANGED vars
        PROVE  UNCHANGED payment
    BY <1>5 DEF AdminTransition, ReceiveWebhook, GrowOld, vars
  <1> QED BY <1>2, <1>3, <1>4, <1>5 DEF Next, World

LEMMA EmittedStays ==
  ASSUME Inv, [Next]_vars, NEW e \in EventIds, Emitted(e)
  PROVE  Emitted(e)'
  <1>1. e[2] \in Payments
    BY DEF EventIds
  <1>2. payment[e[2]].state # "none"
    BY DEF Emitted
  <1> QED BY <1>1, <1>2, PaymentStays DEF Emitted

(* No order is bound to the Razorpay order of a payment later than it.     *)
LEMMA BindingStays ==
  ASSUME Inv, [Next]_vars, NEW o \in Orders, NEW p \in Payments,
         payment[p].state # "none", rzpOrder'[o] = payment[p].rzp
  PROVE  rzpOrder[o] = payment[p].rzp
  <1>1. ASSUME NEW w \in Workers, InitiateAssociate(w)
        PROVE  rzpOrder[o] = payment[p].rzp
    <2> DEFINE s == session[w]
    <2>1. s.order \in Orders /\ \A q \in Orders : rzpOrder[q] # s.rzp
      BY <1>1 DEF InitiateAssociate, At, Inv, SessionsOK, SessionOK
    <2>2. rzpOrder \in [Orders -> ProviderOrders \cup {None}]
      BY DEF Inv, TypeOK
    <2>3. rzpOrder'[o] \in {rzpOrder[o], s.rzp}
      BY <1>1, <2>1, <2>2 DEF InitiateAssociate, Associated
    <2>4. payment[p].rzp # s.rzp
      BY <2>1 DEF Inv, Binding
    <2> QED BY <2>3, <2>4
  <1>2. ASSUME NEW w \in Workers, Handler(w), ~ InitiateAssociate(w)
        PROVE  UNCHANGED rzpOrder
    BY <1>2 DEF Handler, InitiateRead, InitiateOpen, VerifyRead, VerifyLookup,
                VerifyFind, VerifyCommit, VerifyRollback, WebhookRead, WebhookMiss,
                WebhookTarget, WebhookCommit, WebhookRollback, WebhookReport,
                ReconcileRead, ReconcileSettle, ReconcileExpire, Abandon, db
  <1>3. World \/ UNCHANGED vars => UNCHANGED rzpOrder
    BY DEF World, AdminTransition, CustomerPays, ProviderCaptures, ReceiveWebhook,
           GrowOld, vars, db
  <1> QED BY <1>1, <1>2, <1>3 DEF Next

LEMMA RecordedStays ==
  ASSUME Inv, [Next]_vars, NEW p \in Payments, Recorded(p), Emitted(<<"captured", p>>)
  PROVE  Recorded(p)'
  <1> SUFFICES ASSUME payment'[p].state = "captured",
                      NEW o \in Orders, rzpOrder'[o] = payment'[p].rzp
               PROVE  HasCapture(o)'
    BY DEF Recorded
  <1>1. payment[p].state \in {"captured", "late"}
    BY DEF Emitted
  <1>2. payment[p].state = "captured" /\ payment'[p].rzp = payment[p].rzp
    BY <1>1, PaymentStays
  <1>3. rzpOrder[o] = payment[p].rzp
    BY <1>2, BindingStays
  <1> QED BY <1>2, <1>3, CaptureStays DEF Recorded

(* The order a handler works on is the only one of its payment.            *)
LEMMA RecordedByOrder ==
  ASSUME Inv, NEW s, OnPayment(s), HasCapture(s.order)
  PROVE  Recorded(s.payment)
  BY DEF Recorded, OnPayment, Inv, Binding

-----------------------------------------------------------------------------
(* The two transactions that settle a captured event.                      *)

LEMMA AppliedIsCaptured ==
  ASSUME Inv, RecordInv, NEW w \in Workers, WebhookCommit(w),
         session[w].type = "captured", NEW o, o = session[w].order
  PROVE  HasCapture(o)'
  <1> DEFINE s == session[w]
  <1>1. PICK a \in AttemptIds : attempts' = [attempts EXCEPT ![a] = Applied(s, a)]
    BY DEF WebhookCommit
  <1>2. Applied(s, a).order = o /\ Applied(s, a).status = "CAPTURED"
    BY DEF Applied, Wins
  <1>3. attempts'[a] = Applied(s, a)
    BY <1>1, TypesHere
  <1> QED BY <1>2, <1>3 DEF HasCapture

(* The index that refused a captured event protects a captured attempt.    *)
LEMMA RefusalIsRecorded ==
  ASSUME Inv, RecordInv, NEW w \in Workers, At(w, "apply"),
         session[w].type = "captured",
         NEW a \in AttemptIds, UniqueViolation(session[w], a)
  PROVE  Recorded(session[w].payment)
  <1> DEFINE s == session[w]
             p == s.payment
  <1> SUFFICES ASSUME payment[p].state = "captured" PROVE Recorded(p)
    BY DEF Recorded
  <1>1. OnPayment(s) /\ p \in Payments /\ s.order \in Orders
    BY DEF At, Inv, SessionsOK, SessionOK, OnPayment
  <1>2. p # None
    BY <1>1, ConstantsAssumption
  <1>3. CASE PaymentIdTaken(a, p)
    <2>1. PICK b \in WithPayment(p) : b # a
      BY <1>3 DEF PaymentIdTaken
    <2>2. b \in AttemptIds /\ attempts[b].order = s.order
      BY <1>1, <2>1, RowsOfPayment
    <2>3. attempts[b].status = "CAPTURED"
      BY <1>2, <2>1, <2>2 DEF RecordInv, AcceptedRows, WithPayment
    <2>4. HasCapture(s.order)
      BY <2>2, <2>3 DEF HasCapture
    <2> QED BY <1>1, <2>4, RecordedByOrder
  <1>4. CASE CapturedElsewhere(s.order, a)
    <2>1. HasCapture(s.order)
      BY <1>4 DEF CapturedElsewhere, CapturedOf, HasCapture
    <2> QED BY <1>1, <2>1, RecordedByOrder
  <1>5. CASE Announced(s.order, "ORDER_PAID")
    <2>1. HasCapture(s.order)
      BY <1>1, <1>5 DEF Inv, ToldHasCapture
    <2> QED BY <1>1, <2>1, RecordedByOrder
  <1> QED BY <1>3, <1>4, <1>5 DEF UniqueViolation, StampConflict, Key

-----------------------------------------------------------------------------
(* The rows: who writes a payment id, and with which status.               *)

LEMMA AcceptedRowsHandler ==
  ASSUME Inv, RecordInv, NEW w \in Workers, Handler(w)
  PROVE  AcceptedRows'
  <1> DEFINE Accepted(p) == payment[p].state \in {"authorized", "captured"}
             Kept(b) == attempts'[b].pay # None /\ Accepted(attempts'[b].pay)
                          => attempts'[b].status = "CAPTURED"
  <1>0. \A b \in AttemptIds : attempts[b].pay # None /\ Accepted(attempts[b].pay)
                               => attempts[b].status = "CAPTURED"
    BY DEF RecordInv, AcceptedRows
  <1>1. UNCHANGED payment
    BY DEF Handler, InitiateRead, InitiateAssociate, InitiateOpen, VerifyRead,
           VerifyLookup, VerifyFind, VerifyCommit, VerifyRollback, WebhookRead, WebhookMiss,
           WebhookTarget, WebhookCommit, WebhookRollback, WebhookReport,
           ReconcileRead, ReconcileSettle, ReconcileExpire, Abandon
  <1> SUFFICES ASSUME NEW b \in AttemptIds PROVE Kept(b)
    BY <1>1 DEF AcceptedRows
  <1> USE TypesHere
  <1>2. ASSUME UNCHANGED attempts PROVE Kept(b)
    BY <1>0, <1>2
  <1>3. CASE InitiateOpen(w)
    <2>1. PICK a \in AttemptIds :
            Row(a, session[w].order, session[w].rzp, "INITIATED", None)
      BY <1>3 DEF InitiateOpen, Free
    <2>2. attempts'[b] = attempts[b] \/ attempts'[b].pay = None
      BY <2>1 DEF Row
    <2> QED BY <1>0, <2>2
  <1>4. CASE VerifyCommit(w)
    <2>1. attempts'[b] = attempts[b] \/ attempts'[b].status = "CAPTURED"
      BY <1>4 DEF VerifyCommit, AttemptRows
    <2> QED BY <1>0, <2>1
  <1>5. CASE ReconcileSettle(w)
    <2>1. attempts'[b] = attempts[b] \/ attempts'[b].status = "CAPTURED"
      BY <1>5 DEF ReconcileSettle, Row
    <2> QED BY <1>0, <2>1
  <1>6. CASE ReconcileExpire(w)
    <2>1. \/ attempts'[b] = attempts[b]
          \/ attempts[b].status = "INITIATED" /\ attempts'[b].pay = attempts[b].pay
      BY <1>6 DEF ReconcileExpire, AttemptRows
    <2> QED BY <1>0, <2>1
  <1>7. CASE WebhookCommit(w)
    <2> DEFINE s == session[w]
    <2>1. PICK a \in AttemptIds : attempts' = [attempts EXCEPT ![a] = Applied(s, a)]
      BY <1>7 DEF WebhookCommit
    <2>2. CASE s.type = "captured"
      <3>1. Applied(s, a).status = "CAPTURED"
        BY <2>2 DEF Applied, Wins
      <3> QED BY <1>0, <2>1, <3>1
    <2>3. CASE s.type = "failed"
      <3>1. payment[s.payment].state \in {"failed", "late"}
        BY <1>7, <2>3 DEF WebhookCommit, At, RecordInv, HandledIsEmitted,
                          HandledEvent, Emitted
      <3>2. CASE s.stamp \/ Wins(s.type, a)
        <4>1. Applied(s, a).pay = s.payment
          BY <3>2 DEF Applied
        <4> QED BY <1>0, <2>1, <3>1, <4>1
      <3>3. CASE ~ (s.stamp \/ Wins(s.type, a))
        <4>1. /\ Applied(s, a).pay = attempts[a].pay
              /\ Applied(s, a).status = attempts[a].status
          BY <3>3 DEF Applied
        <4> QED BY <1>0, <2>1, <4>1
      <3> QED BY <3>2, <3>3
    <2>4. s.type \in {"captured", "failed"}
      BY DEF Sessions
    <2> QED BY <2>2, <2>3, <2>4
  <1>8. ASSUME \/ \E o \in Orders : InitiateRead(w, o) \/ ReconcileRead(w, o)
               \/ InitiateAssociate(w)
               \/ \E p \in Payments : VerifyRead(w, p)
               \/ VerifyLookup(w) \/ VerifyFind(w) \/ VerifyRollback(w)
               \/ \E e \in EventIds : WebhookRead(w, e) \/ WebhookMiss(w, e)
               \/ WebhookTarget(w) \/ WebhookRollback(w) \/ WebhookReport(w)
               \/ Abandon(w)
        PROVE  UNCHANGED attempts
    BY <1>8 DEF InitiateRead, ReconcileRead, InitiateAssociate, VerifyRead,
                VerifyLookup, VerifyFind, VerifyRollback, WebhookRead, WebhookMiss,
                WebhookTarget, WebhookRollback, WebhookReport, Abandon, db
  <1> HIDE DEF Kept
  <1> QED BY <1>2, <1>3, <1>4, <1>5, <1>6, <1>7, <1>8 DEF Handler

LEMMA AcceptedRowsNext ==
  ASSUME Inv, RecordInv, [Next]_vars
  PROVE  AcceptedRows'
  <1>1. ASSUME NEW w \in Workers, Handler(w) PROVE AcceptedRows'
    BY <1>1, AcceptedRowsHandler
  <1>2. CASE World \/ UNCHANGED vars
    <2>1. UNCHANGED attempts
      BY <1>2 DEF World, AdminTransition, CustomerPays, ProviderCaptures,
                  ReceiveWebhook, GrowOld, vars, db
    <2> SUFFICES ASSUME NEW a \in AttemptIds, attempts[a].pay # None,
                        payment'[attempts[a].pay].state \in {"authorized", "captured"}
                 PROVE  attempts[a].status = "CAPTURED"
      BY <2>1 DEF AcceptedRows
    <2> DEFINE p == attempts[a].pay
    <2>2. p \in Payments
      BY TypesHere DEF AttemptRows
    <2>3. payment[p].state # "none"
      BY <2>2 DEF Inv, RowsOK, Binding, NoAttempt
    <2>4. payment[p].state \in {"authorized", "captured"}
      BY <2>2, <2>3, PaymentStays
    <2> QED BY <2>4 DEF RecordInv, AcceptedRows
  <1> QED BY <1>1, <1>2 DEF Next

-----------------------------------------------------------------------------
(* The handlers: how a session comes to work on an event.                  *)

OnEvent == {"target", "apply", "report"}

LEMMA OthersStay ==
  ASSUME Inv, NEW w \in Workers, Handler(w), NEW v \in Workers, v # w
  PROVE  session'[v] = session[v]
  <1>1. \/ \E s : Become(w, s)
        \/ UNCHANGED session
    BY DEF Handler, InitiateRead, InitiateAssociate, InitiateOpen, VerifyRead,
           VerifyLookup, VerifyFind, VerifyCommit, VerifyRollback, WebhookRead, WebhookMiss,
           WebhookTarget, WebhookCommit, WebhookRollback, WebhookReport,
           ReconcileRead, ReconcileSettle, ReconcileExpire, Abandon, Finish
  <1> QED BY <1>1, TypesHere DEF Become

(* The verdict of a rolled-back transaction is on the event it handled.    *)
LEMMA RollbackReports ==
  ASSUME Inv, NEW w \in Workers, WebhookRollback(w)
  PROVE  /\ session[w].step = "apply" /\ session'[w].step = "report"
         /\ session'[w].type = session[w].type
         /\ session'[w].payment = session[w].payment
         /\ session'[w].result = "PROCESSED" =>
              \E a \in AttemptIds : UniqueViolation(session[w], a)
  <1> DEFINE s == session[w]
             Report(result, tries) ==
               Become(w, [Idle EXCEPT !.step = "report", !.order = s.order,
                                      !.payment = s.payment, !.type = s.type,
                                      !.result = result, !.tries = tries])
             Told0(result) == /\ session'[w].step = "report"
                              /\ session'[w].type = s.type
                              /\ session'[w].payment = s.payment
                              /\ session'[w].result = result
  <1>1. ASSUME NEW result, NEW tries, Report(result, tries) PROVE Told0(result)
    <2> DEFINE t == [Idle EXCEPT !.step = "report", !.order = s.order,
                                 !.payment = s.payment, !.type = s.type,
                                 !.result = result, !.tries = tries]
    <2>1. /\ t.step = "report" /\ t.type = s.type /\ t.payment = s.payment
          /\ t.result = result
      BY DEF Idle
    <2>2. session'[w] = t
      <3> HIDE DEF t
      <3> QED BY <1>1, TypesHere DEF Become, t
    <2> QED BY <2>1, <2>2
  <1>2. AfterError(s.tries) # "PROCESSED"
    BY DEF AfterError
  <1>3. s.step = "apply"
    BY DEF WebhookRollback, At
  <1>4. \/ /\ \E a \in AttemptIds : UniqueViolation(s, a)
           /\ Report("PROCESSED", s.tries)
        \/ Report("FAILED", s.tries + 1)
        \/ Report(AfterError(s.tries), s.tries + 1)
    BY DEF WebhookRollback
  <1> HIDE DEF Report
  <1>5. \/ /\ \E a \in AttemptIds : UniqueViolation(s, a)
           /\ Told0("PROCESSED")
        \/ Told0("FAILED")
        \/ Told0(AfterError(s.tries))
    BY <1>1, <1>4
  <1> QED BY <1>2, <1>3, <1>5

(* A handler on an event has had it before or takes a stored one.          *)
TakesOn(w) ==
  \/ session'[w] = session[w]
  \/ /\ session[w].step \in {"target", "apply"}
     /\ session'[w].type = session[w].type
     /\ session'[w].payment = session[w].payment
     /\ session'[w].step = "report" => WebhookRollback(w)
  \/ /\ \/ session'[w].step = "target"
        \/ session'[w].step = "report" /\ session'[w].result # "PROCESSED"
     /\ \E e \in EventIds : /\ event[e].status # "ABSENT"
                            /\ HandledEvent(session'[w]) = e

LEMMA SessionMoves ==
  ASSUME Inv, NEW w \in Workers, Handler(w), session'[w].step \in OnEvent
  PROVE  TakesOn(w)
  <1>0. session[w] \in Sessions
    BY TypesHere
  <1>1. ASSUME NEW e \in EventIds, WebhookRead(w, e) PROVE TakesOn(w)
    <2>1. CASE UNCHANGED session
      BY <2>1 DEF TakesOn
    <2>2. ASSUME NEW o \in Orders,
                 Become(w, [Idle EXCEPT !.step = "target", !.order = o,
                                        !.payment = e[2], !.type = e[1],
                                        !.seen = status[o],
                                        !.tries = event[e].attempts])
          PROVE  TakesOn(w)
      <3>1. /\ session'[w].step = "target"
            /\ session'[w].type = e[1] /\ session'[w].payment = e[2]
        BY <2>2, TypesHere DEF Become, Idle
      <3>2. e = <<e[1], e[2]>>
        BY DEF EventIds
      <3>3. event[e].status # "ABSENT"
        BY <1>1 DEF WebhookRead, Due
      <3> QED BY <3>1, <3>2, <3>3 DEF TakesOn, HandledEvent
    <2>3. \/ UNCHANGED session
          \/ \E o \in Orders :
               Become(w, [Idle EXCEPT !.step = "target", !.order = o,
                                      !.payment = e[2], !.type = e[1],
                                      !.seen = status[o],
                                      !.tries = event[e].attempts])
      BY <1>1 DEF WebhookRead
    <2> QED BY <2>1, <2>2, <2>3
  <1>12. ASSUME NEW e \in EventIds, WebhookMiss(w, e) PROVE TakesOn(w)
    <2> DEFINE t == [Idle EXCEPT !.step = "report", !.payment = e[2],
                                 !.type = e[1], !.result = AfterError(0),
                                 !.tries = 1]
    <2>1. /\ t.step = "report" /\ t.type = e[1] /\ t.payment = e[2]
          /\ t.result # "PROCESSED"
      BY DEF Idle, AfterError
    <2>2. Become(w, t) /\ event[e].status # "ABSENT"
      BY <1>12 DEF WebhookMiss, Due
    <2> HIDE DEF t
    <2>3. session'[w] = t
      BY <2>2, TypesHere DEF Become
    <2>4. e = <<e[1], e[2]>>
      BY DEF EventIds
    <2> QED BY <2>1, <2>2, <2>3, <2>4 DEF TakesOn, HandledEvent
  <1>2. CASE WebhookTarget(w)
    BY <1>2, <1>0, TypesHere DEF TakesOn, WebhookTarget, At, Become, Sessions
  <1>3. CASE WebhookRollback(w)
    BY <1>3, RollbackReports DEF TakesOn
  <1>4. ASSUME NEW o \in Orders, InitiateRead(w, o) PROVE TakesOn(w)
    <2>1. \/ Become(w, [Idle EXCEPT !.step = "open", !.order = o,
                                    !.rzp = rzpOrder[o]])
          \/ \E r \in ProviderOrders :
               Become(w, [Idle EXCEPT !.step = "associate", !.order = o, !.rzp = r])
      BY <1>4 DEF InitiateRead
    <2>2. session'[w].step \in {"open", "associate"}
      BY <2>1, TypesHere DEF Become, Idle
    <2> QED BY <2>2 DEF OnEvent
  <1>5. ASSUME NEW o \in Orders, ReconcileRead(w, o) PROVE TakesOn(w)
    <2>1. \/ \E p \in Payments :
               Become(w, [Idle EXCEPT !.step = "settle", !.order = o,
                                      !.payment = p, !.rzp = rzpOrder[o]])
          \/ Become(w, [Idle EXCEPT !.step = "expire", !.order = o])
      BY <1>5 DEF ReconcileRead, TakenOn, MadeOn
    <2>2. session'[w].step \in {"settle", "expire"}
      BY <2>1, TypesHere DEF Become, Idle
    <2> QED BY <2>2 DEF OnEvent
  <1>6. CASE InitiateAssociate(w)
    <2>1. session'[w].step = "open"
      BY <1>6, <1>0, TypesHere DEF InitiateAssociate, Become, Sessions
    <2> QED BY <2>1 DEF OnEvent
  <1>7. ASSUME NEW p \in Payments, VerifyRead(w, p) PROVE TakesOn(w)
    <2>1. session'[w].step = "lookup"
      BY <1>7, TypesHere DEF VerifyRead, Become, Idle
    <2> QED BY <2>1 DEF OnEvent
  <1>8. Finish(w) => FALSE
    BY TypesHere DEF Finish, Become, Idle, OnEvent
  <1>9. CASE VerifyLookup(w)
    <2>1. \/ Become(w, [session[w] EXCEPT !.step = "find"])
          \/ Finish(w)
          \/ \E a \in AttemptIds :
               Become(w, [session[w] EXCEPT !.step = "verify", !.attempt = a])
      BY <1>9 DEF VerifyLookup, WithPayment
    <2>2. Finish(w) \/ session'[w].step \in {"find", "verify"}
      BY <2>1, BecomesAt
    <2> QED BY <1>8, <2>2 DEF OnEvent
  <1>10. CASE VerifyFind(w)
    <2>1. \/ Finish(w)
          \/ \E a : Become(w, [session[w] EXCEPT !.step = "verify", !.attempt = a])
      BY <1>10 DEF VerifyFind
    <2>2. Finish(w) \/ session'[w].step = "verify"
      BY <2>1, BecomesAt
    <2> QED BY <1>8, <2>2 DEF OnEvent
  <1>11. ASSUME \/ InitiateOpen(w) \/ VerifyCommit(w) \/ VerifyRollback(w)
                \/ WebhookCommit(w) \/ WebhookReport(w) \/ ReconcileSettle(w)
                \/ ReconcileExpire(w) \/ Abandon(w)
         PROVE  TakesOn(w)
    BY <1>8, <1>11 DEF InitiateOpen, VerifyCommit, VerifyRollback, WebhookCommit,
                 WebhookReport, ReconcileSettle, ReconcileExpire, Abandon
  <1> QED BY <1>1, <1>2, <1>3, <1>4, <1>5, <1>6, <1>7, <1>9, <1>10, <1>11,
             <1>12 DEF Handler

LEMMA HandledIsEmittedNext ==
  ASSUME Inv, RecordInv, [Next]_vars
  PROVE  HandledIsEmitted'
  <1> SUFFICES ASSUME NEW v \in Workers, session'[v].step \in OnEvent
               PROVE  Emitted(HandledEvent(session[v]))'
    BY DEF HandledIsEmitted, OnEvent
  <1>1. ASSUME session[v].step \in OnEvent,
               session'[v].type = session[v].type,
               session'[v].payment = session[v].payment
        PROVE  Emitted(HandledEvent(session[v]))'
    <2> DEFINE s == session[v]
    <2>1. HandledEvent(s) \in EventIds
      <3>1. s \in Sessions /\ s.payment \in Payments
        BY <1>1, TypesHere DEF OnEvent, Inv, SessionsOK, SessionOK, OnPayment
      <3> QED BY <3>1 DEF HandledEvent, EventIds, Sessions
    <2>2. Emitted(HandledEvent(s))
      BY <1>1 DEF OnEvent, RecordInv, HandledIsEmitted
    <2>3. \A e \in EventIds : Emitted(e) => Emitted(e)'
      BY EmittedStays
    <2>4. PICK e \in EventIds : e = HandledEvent(s)
      BY <2>1
    <2>5. Emitted(e)'
      BY <2>2, <2>3, <2>4
    <2>6. e = HandledEvent(s)'
      BY <1>1, <2>4 DEF HandledEvent
    <2> QED BY <2>5, <2>6 DEF Emitted
  <1>2. CASE session'[v] = session[v]
    BY <1>1, <1>2
  <1>3. ASSUME NEW w \in Workers, Handler(w), w = v
        PROVE  Emitted(HandledEvent(session[v]))'
    <2>1. TakesOn(v)
      BY <1>3, SessionMoves
    <2>2. ASSUME NEW e \in EventIds, event[e].status # "ABSENT",
                 HandledEvent(session'[v]) = e
          PROVE  Emitted(HandledEvent(session[v]))'
      <3>1. Emitted(e)'
        BY <2>2, EmittedStays DEF RecordInv, StoredIsEmitted
      <3> QED BY <2>2, <3>1 DEF Emitted, HandledEvent
    <2> QED BY <1>1, <1>2, <2>1, <2>2 DEF TakesOn, OnEvent
  <1>4. ASSUME NEW w \in Workers, Handler(w), w # v PROVE session'[v] = session[v]
    BY <1>4, OthersStay
  <1>5. World \/ UNCHANGED vars => session'[v] = session[v]
    BY DEF World, AdminTransition, CustomerPays, ProviderCaptures, ReceiveWebhook, GrowOld, vars
  <1> QED BY <1>2, <1>3, <1>4, <1>5 DEF Next

LEMMA VerdictsRecordedNext ==
  ASSUME Inv, RecordInv, [Next]_vars
  PROVE  VerdictsRecorded'
  <1> SUFFICES ASSUME NEW v \in Workers,
                      session'[v].step = "report", session'[v].type = "captured",
                      session'[v].result = "PROCESSED"
               PROVE  Recorded(session[v].payment)'
    BY DEF VerdictsRecorded
  <1>1. ASSUME session[v].step \in OnEvent, session[v].type = "captured",
               session'[v].payment = session[v].payment,
               Recorded(session[v].payment)
        PROVE  Recorded(session[v].payment)'
    <2>1. PICK p \in Payments : p = session[v].payment
      BY <1>1 DEF OnEvent, Inv, SessionsOK, SessionOK, OnPayment
    <2>2. Emitted(<<"captured", p>>)
      BY <1>1, <2>1 DEF OnEvent, RecordInv, HandledIsEmitted, HandledEvent
    <2>3. Recorded(p)'
      BY <1>1, <2>1, <2>2, RecordedStays
    <2> QED BY <1>1, <2>1, <2>3 DEF Recorded
  <1>2. CASE session'[v] = session[v]
    <2>1. Recorded(session[v].payment)
      BY <1>2 DEF RecordInv, VerdictsRecorded
    <2> QED BY <1>1, <1>2, <2>1 DEF OnEvent
  <1>3. CASE WebhookRollback(v)
    <2>1. /\ session[v].step = "apply" /\ session[v].type = "captured"
          /\ session'[v].payment = session[v].payment
          /\ \E a \in AttemptIds : UniqueViolation(session[v], a)
      BY <1>3, RollbackReports
    <2>2. Recorded(session[v].payment)
      BY <2>1, RefusalIsRecorded DEF At
    <2> QED BY <1>1, <2>1, <2>2 DEF OnEvent
  <1>4. ASSUME NEW w \in Workers, Handler(w), w = v
        PROVE  session'[v] = session[v] \/ WebhookRollback(v)
    BY <1>4, SessionMoves DEF TakesOn, OnEvent
  <1>5. ASSUME NEW w \in Workers, Handler(w), w # v PROVE session'[v] = session[v]
    BY <1>5, OthersStay
  <1>6. World \/ UNCHANGED vars => session'[v] = session[v]
    BY DEF World, AdminTransition, CustomerPays, ProviderCaptures, ReceiveWebhook, GrowOld, vars
  <1> QED BY <1>2, <1>3, <1>4, <1>5, <1>6 DEF Next

-----------------------------------------------------------------------------
(* The events: who stores one, and who writes it off.                      *)

LEMMA EventMoves ==
  ASSUME Inv, [Next]_vars, NEW e \in EventIds, event'[e] # event[e]
  PROVE  \/ ReceiveWebhook(e) /\ event'[e].status = "RECEIVED"
         \/ event[e].status # "ABSENT" /\ event'[e].status = "IGNORED"
         \/ \E w \in Workers : /\ WebhookCommit(w) \/ WebhookReport(w)
                               /\ HandledEvent(session[w]) = e
  <1>0. event \in [EventIds -> EventRows]
    BY DEF Inv, TypeOK, EventRows
  <1>1. ASSUME NEW f \in EventIds, ReceiveWebhook(f)
        PROVE  f = e /\ event'[e].status = "RECEIVED"
    BY <1>0, <1>1 DEF ReceiveWebhook, Received, EventRows
  <1>2. ASSUME NEW w \in Workers, NEW f \in EventIds, WebhookRead(w, f)
        PROVE  event[e].status # "ABSENT" /\ event'[e].status = "IGNORED"
    <2>1. /\ UNCHANGED event \/ event' = [event EXCEPT ![f].status = "IGNORED"]
          /\ event[f].status # "ABSENT"
      BY <1>2 DEF WebhookRead, Due
    <2> QED BY <1>0, <2>1 DEF EventRows
  <1>3. ASSUME NEW w \in Workers, WebhookCommit(w)
        PROVE  HandledEvent(session[w]) = e
    BY <1>0, <1>3 DEF WebhookCommit, HandledEvent, EventRows
  <1>4. ASSUME NEW w \in Workers, WebhookReport(w)
        PROVE  HandledEvent(session[w]) = e
    BY <1>0, <1>4 DEF WebhookReport, HandledEvent
  <1>5. ASSUME NEW w \in Workers,
               \/ \E o \in Orders : InitiateRead(w, o) \/ ReconcileRead(w, o)
               \/ InitiateAssociate(w) \/ InitiateOpen(w)
               \/ \E p \in Payments : VerifyRead(w, p)
               \/ VerifyLookup(w) \/ VerifyFind(w)
               \/ VerifyCommit(w) \/ VerifyRollback(w)
               \/ WebhookTarget(w) \/ WebhookRollback(w)
               \/ \E f \in EventIds : WebhookMiss(w, f)
               \/ ReconcileSettle(w) \/ ReconcileExpire(w) \/ Abandon(w)
        PROVE  UNCHANGED event
    BY <1>5 DEF InitiateRead, ReconcileRead, InitiateAssociate, InitiateOpen,
                VerifyRead, VerifyLookup, VerifyFind, VerifyCommit,
                VerifyRollback, WebhookMiss, WebhookTarget, WebhookRollback,
                ReconcileSettle, ReconcileExpire, Abandon, db
  <1>6. ASSUME \/ \E o \in Orders, to \in AdminTargets : AdminTransition(o, to)
               \/ \E p \in Payments, r \in ProviderOrders : CustomerPays(p, r)
               \/ \E p \in Payments : ProviderCaptures(p)
               \/ \E o \in Orders : GrowOld(o)
               \/ UNCHANGED vars
        PROVE  UNCHANGED event
    BY <1>6 DEF AdminTransition, CustomerPays, ProviderCaptures, GrowOld, vars, db
  <1>7. ASSUME NEW w \in Workers, Handler(w)
        PROVE  \/ \E f \in EventIds : WebhookRead(w, f)
               \/ WebhookCommit(w) \/ WebhookReport(w)
    BY <1>5, <1>7 DEF Handler
  <1>8. ASSUME World PROVE \E f \in EventIds : ReceiveWebhook(f)
    BY <1>6, <1>8 DEF World
  <1> QED BY <1>1, <1>2, <1>3, <1>4, <1>6, <1>7, <1>8 DEF Next

LEMMA StoredIsEmittedNext ==
  ASSUME Inv, RecordInv, [Next]_vars
  PROVE  StoredIsEmitted'
  <1> SUFFICES ASSUME NEW e \in EventIds, event'[e].status # "ABSENT"
               PROVE  Emitted(e)'
    BY DEF StoredIsEmitted
  <1>1. Emitted(e)
    <2>1. CASE event'[e] = event[e]
      BY <2>1 DEF RecordInv, StoredIsEmitted
    <2>2. CASE ReceiveWebhook(e)
      BY <2>2 DEF ReceiveWebhook
    <2>3. CASE event[e].status # "ABSENT"
      BY <2>3 DEF RecordInv, StoredIsEmitted
    <2>4. ASSUME NEW w \in Workers, WebhookCommit(w) \/ WebhookReport(w),
                 HandledEvent(session[w]) = e
          PROVE  Emitted(e)
      BY <2>4 DEF WebhookCommit, WebhookReport, At, RecordInv, HandledIsEmitted
    <2> QED BY <2>1, <2>2, <2>3, <2>4, EventMoves
  <1> QED BY <1>1, EmittedStays

LEMMA ProcessedRecordedNext ==
  ASSUME Inv, RecordInv, [Next]_vars
  PROVE  ProcessedRecorded'
  <1> SUFFICES ASSUME NEW p \in Payments,
                      event'[<<"captured", p>>].status = "PROCESSED"
               PROVE  Recorded(p)'
    BY DEF ProcessedRecorded
  <1> DEFINE e == <<"captured", p>>
  <1>1. e \in EventIds
    BY DEF EventIds
  <1>2. CASE event'[e] = event[e]
    <2>1. Recorded(p) /\ Emitted(e)
      BY <1>1, <1>2 DEF RecordInv, ProcessedRecorded, StoredIsEmitted
    <2> QED BY <2>1, RecordedStays
  <1>3. ASSUME NEW w \in Workers, HandledEvent(session[w]) = e, WebhookReport(w)
        PROVE  Recorded(p)'
    <2> DEFINE s == session[w]
    <2>1. s.step = "report" /\ s.type = "captured" /\ s.payment = p
      BY <1>3 DEF HandledEvent, WebhookReport, At
    <2>2. s.result = "PROCESSED"
      <3>1. event \in [EventIds -> EventRows]
        BY DEF Inv, TypeOK, EventRows
      <3>2. event'[e].status = s.result
        BY <1>1, <1>3, <3>1 DEF WebhookReport, HandledEvent
      <3> QED BY <3>2
    <2>3. Recorded(p)
      BY <2>1, <2>2 DEF RecordInv, VerdictsRecorded
    <2>4. Emitted(e)
      BY <1>3, <2>1 DEF RecordInv, HandledIsEmitted
    <2> QED BY <2>3, <2>4, RecordedStays
  <1>4. ASSUME NEW w \in Workers, HandledEvent(session[w]) = e, WebhookCommit(w)
        PROVE  Recorded(p)'
    <2>1. /\ session[w].type = "captured" /\ session[w].payment = p
          /\ OnPayment(session[w])
      BY <1>4 DEF HandledEvent, WebhookCommit, At, Inv, SessionsOK, SessionOK
    <2>2. PICK o \in Orders : o = session[w].order
      BY <2>1 DEF OnPayment
    <2>3. HasCapture(o)'
      BY <1>4, <2>1, <2>2, AppliedIsCaptured
    <2>4. rzpOrder[o] # None /\ payment[p].rzp = rzpOrder[o]
      BY <2>1, <2>2 DEF OnPayment
    <2>5. UNCHANGED <<rzpOrder, payment>>
      BY <1>4 DEF WebhookCommit
    <2> QED BY <2>3, <2>4, <2>5 DEF Recorded, Inv, Binding
  <1>5. CASE event'[e] # event[e]
    BY <1>1, <1>3, <1>4, <1>5, EventMoves
  <1> QED BY <1>2, <1>5

LEMMA InitRecord == Init => RecordInv
  BY DEF Init, RecordInv, AcceptedRows, StoredIsEmitted, HandledIsEmitted,
         VerdictsRecorded, ProcessedRecorded, NoAttempt, Idle, EventIds

LEMMA RecordNext == Inv /\ RecordInv /\ [Next]_vars => RecordInv'
  BY AcceptedRowsNext, StoredIsEmittedNext, HandledIsEmittedNext,
     VerdictsRecordedNext, ProcessedRecordedNext DEF RecordInv

(* No captured event is marked done while its money is on no order,        *)
(* whichever transaction won the race that rolled it back.                 *)
THEOREM NoCaptureIsWrittenOff == Spec => []ProcessedCaptureIsRecorded
  <1>1. Inv /\ RecordInv => ProcessedCaptureIsRecorded
    <2> SUFFICES ASSUME Inv, RecordInv, NEW p \in Payments, NEW o \in Orders,
                        event[<<"captured", p>>].status = "PROCESSED",
                        payment[p].state # "late", rzpOrder[o] = payment[p].rzp
                 PROVE  CapturedOf(o) # {}
      BY DEF ProcessedCaptureIsRecorded
    <2>1. <<"captured", p>> \in EventIds
      BY DEF EventIds
    <2>2. payment[p].state = "captured"
      BY <2>1 DEF RecordInv, StoredIsEmitted, Emitted
    <2>3. HasCapture(o)
      BY <2>2 DEF RecordInv, ProcessedRecorded, Recorded
    <2> QED BY <2>3 DEF HasCapture, CapturedOf
  <1> QED BY InvHolds, InitRecord, RecordNext, <1>1, PTL DEF Spec

-----------------------------------------------------------------------------
(* The ledger is not too weak a promise: what the shop builds on needs     *)
(* neither sessions nor attempts, events or indexes.                       *)
LedgerKept ==
  /\ status = [o \in Orders |-> status[o]]
  /\ \A o \in Orders : Announced(o, "ORDER_PAID") => CapturedOf(o) # {}

Forward ==
  \A o \in Orders :
    /\ CapturedOf(o) # {} => CapturedOf(o)' # {}
    /\ Announced(o, "ORDER_PAID") => Announced(o, "ORDER_PAID")'
    /\ status'[o] # status[o] => isTransitionAllowed(status[o], status'[o])

LEMMA LedgerInitKept == Ledger!LedgerInit => LedgerKept
  <1> SUFFICES ASSUME Ledger!LedgerInit PROVE LedgerKept
    OBVIOUS
  <1>1. /\ status = [o \in Orders |-> "PENDING_PAYMENT"]
        /\ { o \in Orders : Announced(o, "ORDER_PAID") } = {}
    BY DEF Ledger!LedgerInit
  <1>2. \A o \in Orders : ~ Announced(o, "ORDER_PAID")
    BY <1>1
  <1> QED BY <1>1, <1>2 DEF LedgerKept

LEMMA LedgerStepKept ==
  ASSUME LedgerKept, Ledger!LedgerNext
  PROVE  LedgerKept' /\ Forward
  <1>1. PICK o \in Orders : Ledger!Pay(o) \/ Ledger!TakeLate(o) \/ Ledger!Move(o)
    BY DEF Ledger!LedgerNext
  <1>2. /\ Taken' \in {Taken, Taken \cup {o}}
        /\ Told' \in {Told, Told \cup {o}}
        /\ Told' # Told => o \in Taken'
    BY <1>1 DEF Ledger!Pay, Ledger!TakeLate, Ledger!Move, Taken, Told
  <1>3. \/ UNCHANGED status
        \/ \E to \in ORDER_STATE_TRANSITIONS[status[o]] : status' = [status EXCEPT ![o] = to]
    <2>1. CASE Ledger!Pay(o)
      <3>1. "PAID" \in ORDER_STATE_TRANSITIONS["PENDING_PAYMENT"]
        BY DEF ORDER_STATE_TRANSITIONS
      <3> QED BY <2>1, <3>1 DEF Ledger!Pay
    <2>2. CASE Ledger!TakeLate(o)
      BY <2>2 DEF Ledger!TakeLate
    <2>3. CASE Ledger!Move(o)
      <3>1. Ledger!ORDER_STATE_TRANSITIONS = ORDER_STATE_TRANSITIONS
        BY DEF Ledger!ORDER_STATE_TRANSITIONS, ORDER_STATE_TRANSITIONS
      <3> QED BY <2>3, <3>1 DEF Ledger!Move
    <2> QED BY <1>1, <2>1, <2>2, <2>3
  <1>4. /\ \A q \in Orders : /\ CapturedOf(q) # {} <=> q \in Taken
                             /\ CapturedOf(q)' # {} <=> q \in Taken'
                             /\ Announced(q, "ORDER_PAID") <=> q \in Told
                             /\ Announced(q, "ORDER_PAID")' <=> q \in Told'
    BY DEF Taken, Told
  <1>5. status' = [q \in Orders |-> status'[q]]
    BY <1>3 DEF LedgerKept
  <1>6. ASSUME NEW q \in Orders, status'[q] # status[q]
        PROVE  isTransitionAllowed(status[q], status'[q])
    BY <1>3, <1>6 DEF LedgerKept, isTransitionAllowed
  <1>7. ASSUME NEW q \in Orders, Announced(q, "ORDER_PAID")'
        PROVE  CapturedOf(q)' # {}
    BY <1>2, <1>4, <1>7 DEF LedgerKept
  <1>8. LedgerKept'
    BY <1>5, <1>7 DEF LedgerKept
  <1>9. Forward
    BY <1>2, <1>4, <1>6 DEF Forward
  <1> QED BY <1>8, <1>9

(* Whoever builds on KeepsLedger alone has what the shop relies on: the    *)
(* customer is told only of money on record, neither is ever taken back,   *)
(* and an order only makes the moves of the state machine                  *)
(* (order-state-machine.ts, applyCaptured).                                *)
THEOREM LedgerSuffices ==
  KeepsLedger => /\ [](\A o \in Orders : Announced(o, "ORDER_PAID") => CapturedOf(o) # {})
                 /\ [][Forward]_(Ledger!ledger)
  <1>1. ASSUME LedgerKept, UNCHANGED Ledger!ledger PROVE LedgerKept'
    <2>1. /\ status' = status
          /\ { o \in Orders : CapturedOf(o) # {} }' = { o \in Orders : CapturedOf(o) # {} }
          /\ { o \in Orders : Announced(o, "ORDER_PAID") }'
               = { o \in Orders : Announced(o, "ORDER_PAID") }
      BY <1>1 DEF Ledger!ledger
    <2>2. \A o \in Orders : Announced(o, "ORDER_PAID")' => CapturedOf(o)' # {}
      BY <1>1, <2>1 DEF LedgerKept
    <2> QED BY <1>1, <2>1, <2>2 DEF LedgerKept
  <1>2. LedgerKept /\ [Ledger!LedgerNext]_(Ledger!ledger) => LedgerKept'
    BY <1>1, LedgerStepKept
  <1>3. LedgerKept /\ [Ledger!LedgerNext]_(Ledger!ledger) => [Forward]_(Ledger!ledger)
    BY LedgerStepKept
  <1>4. LedgerKept => \A o \in Orders : Announced(o, "ORDER_PAID") => CapturedOf(o) # {}
    BY DEF LedgerKept
  <1> QED BY <1>2, <1>3, <1>4, LedgerInitKept, PTL DEF KeepsLedger, Ledger!LedgerSpec
=============================================================================
