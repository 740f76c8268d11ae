---------------------------- MODULE OutboxProofs ----------------------------
(***************************************************************************)
(* Theorems about Outbox, for any rows, workers and bounds.                *)
(***************************************************************************)
EXTENDS Outbox, TLAPS

(* A worker in flight has its row to itself, as it was when it claimed it. *)
Claims ==
  \A w \in Workers :
    \/ session[w] = Idle
    \/ /\ ~ At(w, "idle")
       /\ session[w].row \in Rows
       /\ row[session[w].row].status = "PROCESSING"
       /\ session[w].tries = row[session[w].row].attempts

Working(r, steps) ==
  \E w \in Workers : session[w].row = r /\ session[w].step \in steps

(* Only a row given up on has used up its attempts.                        *)
AttemptsLeft ==
  \A r \in Rows : /\ row[r].attempts <= MAX_ATTEMPTS
                  /\ row[r].status # "FAILED" => row[r].attempts < MAX_ATTEMPTS

(* Every finished attempt has mailed at most once, and so has the present. *)
MailsCounted ==
  \A r \in Rows :
    /\ mailed[r] <= row[r].attempts + 1
    /\ row[r].status \in {"ABSENT", "PENDING", "FAILED"} \/ Working(r, {"send"})
         => mailed[r] <= row[r].attempts

(* A row about to be mailed has only been mailed where that was lost.      *)
LossesCounted ==
  \A r \in Rows :
    /\ mailed[r] <= lost + 1
    /\ row[r].status \in {"ABSENT", "PENDING"} \/ Working(r, {"send", "error"})
         => mailed[r] <= lost

Accepted ==
  \A r \in Rows \ Unsupported :
    row[r].status = "SENT" \/ Working(r, {"sent"}) => mailed[r] > 0

Inv == /\ TypeOK /\ Claims /\ ClaimedByOne /\ AttemptsLeft
       /\ MailsCounted /\ LossesCounted /\ Accepted

-----------------------------------------------------------------------------
(* The invariant holds before any row exists.                              *)
LEMMA InitInv == Init => Inv
  BY OutboxConstants
  DEF Init, Inv, TypeOK, Claims, ClaimedByOne, AttemptsLeft, MailsCounted,
      LossesCounted, Accepted, Working, At, Idle, Steps, OutboxStatus

(* enqueueOutboxEvent keeps it: nobody works on a row that is not there.   *)
LEMMA EnqueueInv ==
  ASSUME Inv, NEW r \in Rows, Enqueue(r)
  PROVE  Inv'
<1> USE OutboxConstants DEF Inv, Enqueue
<1>1. TypeOK'
  BY DEF TypeOK, OutboxStatus
<1>2. Claims' /\ ClaimedByOne'
  BY DEF TypeOK, Claims, ClaimedByOne, At
<1>3. AttemptsLeft'
  BY DEF TypeOK, AttemptsLeft
<1>4. MailsCounted' /\ LossesCounted' /\ Accepted'
  BY DEF TypeOK, MailsCounted, LossesCounted, Accepted, Working
<1> QED BY <1>1, <1>2, <1>3, <1>4

(* claim keeps it: a pending row is nobody's, and not owed a mail yet.     *)
LEMMA ClaimInv ==
  ASSUME Inv, NEW w \in Workers, NEW r \in Rows, Claim(w, r)
  PROVE  Inv'
<1> USE OutboxConstants DEF Inv, Claim, Claimable, Become
<1>0. \A v \in Workers : session[v].row # r
  BY DEF Claims, At, Idle
<1>1. TypeOK'
  BY DEF TypeOK, OutboxStatus, Steps
<1>2. Claims'
  BY <1>0 DEF TypeOK, Claims, At, Idle
<1>3. ClaimedByOne'
  BY <1>0 DEF TypeOK, ClaimedByOne, At
<1>4. AttemptsLeft'
  BY DEF TypeOK, AttemptsLeft
<1>5. MailsCounted' /\ LossesCounted' /\ Accepted'
  BY <1>0 DEF TypeOK, MailsCounted, LossesCounted, Accepted, Working
<1> QED BY <1>1, <1>2, <1>3, <1>4, <1>5

(* The steps that change neither the row nor who holds it.                 *)
LEMMA SendInv ==
  ASSUME Inv, NEW w \in Workers, Send(w) \/ Skip(w) \/ RejectFails(w)
  PROVE  Inv'
<1> USE OutboxConstants DEF Inv
<1> DEFINE r == session[w].row
<1>0. /\ r \in Rows /\ row[r].status = "PROCESSING" /\ At(w, "send")
      /\ \A v \in Workers : session[v].row = r => v = w
  BY DEF Claims, ClaimedByOne, Send, Skip, RejectFails, At, Idle
<1>1. /\ row' = row /\ died' = died
      /\ \E step \in {"sent", "error"} :
           session' = [session EXCEPT ![w] = [session[w] EXCEPT !.step = step]]
  BY DEF Send, Skip, RejectFails, Become, AfterRefusal
<1>2. TypeOK'
  BY <1>0, <1>1 DEF TypeOK, Send, Skip, RejectFails, Steps
<1>3. /\ \A v \in Workers : v # w => session'[v] = session[v]
      /\ session'[w].row = r /\ session'[w].tries = session[w].tries
      /\ session'[w].step # "idle"
  BY <1>1 DEF TypeOK
<1>3a. Claims'
  BY <1>0, <1>1, <1>3 DEF TypeOK, Claims, At, Idle
<1>3b. ClaimedByOne'
  BY <1>0, <1>1, <1>3 DEF TypeOK, ClaimedByOne, At
<1>4. AttemptsLeft'
  BY <1>1 DEF AttemptsLeft
<1>5. \A q \in Rows : q # r =>
        mailed'[q] = mailed[q] /\ \A steps : Working(q, steps)' <=> Working(q, steps)
  BY <1>0, <1>1 DEF TypeOK, Working, Send, Skip, RejectFails
<1>6. \A steps : Working(r, steps)' <=> session'[w].step \in steps
  BY <1>0, <1>1 DEF TypeOK, Working
<1>7. /\ mailed[r] <= row[r].attempts /\ mailed[r] <= lost
      /\ mailed[r] \in Nat /\ lost \in Nat /\ row[r].attempts \in Nat
  BY <1>0 DEF TypeOK, MailsCounted, LossesCounted, Working, At
<1>8. /\ session'[w].step # "send"
      /\ lost' \in Nat /\ lost' >= lost /\ mailed'[r] <= mailed[r] + 1
      /\ mailed'[r] \in Nat
      /\ session'[w].step = "error" => mailed'[r] <= lost'
      /\ session'[w].step = "sent" /\ r \notin Unsupported => mailed'[r] > 0
  BY <1>0, <1>7 DEF TypeOK, Send, Skip, RejectFails, Become, AfterRefusal, At
<1>9. MailsCounted'
  BY <1>0, <1>1, <1>5, <1>6, <1>7, <1>8 DEF TypeOK, MailsCounted
<1>10. LossesCounted'
  BY <1>0, <1>1, <1>5, <1>6, <1>7, <1>8 DEF TypeOK, LossesCounted
<1>11. Accepted'
  BY <1>0, <1>1, <1>5, <1>6, <1>8 DEF TypeOK, Accepted
<1> QED BY <1>2, <1>3a, <1>3b, <1>4, <1>9, <1>10, <1>11

(* A failed update to SENT makes the row one to be mailed again, and is    *)
(* counted as a loss; a successful one lets it go.                         *)
LEMMA MarkSentInv ==
  ASSUME Inv, NEW w \in Workers, MarkSent(w)
  PROVE  Inv'
<1> USE OutboxConstants DEF Inv
<1> DEFINE r == session[w].row
<1>0. /\ r \in Rows /\ row[r].status = "PROCESSING" /\ At(w, "sent")
      /\ \A v \in Workers : session[v].row = r => v = w
  BY DEF Claims, ClaimedByOne, MarkSent, At, Idle
<1>1. \/ /\ row' = [row EXCEPT ![r].status = "SENT"]
         /\ session' = [session EXCEPT ![w] = Idle]
         /\ lost' = lost
      \/ /\ lost < MaxLost
         /\ lost' = lost + 1
         /\ session' = [session EXCEPT ![w] = [session[w] EXCEPT !.step = "error"]]
         /\ row' = row
  BY DEF MarkSent, Become
<1>2. mailed' = mailed /\ died' = died
  BY DEF MarkSent
<1>3. TypeOK'
  <2>1. lost' \in 0 .. MaxLost
    BY <1>1 DEF TypeOK
  <2>2. row' \in [Rows -> [status : OutboxStatus, attempts : Nat]]
    <3>1. row \in [Rows -> [status : OutboxStatus, attempts : Nat]]
      BY DEF TypeOK
    <3>2. "SENT" \in OutboxStatus
      BY DEF OutboxStatus
    <3>3. \/ row' = row
          \/ row' = [row EXCEPT ![r].status = "SENT"]
      BY <1>1
    <3> QED BY <1>0, <3>1, <3>2, <3>3
  <2>3. session' \in [Workers -> [step : Steps, row : Rows \cup {None}, tries : Nat]]
    BY <1>1 DEF TypeOK, Idle, Steps
  <2> QED BY <1>2, <2>1, <2>2, <2>3 DEF TypeOK
<1>4. Claims'
  BY <1>0, <1>1 DEF TypeOK, Claims, At, Idle
<1>5. ClaimedByOne'
  BY <1>0, <1>1 DEF TypeOK, ClaimedByOne, At, Idle, Claims
<1>5a. \A q \in Rows : /\ row'[q].attempts = row[q].attempts
                       /\ row'[q].status \in {row[q].status, "SENT"}
  <2>1. row \in [Rows -> [status : OutboxStatus, attempts : Nat]]
    BY DEF TypeOK
  <2>2. row' = row \/ row' = [row EXCEPT ![r].status = "SENT"]
    BY <1>1
  <2> SUFFICES ASSUME NEW q \in Rows
               PROVE  /\ row'[q].attempts = row[q].attempts
                      /\ row'[q].status \in {row[q].status, "SENT"}
    OBVIOUS
  <2>3. row'[q] = row[q] \/ row'[q] = [row[q] EXCEPT !.status = "SENT"]
    BY <2>1, <2>2
  <2>4. row[q] \in [status : OutboxStatus, attempts : Nat]
    BY <2>1
  <2> QED BY ONLY <2>3, <2>4
<1>6. AttemptsLeft'
  <2>1. AttemptsLeft
    OBVIOUS
  <2>2. \A q \in Rows : row'[q].status = "SENT" => row[q].status \in {"SENT", "PROCESSING"}
    <3>1. row \in [Rows -> [status : OutboxStatus, attempts : Nat]]
      BY DEF TypeOK
    <3>2. \A q \in Rows : row'[q] = row[q] \/ q = r
      BY <1>1, <3>1
    <3> QED BY <1>0, <3>2
  <2> QED BY ONLY <1>5a, <2>1, <2>2 DEF AttemptsLeft
<1>7. MailsCounted'
  <2>1. \A q \in Rows : /\ row'[q].attempts = row[q].attempts
                       /\ row'[q].status \in {row[q].status, "SENT"}
    BY <1>5a
  <2>2. \A q \in Rows : Working(q, {"send"})' => Working(q, {"send"})
    BY <1>0, <1>1 DEF TypeOK, Working, Idle
  <2> QED BY <1>2, <2>1, <2>2 DEF TypeOK, MailsCounted
<1>8. LossesCounted'
  <2>1. ASSUME NEW q \in Rows, q # r
        PROVE  row'[q] = row[q] /\ (Working(q, {"send", "error"})' => Working(q, {"send", "error"}))
    <3>1. row'[q] = row[q]
      BY <1>1, <2>1 DEF TypeOK
    <3>2. \A v \in Workers : session'[v].row = q => session'[v] = session[v]
      BY <1>0, <1>1, <2>1, OutboxConstants DEF TypeOK, Idle
    <3> QED BY <3>1, <3>2 DEF Working
  <2>2. CASE lost' = lost /\ row' = [row EXCEPT ![r].status = "SENT"]
                         /\ session' = [session EXCEPT ![w] = Idle]
    <3>1. ASSUME NEW q \in Rows
          PROVE  /\ mailed'[q] <= lost' + 1
                 /\ row'[q].status \in {"ABSENT", "PENDING"}
                      \/ Working(q, {"send", "error"})' => mailed'[q] <= lost'
      <4>1. CASE q = r
        <5>1. mailed[q] <= lost + 1
          BY DEF LossesCounted
        <5>2. row'[q].status = "SENT"
          BY <1>0, <2>2, <4>1 DEF TypeOK
        <5>3. \A v \in Workers : v # w => session'[v] = session[v]
          BY <2>2 DEF TypeOK
        <5>4. session'[w].row # q
          BY <2>2, OutboxConstants DEF TypeOK, Idle
        <5>5. \A v \in Workers : session[v].row = q => v = w
          BY <1>0, <4>1
        <5>6. ~ Working(q, {"send", "error"})'
          BY ONLY <5>3, <5>4, <5>5 DEF Working
        <5> QED BY ONLY <1>2, <2>2, <5>1, <5>2, <5>6
      <4>2. CASE q # r
        <5>1. /\ mailed[q] <= lost + 1
              /\ row[q].status \in {"ABSENT", "PENDING"}
                   \/ Working(q, {"send", "error"}) => mailed[q] <= lost
          BY DEF LossesCounted
        <5> HIDE DEF r
        <5> QED BY ONLY <1>2, <2>1, <2>2, <4>2, <5>1
      <4> QED BY <4>1, <4>2
    <3> QED BY <3>1 DEF LossesCounted
  <2>3. CASE lost' = lost + 1
    BY <1>2, <2>1, <2>3 DEF TypeOK, LossesCounted
  <2> QED BY <1>1, <2>2, <2>3
<1>9. Accepted'
  <2>1. ASSUME NEW q \in Rows \ Unsupported,
               row'[q].status = "SENT" \/ Working(q, {"sent"})'
        PROVE  row[q].status = "SENT" \/ Working(q, {"sent"})
    <3>1. row'[q].status = "SENT" => row[q].status = "SENT" \/ q = r
      <4>1. row \in [Rows -> [status : OutboxStatus, attempts : Nat]]
        BY DEF TypeOK
      <4>2. row' = row \/ row' = [row EXCEPT ![r].status = "SENT"]
        BY <1>1
      <4> HIDE DEF r
      <4> QED BY ONLY <4>1, <4>2, q \in Rows
    <3>2. Working(q, {"sent"})' => Working(q, {"sent"})
      BY <1>1 DEF TypeOK, Working, Idle
    <3>3. Working(r, {"sent"})
      BY <1>0 DEF Working, At
    <3> HIDE DEF r
    <3> QED BY ONLY <2>1, <3>1, <3>2, <3>3
  <2>2. Accepted
    OBVIOUS
  <2> QED BY ONLY <1>2, <2>1, <2>2 DEF Accepted
<1> QED BY <1>3, <1>4, <1>5, <1>6, <1>7, <1>8, <1>9

(* The verdicts on a row that was not sent.                                *)
LEMMA GiveBackInv ==
  ASSUME Inv, NEW w \in Workers, Reject(w) \/ MarkFailedOrRetry(w)
  PROVE  Inv'
<1> USE OutboxConstants DEF Inv
<1> DEFINE r == session[w].row
<1>0. /\ r \in Rows /\ row[r].status = "PROCESSING"
      /\ At(w, "send") \/ At(w, "error")
      /\ session[w].tries = row[r].attempts
      /\ \A v \in Workers : session[v].row = r => v = w
  BY DEF Claims, ClaimedByOne, Reject, MarkFailedOrRetry, At, Idle
<1>1. /\ session' = [session EXCEPT ![w] = Idle]
      /\ mailed' = mailed /\ lost' = lost /\ died' = died
      /\ \E new \in [status : {"PENDING", "FAILED"}, attempts : Nat] :
           /\ row' = [row EXCEPT ![r] = new]
           /\ mailed[r] <= new.attempts /\ new.attempts <= MAX_ATTEMPTS
           /\ new.status = "PENDING" =>
                new.attempts < MAX_ATTEMPTS /\ mailed[r] <= lost
  <2>1. CASE Reject(w)
    <3> DEFINE new == [row[r] EXCEPT !.status = "FAILED"]
    <3>1. row' = [row EXCEPT ![r] = new]
      BY <2>1, <1>0 DEF Reject, TypeOK
    <3>2. mailed[r] <= row[r].attempts /\ row[r].attempts < MAX_ATTEMPTS
      BY <1>0, <2>1 DEF Reject, MailsCounted, AttemptsLeft, Working, At
    <3>3. new \in [status : {"PENDING", "FAILED"}, attempts : Nat]
      BY <1>0 DEF TypeOK
    <3>4. new.status = "FAILED" /\ new.attempts = row[r].attempts
      BY <1>0 DEF TypeOK
    <3>5. row[r].attempts \in Nat
      BY <1>0 DEF TypeOK
    <3>6. /\ session' = [session EXCEPT ![w] = Idle]
          /\ mailed' = mailed /\ lost' = lost /\ died' = died
      BY <2>1 DEF Reject, Become
    <3>7. new.attempts <= MAX_ATTEMPTS /\ mailed[r] <= new.attempts
      BY <3>2, <3>4, <3>5
    <3> HIDE DEF new
    <3> QED BY <3>1, <3>3, <3>4, <3>6, <3>7
  <2>2. CASE MarkFailedOrRetry(w)
    <3> DEFINE attempts == session[w].tries + 1
               new == [status |-> AfterError(attempts), attempts |-> attempts]
    <3>1. row' = [row EXCEPT ![r] = new]
      BY <2>2 DEF MarkFailedOrRetry
    <3>2. /\ row[r].attempts \in Nat /\ mailed[r] \in Nat /\ lost \in Nat
          /\ row[r].attempts < MAX_ATTEMPTS
          /\ mailed[r] <= row[r].attempts + 1
          /\ mailed[r] <= lost
      BY <1>0, <2>2 DEF TypeOK, AttemptsLeft, MailsCounted, LossesCounted,
                        Working, At, MarkFailedOrRetry
    <3>3. attempts = row[r].attempts + 1
      BY <1>0
    <3>4. /\ session' = [session EXCEPT ![w] = Idle]
          /\ mailed' = mailed /\ lost' = lost /\ died' = died
      BY <2>2 DEF MarkFailedOrRetry, Become
    <3>5. AfterError(attempts) \in {"PENDING", "FAILED"}
      BY DEF AfterError
    <3>6. AfterError(attempts) = "PENDING" => attempts < MAX_ATTEMPTS
      BY <3>2, <3>3 DEF AfterError, Exhausted
    <3>7. /\ new \in [status : {"PENDING", "FAILED"}, attempts : Nat]
          /\ mailed[r] <= new.attempts /\ new.attempts <= MAX_ATTEMPTS
          /\ new.status = "PENDING" =>
               new.attempts < MAX_ATTEMPTS /\ mailed[r] <= lost
      BY <3>2, <3>3, <3>5, <3>6
    <3> HIDE DEF new
    <3> QED BY <3>1, <3>4, <3>7
  <2> QED BY <2>1, <2>2
<1>2. TypeOK'
  BY <1>0, <1>1 DEF TypeOK, Idle, Steps, OutboxStatus
<1>3. Claims'
  BY <1>0, <1>1 DEF TypeOK, Claims, At, Idle
<1>4. ClaimedByOne'
  BY <1>0, <1>1 DEF TypeOK, ClaimedByOne, At, Idle, Claims
<1>5. AttemptsLeft'
  BY <1>0, <1>1 DEF TypeOK, AttemptsLeft
<1>6. MailsCounted'
  BY <1>0, <1>1 DEF TypeOK, MailsCounted, Working, Idle
<1>7. LossesCounted'
  BY <1>0, <1>1 DEF TypeOK, LossesCounted, Working, Idle
<1>8. Accepted'
  BY <1>0, <1>1 DEF TypeOK, Accepted, Working, Idle
<1> QED BY <1>2, <1>3, <1>4, <1>5, <1>6, <1>7, <1>8

(* A crash forgets the session and leaves the row as it was claimed.       *)
LEMMA CrashInv ==
  ASSUME Inv, NEW w \in Workers, Crash(w)
  PROVE  Inv'
<1> USE OutboxConstants DEF Inv, Crash, Become
<1>1. TypeOK'
  <2>1. session[w].row \in Rows
    BY DEF Claims, At, Idle
  <2>2. died' \subseteq Rows
    BY <2>1 DEF TypeOK
  <2> QED BY <2>2 DEF TypeOK, Idle, Steps
<1>2. Claims' /\ ClaimedByOne'
  BY DEF TypeOK, Claims, ClaimedByOne, At, Idle
<1>3. AttemptsLeft'
  BY DEF AttemptsLeft
<1>4. \A r \in Rows, steps \in SUBSET {"send", "sent", "error"} :
        Working(r, steps)' => Working(r, steps)
  BY DEF TypeOK, Working, Idle
<1>5. MailsCounted' /\ LossesCounted' /\ Accepted'
  BY <1>4 DEF MailsCounted, LossesCounted, Accepted
<1> QED BY <1>1, <1>2, <1>3, <1>5

(* Every step of the specification keeps the invariant.                    *)
LEMMA StepInv == Inv /\ [Next]_vars => Inv'
<1> SUFFICES ASSUME Inv, [Next]_vars PROVE Inv'
  OBVIOUS
<1>1. CASE UNCHANGED vars
  BY <1>1 DEF vars, Inv, TypeOK, Claims, ClaimedByOne, AttemptsLeft,
              MailsCounted, LossesCounted, Accepted, Working, At
<1>2. CASE Next
  BY <1>2, EnqueueInv, ClaimInv, SendInv, MarkSentInv, GiveBackInv, CrashInv
  DEF Next, Step
<1> QED BY <1>1, <1>2

(* The inductive invariant holds of OutboxPoller.                          *)
THEOREM InvHolds == Spec => []Inv
  BY InitInv, StepInv, PTL DEF Spec

(* A row in PROCESSING is either somebody's or was left there by the death *)
(* of its claimer, and then nobody ever has it again.                      *)
Left ==
  \A r \in Rows : r \in died <=> /\ row[r].status = "PROCESSING"
                                 /\ \A w \in Workers : session[w].row # r

LEMMA StepLeft == Inv /\ Left /\ [Next]_vars => Left'
<1> SUFFICES ASSUME Inv, Left, [Next]_vars, NEW r \in Rows
             PROVE  (r \in died)' <=> /\ row'[r].status = "PROCESSING"
                                     /\ \A w \in Workers : session'[w].row # r
  BY DEF Left
<1> DEFINE Mine(w) == session[w].row = r
<1>0. /\ row \in [Rows -> [status : OutboxStatus, attempts : Nat]]
      /\ \A w \in Workers : session[w].row = None \/ session[w].row \in Rows
      /\ session \in [Workers -> [step : Steps, row : Rows \cup {None}, tries : Nat]]
      /\ r # None /\ Idle.row = None
  BY OutboxConstants DEF Inv, TypeOK, Idle
<1>1. \A w \in Workers : ~ At(w, "idle") /\ Mine(w) =>
        /\ row[r].status = "PROCESSING"
        /\ \A v \in Workers : Mine(v) => v = w
  BY DEF Inv, Claims, ClaimedByOne, Idle, At
<1>2. CASE UNCHANGED vars
  BY <1>2 DEF vars, Left
<1>3. ASSUME NEW q \in Rows, Enqueue(q)
      PROVE  (r \in died)' <=> /\ row'[r].status = "PROCESSING"
                              /\ \A w \in Workers : session'[w].row # r
  BY <1>0, <1>3 DEF Left, Enqueue
<1>4. ASSUME NEW w \in Workers, NEW q \in Rows, Claim(w, q)
      PROVE  (r \in died)' <=> /\ row'[r].status = "PROCESSING"
                              /\ \A v \in Workers : session'[v].row # r
  BY <1>0, <1>4 DEF Left, Claim, Claimable, Become, Inv, Claims, At, Idle
<1>5. ASSUME NEW w \in Workers, Send(w) \/ Skip(w) \/ RejectFails(w)
      PROVE  (r \in died)' <=> /\ row'[r].status = "PROCESSING"
                              /\ \A v \in Workers : session'[v].row # r
  BY <1>0, <1>5 DEF Left, Send, Skip, RejectFails, Become
<1>6. ASSUME NEW w \in Workers, Crash(w)
      PROVE  (r \in died)' <=> /\ row'[r].status = "PROCESSING"
                              /\ \A v \in Workers : session'[v].row # r
  <2>1. /\ ~ At(w, "idle") /\ died' = died \cup {session[w].row} /\ row' = row
        /\ session' = [session EXCEPT ![w] = Idle]
    BY <1>6 DEF Crash, Become
  <2>2. CASE Mine(w)
    BY <1>0, <1>1, <2>1, <2>2
  <2>3. CASE ~ Mine(w)
    BY <1>0, <2>1, <2>3 DEF Left
  <2> QED BY <2>2, <2>3
<1>7. ASSUME NEW w \in Workers, MarkSent(w) \/ Reject(w) \/ MarkFailedOrRetry(w)
      PROVE  (r \in died)' <=> /\ row'[r].status = "PROCESSING"
                              /\ \A v \in Workers : session'[v].row # r
  <2>1. ~ At(w, "idle") /\ died' = died /\ session[w].row \in Rows
    BY <1>7 DEF MarkSent, Reject, MarkFailedOrRetry, At, Inv, Claims, Idle
  <2>2. \/ row' = row /\ \E step \in Steps :
             session' = [session EXCEPT ![w] = [session[w] EXCEPT !.step = step]]
        \/ /\ session' = [session EXCEPT ![w] = Idle]
           /\ \A q \in Rows : IF q = session[w].row
                              THEN row'[q].status # "PROCESSING" ELSE row'[q] = row[q]
    BY <1>0, <1>7, <2>1 DEF MarkSent, Reject, MarkFailedOrRetry, Become, AfterError, Steps
  <2>3. CASE Mine(w)
    BY <1>0, <1>1, <2>1, <2>2, <2>3 DEF Left
  <2>4. CASE ~ Mine(w)
    <3>1. row'[r] = row[r]
      BY <2>2, <2>4
    <3>2. session'[w].row # r
      BY <1>0, <2>2, <2>4
    <3>3. \A v \in Workers : v # w => session'[v] = session[v]
      BY <1>0, <2>2
    <3> QED BY <2>1, <2>4, <3>1, <3>2, <3>3 DEF Left
  <2> QED BY <2>3, <2>4
<1> QED BY <1>2, <1>3, <1>4, <1>5, <1>6, <1>7 DEF Next, Step

(* A claimed row dies with its claimer: claim commits PROCESSING, and only *)
(* PENDING rows are ever claimed.  Nothing else strands a row.             *)
THEOREM StrandedByDeath == Spec => []Left
<1>1. Init => Left
  BY OutboxConstants DEF Init, Left, Idle
<1> QED BY <1>1, InvHolds, StepLeft, PTL DEF Spec

(* The rows and sessions stay well typed.                                  *)
THEOREM TypeCorrect == Spec => []TypeOK
  BY InvHolds, PTL DEF Inv

(* claim keeps overlapping ticks apart.                                    *)
THEOREM ClaimsExclude == Spec => []ClaimedByOne
  BY InvHolds, PTL DEF Inv

(* A second mail for one row needs a lost answer or a lost update.         *)
THEOREM DuplicatesExplained == Spec => []DuplicatesHaveCauses
<1>1. Inv => DuplicatesHaveCauses
  BY DEF Inv, LossesCounted, DuplicatesHaveCauses
<1> QED BY <1>1, InvHolds, PTL

(* markFailedOrRetry bounds the mails of a row, whatever gets lost.        *)
THEOREM BudgetKept == Spec => []MailsWithinBudget
<1>1. Inv => MailsWithinBudget
  BY OutboxConstants
  DEF Inv, TypeOK, OutboxStatus, AttemptsLeft, MailsCounted, MailsWithinBudget
<1> QED BY <1>1, InvHolds, PTL

(* No row is marked SENT whose mail was refused.                           *)
THEOREM SentAccepted == Spec => []SentWasAccepted
<1>1. Inv => SentWasAccepted
  BY DEF Inv, Accepted, SentWasAccepted
<1> QED BY <1>1, InvHolds, PTL

-----------------------------------------------------------------------------
(* The refinement.  What the queue reads of a row, and what it sees when   *)
(* the row is written.                                                     *)
LEMMA Stages ==
  /\ Stage("ABSENT") = "absent" /\ Stage("PENDING") = "owed"
  /\ Stage("PROCESSING") = "owed" /\ Stage("SENT") = "sent"
  /\ Stage("FAILED") = "failed"
  BY DEF Stage

LEMMA RowSeen ==
  ASSUME NEW r \in Rows
  PROVE  /\ State[r] = Stage(row[r].status) /\ Tries[r] = row[r].attempts
         /\ row[r].status \in {"PENDING", "PROCESSING"} => State[r] = "owed"
  BY Stages DEF State, Tries

LEMMA RowWritten ==
  ASSUME TypeOK, NEW r \in Rows, NEW new, row' = [row EXCEPT ![r] = new]
  PROVE  /\ State' = [State EXCEPT ![r] = Stage(new.status)]
         /\ Tries' = [Tries EXCEPT ![r] = new.attempts]
<1>1. row'[r] = new /\ \A q \in Rows : q # r => row'[q] = row[q]
  BY DEF TypeOK
<1>2. ASSUME NEW q \in Rows
      PROVE  /\ Stage(row'[q].status) = IF q = r THEN Stage(new.status)
                                               ELSE Stage(row[q].status)
             /\ row'[q].attempts = IF q = r THEN new.attempts ELSE row[q].attempts
  BY <1>1
<1>3. State' = [State EXCEPT ![r] = Stage(new.status)]
  BY ONLY <1>2 DEF State
<1>4. Tries' = [Tries EXCEPT ![r] = new.attempts]
  BY ONLY <1>2 DEF Tries
<1> QED BY <1>3, <1>4

(* A write of the status alone.                                            *)
LEMMA StatusWritten ==
  ASSUME TypeOK, NEW r \in Rows, NEW st, row' = [row EXCEPT ![r].status = st]
  PROVE  State' = [State EXCEPT ![r] = Stage(st)] /\ Tries' = Tries
<1>1. /\ row'[r].status = st /\ row'[r].attempts = row[r].attempts
      /\ \A q \in Rows : q # r => row'[q] = row[q]
  BY DEF TypeOK
<1>2. State' = [State EXCEPT ![r] = Stage(st)]
  <2>1. ASSUME NEW q \in Rows
        PROVE  Stage(row'[q].status) = IF q = r THEN Stage(st) ELSE Stage(row[q].status)
    BY <1>1
  <2> QED BY ONLY <2>1 DEF State
<1>3. Tries' = Tries
  <2>1. \A q \in Rows : row'[q].attempts = row[q].attempts
    BY <1>1
  <2> QED BY <2>1 DEF Tries
<1> QED BY <1>2, <1>3

(* A step that writes no row and mails nothing, as the queue sees it.      *)
LEMMA Unseen == ASSUME UNCHANGED <<row, mailed, lost>> PROVE UNCHANGED Queue!queue
<1>1. State' = State /\ Tries' = Tries
  BY DEF State, Tries
<1> QED BY <1>1 DEF Queue!queue

(* What a worker knows of its row, as the queue sees it.                   *)
LEMMA RowHeld ==
  ASSUME Inv, NEW w \in Workers, ~ At(w, "idle")
  PROVE  LET r == session[w].row IN
         /\ r \in Rows /\ State[r] = "owed" /\ Tries[r] = row[r].attempts
         /\ session[w].tries = row[r].attempts
         /\ session[w].step \in {"send", "sent", "error"}
         /\ row[r].attempts < MAX_ATTEMPTS
<1> DEFINE r == session[w].row
<1>1. session[w] # Idle
  BY DEF At, Idle
<1>2. /\ r \in Rows /\ row[r].status = "PROCESSING"
      /\ session[w].tries = row[r].attempts
  BY <1>1 DEF Inv, Claims
<1>3. row[r].attempts < MAX_ATTEMPTS
  BY <1>2 DEF Inv, AttemptsLeft
<1>4. session[w].step \in {"send", "sent", "error"}
  BY DEF Inv, TypeOK, Steps, At
<1> HIDE DEF r
<1>5. State[r] = "owed" /\ Tries[r] = row[r].attempts
  BY <1>2, RowSeen
<1> QED BY <1>2, <1>3, <1>4, <1>5 DEF r

(* A worker that is about to conclude its row has mailed it.               *)
LEMMA DoneSeen ==
  ASSUME Inv, NEW w \in Workers, At(w, "sent"), NEW r \in Rows, r = session[w].row
  PROVE  Queue!Done(r)
<1>1. Working(r, {"sent"})
  BY DEF Working, At
<1> QED BY <1>1 DEF Inv, Accepted, Queue!Done

LEMMA SendRefines ==
  ASSUME Inv, NEW w \in Workers, Send(w)
  PROVE  Queue!QueueNext \/ UNCHANGED Queue!queue
<1>1. PICK r \in Rows : /\ r = session[w].row /\ State[r] = "owed"
                        /\ Tries[r] = row[r].attempts
  BY RowHeld DEF Send, At
<1>2. /\ row' = row /\ r \notin Unsupported \cup Unaddressed
      /\ \/ mailed' = mailed /\ lost' = lost
         \/ /\ mailed' = [mailed EXCEPT ![r] = mailed[r] + 1]
            /\ lost' \in {lost, lost + 1}
  BY <1>1 DEF Send
<1>3. Working(r, {"send"}) /\ Working(r, {"send", "error"})
  BY <1>1 DEF Send, At, Working
<1>4. mailed[r] <= row[r].attempts /\ mailed[r] <= lost
  BY <1>3 DEF Inv, MailsCounted, LossesCounted
<1>5. CASE mailed' = mailed /\ lost' = lost
  BY <1>2, <1>5, Unseen
<1>6. CASE /\ mailed' = [mailed EXCEPT ![r] = mailed[r] + 1]
           /\ lost' \in {lost, lost + 1}
  <2>1. State' = State /\ Tries' = Tries
    BY <1>2 DEF State, Tries
  <2>2. Queue!Mail(r)
    BY <1>1, <1>2, <1>4, <1>6, <2>1 DEF Queue!Mail, Queue!Owed
  <2> QED BY <2>2 DEF Queue!QueueNext
<1> QED BY <1>2, <1>5, <1>6

LEMMA MarkSentRefines ==
  ASSUME Inv, NEW w \in Workers, MarkSent(w)
  PROVE  Queue!QueueNext
<1>1. PICK r \in Rows : r = session[w].row /\ State[r] = "owed"
  BY RowHeld DEF MarkSent, At
<1>2. Queue!Done(r) /\ mailed' = mailed
  BY <1>1, DoneSeen DEF MarkSent
<1>3. CASE row' = [row EXCEPT ![r].status = "SENT"] /\ lost' = lost
  <2>1. State' = [State EXCEPT ![r] = "sent"] /\ Tries' = Tries
    BY <1>3, StatusWritten, Stages DEF Inv
  <2>2. Queue!Conclude(r)
    BY <1>1, <1>2, <1>3, <2>1 DEF Queue!Conclude, Queue!Owed
  <2> QED BY <2>2 DEF Queue!QueueNext
<1>4. CASE row' = row /\ lost' = lost + 1
  <2>1. State' = State /\ Tries' = Tries
    BY <1>4 DEF State, Tries
  <2>2. Queue!LoseUpdate(r)
    BY <1>1, <1>2, <1>4, <2>1 DEF Queue!LoseUpdate, Queue!Owed
  <2> QED BY <2>2 DEF Queue!QueueNext
<1> QED BY <1>1, <1>3, <1>4 DEF MarkSent

LEMMA RejectRefines ==
  ASSUME Inv, NEW w \in Workers, Reject(w)
  PROVE  Queue!QueueNext
<1>1. PICK r \in Rows : r = session[w].row /\ State[r] = "owed"
  BY RowHeld DEF Reject, At
<1>2. /\ r \in Unaddressed /\ row' = [row EXCEPT ![r].status = "FAILED"]
      /\ UNCHANGED <<mailed, lost>>
  BY <1>1 DEF Reject
<1>3. TypeOK
  BY DEF Inv
<1>4. State' = [State EXCEPT ![r] = "failed"] /\ Tries' = Tries
  <2>1. State' = [State EXCEPT ![r] = Stage("FAILED")] /\ Tries' = Tries
    BY ONLY <1>2, <1>3, StatusWritten
  <2> QED BY ONLY <2>1, Stages
<1>5. Queue!Refuse(r)
  BY <1>1, <1>2, <1>4 DEF Queue!Refuse, Queue!Owed
<1> QED BY <1>5 DEF Queue!QueueNext

(* The budget is tested on the attempts read at the claim, which are those *)
(* of the row still.                                                       *)
LEMMA FailRefines ==
  ASSUME Inv, NEW w \in Workers, MarkFailedOrRetry(w)
  PROVE  Queue!QueueNext
<1>1. PICK r \in Rows : /\ r = session[w].row /\ State[r] = "owed"
                        /\ Tries[r] = row[r].attempts
                        /\ session[w].tries = row[r].attempts
                        /\ row[r].attempts < MAX_ATTEMPTS
  BY RowHeld DEF MarkFailedOrRetry, At
<1>2. PICK n \in Nat : n = row[r].attempts
  BY DEF Inv, TypeOK
<1> DEFINE new == [status |-> AfterError(n + 1), attempts |-> n + 1]
<1>3. row' = [row EXCEPT ![r] = new] /\ UNCHANGED <<mailed, lost>>
  BY <1>1, <1>2 DEF MarkFailedOrRetry
<1>4. new.status = AfterError(n + 1) /\ new.attempts = n + 1
  OBVIOUS
<1> HIDE DEF new
<1>5. /\ State' = [State EXCEPT ![r] = Stage(AfterError(n + 1))]
      /\ Tries' = [Tries EXCEPT ![r] = n + 1]
  <2>1. TypeOK
    BY DEF Inv
  <2>2. /\ State' = [State EXCEPT ![r] = Stage(new.status)]
        /\ Tries' = [Tries EXCEPT ![r] = new.attempts]
    BY ONLY <1>3, <2>1, RowWritten
  <2> QED BY ONLY <1>4, <2>2
<1>6. State' = IF n + 1 < MAX_ATTEMPTS THEN State ELSE [State EXCEPT ![r] = "failed"]
  <2>1. CASE n + 1 < MAX_ATTEMPTS
    <3>1. Stage(AfterError(n + 1)) = State[r]
      BY <1>1, <2>1, Stages, OutboxConstants DEF AfterError, Exhausted
    <3>2. [State EXCEPT ![r] = State[r]] = State
      BY DEF State
    <3> QED BY <1>5, <2>1, <3>1, <3>2
  <2>2. CASE ~ n + 1 < MAX_ATTEMPTS
    <3>1. Stage(AfterError(n + 1)) = "failed"
      BY <2>2, Stages, OutboxConstants DEF AfterError, Exhausted
    <3> QED BY <1>5, <2>2, <3>1
  <2> QED BY <2>1, <2>2
<1>7. Queue!Fail(r)
  BY <1>1, <1>2, <1>3, <1>5, <1>6 DEF Queue!Fail, Queue!Owed
<1> QED BY <1>7 DEF Queue!QueueNext

LEMMA EnqueueRefines ==
  ASSUME Inv, NEW r \in Rows, Enqueue(r)
  PROVE  Queue!QueueNext
<1>1. /\ State[r] = "absent" /\ UNCHANGED <<mailed, lost>>
      /\ row' = [row EXCEPT ![r].status = "PENDING"]
  BY RowSeen, Stages DEF Enqueue
<1>2. State' = [State EXCEPT ![r] = "owed"] /\ Tries' = Tries
  BY <1>1, StatusWritten, Stages DEF Inv
<1>3. Queue!Announce(r)
  BY <1>1, <1>2 DEF Queue!Announce
<1> QED BY <1>3 DEF Queue!QueueNext

(* The queue knows of no claims.                                           *)
LEMMA ClaimRefines ==
  ASSUME Inv, NEW w \in Workers, NEW r \in Rows, Claim(w, r)
  PROVE  UNCHANGED Queue!queue
<1>1. /\ row[r].status = "PENDING" /\ UNCHANGED <<mailed, lost>>
      /\ row' = [row EXCEPT ![r].status = "PROCESSING"]
  BY DEF Claim, Claimable
<1>2. State' = [State EXCEPT ![r] = "owed"] /\ Tries' = Tries
  BY <1>1, StatusWritten, Stages DEF Inv
<1>3. State[r] = "owed"
  BY <1>1, RowSeen
<1>4. [State EXCEPT ![r] = State[r]] = State
  BY DEF State
<1> QED BY <1>1, <1>2, <1>3, <1>4 DEF Queue!queue

LEMMA StepRefines ==
  ASSUME Inv, [Next]_vars PROVE [Queue!QueueNext]_(Queue!queue)
<1>1. CASE UNCHANGED vars
  BY <1>1, Unseen DEF vars
<1>2. ASSUME NEW r \in Rows, Enqueue(r)
      PROVE  Queue!QueueNext
  BY <1>2, EnqueueRefines
<1>3. ASSUME NEW w \in Workers, NEW r \in Rows, Claim(w, r)
      PROVE  UNCHANGED Queue!queue
  BY <1>3, ClaimRefines
<1>4. ASSUME NEW w \in Workers, Step(w)
      PROVE  Queue!QueueNext \/ UNCHANGED Queue!queue
  <2>1. CASE Send(w)
    BY <2>1, SendRefines
  <2>2. CASE Skip(w)
    BY <2>2, Unseen DEF Skip
  <2>2a. CASE RejectFails(w)
    BY <2>2a, Unseen DEF RejectFails
  <2>3. CASE Reject(w)
    BY <2>3, RejectRefines
  <2>4. CASE MarkSent(w)
    BY <2>4, MarkSentRefines
  <2>5. CASE MarkFailedOrRetry(w)
    BY <2>5, FailRefines
  <2> QED BY <1>4, <2>1, <2>2, <2>2a, <2>3, <2>4, <2>5 DEF Step
<1>5. ASSUME NEW w \in Workers, Crash(w)
      PROVE  UNCHANGED Queue!queue
  BY <1>5, Unseen DEF Crash
<1> QED BY <1>1, <1>2, <1>3, <1>4, <1>5 DEF Next

LEMMA InitRefines == Init => Queue!QueueInit
<1> SUFFICES ASSUME Init PROVE Queue!QueueInit
  OBVIOUS
<1>1. State = [r \in Rows |-> "absent"] /\ Tries = [r \in Rows |-> 0]
  BY Stages DEF Init, State, Tries
<1> QED BY <1>1 DEF Init, Queue!QueueInit

(* OutboxPoller, with its overlapping ticks, refusals, losses and crashes, *)
(* implements the queue: no row is mailed that is not owed, none is taken  *)
(* up again, and every attempt that is counted is one of the budget.       *)
THEOREM ImplementsQueue == Spec => KeepsQueue
  BY InvHolds, InitRefines, StepRefines, PTL DEF Spec, KeepsQueue, Queue!QueueSpec

-----------------------------------------------------------------------------
(* The queue is not too weak a promise: what matters of Outbox follows     *)
(* from its refining MailQueue, whatever else it does.                     *)
QueueInv ==
  /\ State \in [Rows -> {"absent", "owed", "sent", "failed"}]
  /\ Tries \in [Rows -> Nat] /\ mailed \in [Rows -> Nat] /\ lost \in Nat
  /\ \A r \in Rows :
       /\ State[r] = "absent" => Tries[r] = 0
       /\ State[r] = "owed" => Tries[r] < MAX_ATTEMPTS
       /\ mailed[r] <= lost + 1 /\ mailed[r] <= MAX_ATTEMPTS
       /\ State[r] = "sent" => Queue!Done(r)

LEMMA QueueInitInv == Queue!QueueInit => QueueInv
<1> SUFFICES ASSUME Queue!QueueInit PROVE QueueInv
  OBVIOUS
<1> QED BY OutboxConstants DEF Queue!QueueInit, QueueInv

LEMMA QueueStepInv ==
  ASSUME QueueInv, NEW r \in Rows,
         \/ Queue!Announce(r) \/ Queue!Mail(r) \/ Queue!Conclude(r)
         \/ Queue!LoseUpdate(r) \/ Queue!Fail(r) \/ Queue!Refuse(r)
  PROVE  QueueInv'
<1>0. MAX_ATTEMPTS \in Nat \ {0}
  BY OutboxConstants
<1>1. CASE Queue!Announce(r)
  BY <1>0, <1>1 DEF QueueInv, Queue!Announce, Queue!Done
<1>2. CASE Queue!Mail(r)
  <2>1. /\ State' = State /\ Tries' = Tries /\ lost' \in {lost, lost + 1}
        /\ mailed' = [mailed EXCEPT ![r] = mailed[r] + 1]
        /\ State[r] = "owed" /\ mailed[r] <= Tries[r] /\ mailed[r] <= lost
    BY <1>2 DEF Queue!Mail, Queue!Owed
  <2>2. mailed'[r] <= lost' + 1 /\ mailed'[r] <= MAX_ATTEMPTS
    BY <1>0, <2>1 DEF QueueInv
  <2>3. ASSUME NEW q \in Rows
        PROVE  /\ mailed'[q] <= lost' + 1 /\ mailed'[q] <= MAX_ATTEMPTS
               /\ mailed'[q] >= mailed[q]
    BY <1>0, <2>1, <2>2 DEF QueueInv
  <2>4. mailed' \in [Rows -> Nat] /\ lost' \in Nat
    BY <2>1 DEF QueueInv
  <2>5. \A q \in Rows : State[q] = "sent" => Queue!Done(q)'
    BY <2>3, <2>4 DEF QueueInv, Queue!Done
  <2> QED BY <2>1, <2>3, <2>4, <2>5 DEF QueueInv
<1>3. CASE Queue!Conclude(r)
  BY <1>0, <1>3 DEF QueueInv, Queue!Conclude, Queue!Owed, Queue!Done
<1>4. CASE Queue!LoseUpdate(r)
  BY <1>0, <1>4 DEF QueueInv, Queue!LoseUpdate, Queue!Owed, Queue!Done
<1>5. CASE Queue!Fail(r)
  BY <1>0, <1>5 DEF QueueInv, Queue!Fail, Queue!Owed, Queue!Done
<1>6. CASE Queue!Refuse(r)
  BY <1>0, <1>6 DEF QueueInv, Queue!Refuse, Queue!Owed, Queue!Done
<1> QED BY <1>1, <1>2, <1>3, <1>4, <1>5, <1>6

LEMMA QueueKeepsInv == QueueInv /\ [Queue!QueueNext]_(Queue!queue) => QueueInv'
<1>1. ASSUME QueueInv, UNCHANGED Queue!queue PROVE QueueInv'
  BY <1>1 DEF QueueInv, Queue!queue, Queue!Done
<1>2. ASSUME QueueInv, Queue!QueueNext PROVE QueueInv'
  BY <1>2, QueueStepInv DEF Queue!QueueNext
<1> QED BY <1>1, <1>2

(* Of any poller that keeps the queue's promises: a mail is repeated only  *)
(* for something lost and within the budget, and SENT means accepted.      *)
THEOREM QueueSuffices ==
  KeepsQueue => [](DuplicatesHaveCauses /\ MailsWithinBudget /\ SentWasAccepted)
<1>1. QueueInv => DuplicatesHaveCauses /\ MailsWithinBudget /\ SentWasAccepted
  <2> SUFFICES ASSUME QueueInv, NEW r \in Rows
               PROVE  /\ mailed[r] <= lost + 1 /\ mailed[r] <= MAX_ATTEMPTS
                      /\ row[r].status = "SENT" /\ r \notin Unsupported => mailed[r] > 0
    BY DEF DuplicatesHaveCauses, MailsWithinBudget, SentWasAccepted
  <2>1. row[r].status = "SENT" => State[r] = "sent"
    BY RowSeen, Stages
  <2> QED BY <2>1 DEF QueueInv, Queue!Done
<1> QED BY <1>1, QueueInitInv, QueueKeepsInv, PTL DEF KeepsQueue, Queue!QueueSpec
=============================================================================
