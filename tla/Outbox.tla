------------------------------- MODULE Outbox -------------------------------
(***************************************************************************)
(* The transactional outbox: rows that other services insert with the      *)
(* change they announce, and OutboxPoller, whose ticks overlap when a slow *)
(* one is still running (or on another instance), mailing them.  A worker  *)
(* is one processOne; it is cut at each commit and around the mail call.   *)
(***************************************************************************)
EXTENDS Naturals, FiniteSets

CONSTANTS
  Rows,          \* rows of outbox_events
  Workers,       \* processOne calls that can be in flight at once
  MAX_ATTEMPTS,  \* retry budget of a row (5 in the code)
  Unsupported,   \* rows of a type without a mail
  Unaddressed,   \* rows for which no recipient can be found
  MaxLost,       \* bound: answers and updates that get lost
  MaxCrashes,    \* bound: claimers that die
  None

ASSUME OutboxConstants ==
  /\ MAX_ATTEMPTS \in Nat \ {0}
  /\ Unsupported \subseteq Rows /\ Unaddressed \subseteq Rows \ Unsupported
  /\ MaxLost \in Nat /\ MaxCrashes \in Nat
  /\ None \notin Rows

VARIABLES
  row,      \* outbox_events
  mailed,   \* per row: mails Resend accepted for it
  lost,     \* answers of Resend and updates of the poller lost so far
  died,     \* rows whose claimer died, or failed to write its last update
  session   \* per worker: the row it has claimed and how far it is

vars == <<row, mailed, lost, died, session>>

-----------------------------------------------------------------------------
OutboxStatus == {"ABSENT", "PENDING", "PROCESSING", "SENT", "FAILED"}

Steps == {"idle", "send", "sent", "error"}

Idle == [step |-> "idle", row |-> None, tries |-> 0]

TypeOK ==
  /\ row \in [Rows -> [status : OutboxStatus, attempts : Nat]]
  /\ mailed \in [Rows -> Nat]
  /\ lost \in 0 .. MaxLost
  /\ died \subseteq Rows
  /\ session \in [Workers -> [step : Steps, row : Rows \cup {None}, tries : Nat]]

Init ==
  /\ row = [r \in Rows |-> [status |-> "ABSENT", attempts |-> 0]]
  /\ mailed = [r \in Rows |-> 0]
  /\ lost = 0
  /\ died = {}
  /\ session = [w \in Workers |-> Idle]

-----------------------------------------------------------------------------
At(w, step) == session[w].step = step

Become(w, s) == session' = [session EXCEPT ![w] = s]

(* enqueueOutboxEvent, in the transaction of a caller.                     *)
Enqueue(r) ==
  /\ row[r].status = "ABSENT"
  /\ row' = [row EXCEPT ![r].status = "PENDING"]
  /\ UNCHANGED <<mailed, lost, died, session>>

Claimable_Unchecked(r) == row[r].status \in {"PENDING", "PROCESSING"}

(* claim re-reads the row a tick found due, and skips a locked one.        *)
Claimable(r) == row[r].status = "PENDING"

Claim(w, r) ==
  /\ At(w, "idle")
  /\ Claimable(r)
  /\ row' = [row EXCEPT ![r].status = "PROCESSING"]
  /\ Become(w, [step |-> "send", row |-> r, tries |-> row[r].attempts])
  /\ UNCHANGED <<mailed, lost, died>>

AfterRefusal_Ignored == "sent"

(* Resend reports a refusal in its result; EmailService throws it.         *)
AfterRefusal == "error"

(* The mail is refused; or accepted; or accepted, but the answer is lost.  *)
Send(w) ==
  LET s == session[w]
      Goes(step) == Become(w, [s EXCEPT !.step = step])
      Accepted == mailed' = [mailed EXCEPT ![s.row] = @ + 1]
  IN
  /\ At(w, "send")
  /\ s.row \notin Unsupported \cup Unaddressed
  /\ \/ Goes(AfterRefusal) /\ UNCHANGED <<mailed, lost>>
     \/ Accepted /\ Goes("sent") /\ UNCHANGED lost
     \/ /\ lost < MaxLost
        /\ lost' = lost + 1
        /\ Accepted /\ Goes("error")
  /\ UNCHANGED <<row, died>>

Skip(w) ==
  LET s == session[w] IN
  /\ At(w, "send")
  /\ s.row \in Unsupported
  /\ Become(w, [s EXCEPT !.step = "sent"])
  /\ UNCHANGED <<row, mailed, lost, died>>

(* Without a recipient the row fails at once, uncounted.                   *)
Reject(w) ==
  LET s == session[w] IN
  /\ At(w, "send")
  /\ s.row \in Unaddressed
  /\ row' = [row EXCEPT ![s.row].status = "FAILED"]
  /\ Become(w, Idle)
  /\ UNCHANGED <<mailed, lost, died>>

(* The lookup of the user fails, or the update above does: the catch takes *)
(* either for a failure to send.                                           *)
RejectFails(w) ==
  LET s == session[w] IN
  /\ At(w, "send")
  /\ s.row \in Unaddressed
  /\ Become(w, [s EXCEPT !.step = "error"])
  /\ UNCHANGED <<row, mailed, lost, died>>

(* By the row's id alone.  If this update fails, the catch takes it for a  *)
(* failure to send.                                                        *)
MarkSent(w) ==
  LET s == session[w] IN
  /\ At(w, "sent")
  /\ \/ /\ row' = [row EXCEPT ![s.row].status = "SENT"]
        /\ Become(w, Idle)
        /\ UNCHANGED lost
     \/ /\ lost < MaxLost
        /\ lost' = lost + 1
        /\ Become(w, [s EXCEPT !.step = "error"])
        /\ UNCHANGED row
  /\ UNCHANGED <<mailed, died>>

Exhausted_OneMore(attempts) == attempts > MAX_ATTEMPTS

Exhausted(attempts) == attempts >= MAX_ATTEMPTS

AfterError_AsWebhooks(attempts) ==
  IF Exhausted(attempts) THEN "FAILED" ELSE "PROCESSING_FAILED"

AfterError_Kept(attempts) == "PROCESSING"

AfterError(attempts) == IF Exhausted(attempts) THEN "FAILED" ELSE "PENDING"

MarkFailedOrRetry(w) ==
  LET s == session[w]
      attempts == s.tries + 1
  IN
  /\ At(w, "error")
  /\ row' = [row EXCEPT ![s.row] = [status |-> AfterError(attempts),
                                    attempts |-> attempts]]
  /\ Become(w, Idle)
  /\ UNCHANGED <<mailed, lost, died>>

(* The process dies, or the last update fails and the error leaves the     *)
(* tick: nothing looks at a PROCESSING row again.                          *)
Crash(w) ==
  /\ ~ At(w, "idle")
  /\ Cardinality(died) < MaxCrashes
  /\ died' = died \cup {session[w].row}
  /\ Become(w, Idle)
  /\ UNCHANGED <<row, mailed, lost>>

Step(w) == \/ Send(w) \/ Skip(w) \/ Reject(w) \/ RejectFails(w)
           \/ MarkSent(w) \/ MarkFailedOrRetry(w)

Next ==
  \/ \E r \in Rows : Enqueue(r)
  \/ \E w \in Workers, r \in Rows : Claim(w, r)
  \/ \E w \in Workers : Step(w) \/ Crash(w)

Spec == Init /\ [][Next]_vars

(* The cron looks for due rows for ever, oldest first, and a claimed row   *)
(* is worked on; no caller need ever enqueue anything.                     *)
FairSpec ==
  /\ Spec
  /\ \A r \in Rows : SF_vars(\E w \in Workers : Claim(w, r))
  /\ \A w \in Workers : WF_vars(Step(w))

-----------------------------------------------------------------------------
(* PROPERTIES                                                              *)

(* No two ticks work on the same row: the claim is what stands between     *)
(* overlapping ticks and a mail sent twice.                                *)
ClaimedByOne ==
  \A v, w \in Workers : session[v].row = session[w].row /\ ~ At(v, "idle") => v = w

(* A row is mailed twice only if a mail was accepted unknown to the        *)
(* poller, and no more often than that.                                    *)
DuplicatesHaveCauses == \A r \in Rows : mailed[r] <= lost + 1

(* However often its mail is accepted unknown to the poller, a row is      *)
(* mailed at most MAX_ATTEMPTS times.                                      *)
MailsWithinBudget == \A r \in Rows : mailed[r] <= MAX_ATTEMPTS

(* A row counts as sent only if Resend accepted its mail, or if its type   *)
(* has none.                                                               *)
SentWasAccepted ==
  \A r \in Rows : row[r].status = "SENT" /\ r \notin Unsupported => mailed[r] > 0

(* Every row is sent or given up on, whatever is refused, lost or dies     *)
(* beside it; the one exception is a row left in PROCESSING by the very    *)
(* claimer that died.                                                      *)
OutboxSettles ==
  \A r \in Rows : row[r].status = "PENDING" ~>
    \/ row[r].status \in {"SENT", "FAILED"}
    \/ r \in died /\ row[r].status = "PROCESSING"

-----------------------------------------------------------------------------
(* REFINEMENT                                                              *)

Stage(status) == CASE status = "ABSENT"                   -> "absent"
                   [] status \in {"PENDING", "PROCESSING"} -> "owed"
                   [] status = "SENT"                     -> "sent"
                   [] status = "FAILED"                   -> "failed"

(* The table as the queue sees it, which knows of no claims.               *)
State == [r \in Rows |-> Stage(row[r].status)]

Tries == [r \in Rows |-> row[r].attempts]

Queue == INSTANCE MailQueue WITH state <- State, tries <- Tries, mails <- mailed

(* The poller keeps the queue's promises: whatever overlaps, is refused,   *)
(* lost or dies, a row is mailed only while it is owed, once an attempt    *)
(* and again only for something lost; it is concluded only when mailed,    *)
(* given up only when its attempts are used up, and never taken up again.  *)
KeepsQueue == Queue!QueueSpec

=============================================================================
