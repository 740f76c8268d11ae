----------------------------- MODULE MailQueue ------------------------------
(***************************************************************************)
(* What the outbox promises the services that announce something: a queue  *)
(* of mails owed.  One that is owed is mailed at most once per attempt,    *)
(* and again only if something was lost; it is concluded only once it has  *)
(* been mailed, given up only when its attempts are used up; and then it   *)
(* stays so and is not mailed any more.  Nothing is claimed, no poller is  *)
(* at work and none dies: a row its poller has left is owed for ever.      *)
(***************************************************************************)
EXTENDS Naturals

CONSTANTS Rows, MAX_ATTEMPTS, Unsupported, Unaddressed

VARIABLES
  state,  \* "absent", "owed", "sent" or "failed"
  tries,  \* attempts that have failed
  mails,  \* mails accepted
  lost    \* how much was lost, of answers and updates

queue == <<state, tries, mails, lost>>

QueueInit ==
  /\ state = [r \in Rows |-> "absent"]
  /\ tries = [r \in Rows |-> 0]
  /\ mails = [r \in Rows |-> 0]
  /\ lost = 0

-----------------------------------------------------------------------------
Owed(r) == state[r] = "owed"

Done(r) == r \in Unsupported \/ mails[r] > 0

Announce(r) ==
  /\ state[r] = "absent"
  /\ state' = [state EXCEPT ![r] = "owed"]
  /\ UNCHANGED <<tries, mails, lost>>

(* The answer to the mail may be lost.                                     *)
Mail(r) ==
  /\ Owed(r)
  /\ r \notin Unsupported \cup Unaddressed
  /\ mails[r] <= tries[r] /\ mails[r] <= lost
  /\ mails' = [mails EXCEPT ![r] = @ + 1]
  /\ lost' \in {lost, lost + 1}
  /\ UNCHANGED <<state, tries>>

Conclude(r) ==
  /\ Owed(r) /\ Done(r)
  /\ state' = [state EXCEPT ![r] = "sent"]
  /\ UNCHANGED <<tries, mails, lost>>

LoseUpdate(r) ==
  /\ Owed(r) /\ Done(r)
  /\ lost' = lost + 1
  /\ UNCHANGED <<state, tries, mails>>

(* The last attempt to fail gives the row up.                              *)
Fail(r) ==
  /\ Owed(r)
  /\ tries[r] < MAX_ATTEMPTS
  /\ tries' = [tries EXCEPT ![r] = @ + 1]
  /\ state' = IF tries[r] + 1 < MAX_ATTEMPTS THEN state
                                             ELSE [state EXCEPT ![r] = "failed"]
  /\ UNCHANGED <<mails, lost>>

Refuse(r) ==
  /\ Owed(r)
  /\ r \in Unaddressed
  /\ state' = [state EXCEPT ![r] = "failed"]
  /\ UNCHANGED <<tries, mails, lost>>

QueueNext == \E r \in Rows : \/ Announce(r) \/ Mail(r) \/ Conclude(r)
                             \/ LoseUpdate(r) \/ Fail(r) \/ Refuse(r)

QueueSpec == QueueInit /\ [][QueueNext]_queue
=============================================================================
