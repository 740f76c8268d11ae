---------------------------- MODULE OrderLedger -----------------------------
(***************************************************************************)
(* What the payment services promise the rest of the shop about an order,  *)
(* whichever of the browser's callback, the webhooks, reconciliation and   *)
(* the staff act on it and in whatever order they do: its status moves     *)
(* along the state machine, money is taken for it once and for good, and   *)
(* it is paid, and the customer told so, in the one step that records the  *)
(* money.                                                                  *)
(***************************************************************************)
EXTENDS OrderLifecycle

CONSTANT Orders

VARIABLES
  status,  \* orders.status
  taken,   \* orders with a captured payment on record
  told     \* orders whose ORDER_PAID notification is queued

ledger == <<status, taken, told>>

LedgerInit ==
  /\ status = [o \in Orders |-> "PENDING_PAYMENT"]
  /\ taken = {}
  /\ told = {}

(* The money arrives while the order waits for it.                         *)
Pay(o) ==
  /\ status[o] = "PENDING_PAYMENT" /\ o \notin taken
  /\ status' = [status EXCEPT ![o] = "PAID"]
  /\ taken' = taken \cup {o}
  /\ told' = told \cup {o}

(* The money arrives for an order that has moved on: it is recorded, the   *)
(* order is left as it is, and the customer may or may not hear of it.     *)
TakeLate(o) ==
  /\ o \notin taken
  /\ taken' = taken \cup {o}
  /\ told' \in {told, told \cup {o}}
  /\ UNCHANGED status

(* Any other legal move: a failure, a retry, fulfilment, a staff decision. *)
Move(o) ==
  /\ \E to \in ORDER_STATE_TRANSITIONS[status[o]] :
       status' = [status EXCEPT ![o] = to]
  /\ UNCHANGED <<taken, told>>

LedgerNext == \E o \in Orders : Pay(o) \/ TakeLate(o) \/ Move(o)

LedgerSpec == LedgerInit /\ [][LedgerNext]_ledger
=============================================================================
