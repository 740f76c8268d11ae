----------------------------- MODULE RefundBook -----------------------------
(***************************************************************************)
(* What the refund services promise the shop's accounts: a book of what is *)
(* given back.  An entry is made in one step, and one that the shop asks   *)
(* the provider for only if all that is given back or owed for the order   *)
(* then leaves room for it; what is owed for a cancellation is entered     *)
(* without such a test.  An entry settles once.  There are no requests in  *)
(* flight, no provider and no webhooks.                                    *)
(***************************************************************************)
EXTENDS Naturals, FiniteSetsExt, OrderLifecycle

CONSTANTS Orders, MaxRefunds, CapturedAmount, AdminTargets, None

VARIABLES
  status,  \* where an order is
  entry    \* the book

book == <<status, entry>>

Lines == 1 .. MaxRefunds

Blank == [status |-> "ABSENT", order |-> None, amount |-> 0, inApp |-> FALSE]

BookInit ==
  /\ status = [o \in Orders |-> "PAID"]
  /\ entry = [i \in Lines |-> Blank]

-----------------------------------------------------------------------------
SumOver(rows, S) == MapThenSumSet(LAMBDA i : rows[i].amount, S)

(* Given back or owed.                                                     *)
Counting(o) == { i \in Lines : /\ entry[i].order = o
                               /\ entry[i].status \in {"PENDING", "PROCESSED"} }

Room(o, amount) == amount + SumOver(entry, Counting(o)) <= CapturedAmount

Enter(o, amount, inApp) ==
  \E i \in Lines :
    /\ entry[i].status = "ABSENT"
    /\ entry' = [entry EXCEPT ![i] = [status |-> "PENDING", order |-> o,
                                      amount |-> amount, inApp |-> inApp]]

(* An order moves, unless somebody else has moved it first.                *)
Moves(o, to) ==
  \/ isTransitionAllowed(status[o], to) /\ status' = [status EXCEPT ![o] = to]
  \/ UNCHANGED status

Ask(o, amount) ==
  /\ Room(o, amount)
  /\ Enter(o, amount, TRUE)
  /\ UNCHANGED status

(* Nothing is owed if nobody was seen to have paid.                        *)
Cancel(o) ==
  /\ Enter(o, CapturedAmount, FALSE) \/ UNCHANGED entry
  /\ Moves(o, "CANCELLED")

(* Only what the provider was asked for can fail.                          *)
Settle(i, to) ==
  /\ entry[i].status = "PENDING" /\ entry[i].inApp
  /\ entry' = [entry EXCEPT ![i].status = to]
  /\ UNCHANGED status

(* The staff have given back by hand whatever is still pending.            *)
Record(o) ==
  /\ entry' = [i \in Lines |->
                 IF entry[i].order = o /\ entry[i].status = "PENDING"
                 THEN [entry[i] EXCEPT !.status = "PROCESSED"] ELSE entry[i]]
  /\ Moves(o, "REFUNDED")

Fulfil(o, to) == UNCHANGED entry /\ Moves(o, to)

BookNext ==
  \/ \E o \in Orders : \/ \E to \in AdminTargets : Fulfil(o, to)
                       \/ \E amount \in 1 .. CapturedAmount : Ask(o, amount)
                       \/ Cancel(o) \/ Record(o)
  \/ \E i \in Lines, to \in {"PROCESSED", "FAILED"} : Settle(i, to)

BookSpec == BookInit /\ [][BookNext]_book
=============================================================================
