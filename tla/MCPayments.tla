----------------------------- MODULE MCPayments -----------------------------
(* Small instances of Payments for TLC.                                    *)
EXTENDS Payments, TLC

CONSTANTS o1, o2

(* o1 is the older order, whichever of the two there are.                  *)
Ages == [o \in Orders |-> IF o = o1 THEN 1 ELSE 2]

(* Workers and Razorpay orders are interchangeable, and so are payments    *)
(* that are not told apart by Mismatched.                                  *)
Symmetry == Permutations(Workers) \cup Permutations(ProviderOrders)
              \cup Permutations(Payments \ Mismatched)
=============================================================================
