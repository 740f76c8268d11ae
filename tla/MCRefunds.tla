----------------------------- MODULE MCRefunds ------------------------------
(* Small instances of Refunds for TLC.                                     *)
EXTENDS Refunds, TLC

(* Workers and Razorpay refunds are interchangeable.                       *)
Symmetry == Permutations(Workers) \cup Permutations(ProviderRefunds)
=============================================================================
