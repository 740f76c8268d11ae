-------------------------- MODULE MCSubscriptions --------------------------
(* Constants of the runs on Subscriptions.                                 *)
EXTENDS Subscriptions, TLC

(* Nothing distinguishes one worker, plan or key from another.             *)
Symmetry == Permutations(Workers) \cup Permutations(Plans) \cup Permutations(Keys)

=============================================================================
