--------------------------- MODULE MCStoreDomains ---------------------------
(***************************************************************************)
(* StoreDomains for TLC.                                                   *)
(***************************************************************************)
EXTENDS StoreDomains, TLC

Symmetry == Permutations(Customs) \cup Permutations(Hosts) \cup Permutations(Workers)

=============================================================================
