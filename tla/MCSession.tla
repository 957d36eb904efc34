----------------------------- MODULE MCSession -----------------------------
(***************************************************************************)
(* Small instances for the model checker.  Two browsers of one household   *)
(* share an address.                                                       *)
(***************************************************************************)
EXTENDS Session, TLC

CONSTANTS n3, a1, a2

MCAdresse == [n \in Navigateurs |-> IF n = n3 THEN a2 ELSE a1]

MCSymetrie ==
  Permutations(Requetes) \cup Permutations(Navigateurs \ {n3}) \cup Permutations(Liens)
=============================================================================
