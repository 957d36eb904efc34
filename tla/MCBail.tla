------------------------------- MODULE MCBail -------------------------------
(***************************************************************************)
(* Small tables for the model checker.  One request edits, deletes or      *)
(* generates while another does; keys of one kind are interchangeable.     *)
(***************************************************************************)
EXTENDS Bail, TLC

MCSymetrie ==
  Permutations(Requetes) \cup Permutations(Generations) \cup Permutations(Fiches)
    \cup Permutations(Baux) \cup Permutations(Valeurs)
=============================================================================
