---------------------------- MODULE MCChiffrement ----------------------------
(***************************************************************************)
(* A column in clear and one under the first key.                          *)
(***************************************************************************)
EXTENDS Chiffrement, TLC

CONSTANT t1

MCBase ==
  [l \in Lignes |-> [c \in Colonnes |->
     [cle |-> IF c = 1 THEN Clair ELSE 1, texte |-> t1]]]

MCSymetrie == Permutations(Instances)
=============================================================================
