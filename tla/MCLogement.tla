---------------------------- MODULE MCLogement -----------------------------
(***************************************************************************)
(* Flats 1 and 4, and flat 2 outside the group.                            *)
(***************************************************************************)
EXTENDS Logement, TLC

MCSymetrie == Permutations(Groupe)
=============================================================================
