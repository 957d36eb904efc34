------------------------------- MODULE Registre -------------------------------
(***************************************************************************)
(* What the tenant registry promises, whatever its handlers, transactions  *)
(* and instances do to each other: rows are written whole and never point  *)
(* at a missing lease; a row leaves the table only as an unsigned          *)
(* candidate or as a tenant gone for longer than DELAI whom nobody         *)
(* protects; a lease leaves only with the last row that refers to it, and  *)
(* its generation leaves with it.                                          *)
(***************************************************************************)
EXTENDS Fiche

VARIABLES
  fiches,    \* the table "locataire"
  baux,      \* the keys present in "result_form"
  generes,   \* the leases a row of "generation" refers to
  jour       \* CURRENT_DATE

registreVars == <<fiches, baux, generes, jour>>

InitRegistre ==
  /\ fiches \in [Fiches -> Ligne \cup {Absente}]
  /\ baux \subseteq Baux
  /\ generes \subseteq baux
  /\ \A f \in Fiches : fiches[f] # Absente => ReferenceValide(fiches[f].bail, baux)
  /\ jour \in Nat

\* A row is inserted or rewritten; its lease exists at that moment.
EcrireLigne(f) ==
  /\ fiches'[f] \in Ligne
  /\ ReferenceValide(fiches'[f].bail, baux)
  /\ fiches' = [fiches EXCEPT ![f] = fiches'[f]]
  /\ UNCHANGED <<baux, generes, jour>>

\* The rows F may leave the table.
Effacables(F) ==
  \/ \A f \in F : fiches[f] # Absente /\ Expiree(fiches[f], jour)
  \/ \E f \in Fiches : F = {f} /\ fiches[f] # Absente /\ fiches[f].etat = "candidat"

\* The rows F leave, and the leases B that only they referred to.
Effacer(F, B) ==
  /\ Effacables(F)
  /\ B \subseteq {fiches[f].bail : f \in F}
  /\ \A f \in Fiches \ F : fiches[f] # Absente => fiches[f].bail \notin B
  /\ fiches' = [f \in Fiches |-> IF f \in F THEN Absente ELSE fiches[f]]
  /\ baux' = baux \ B
  /\ generes' = generes \ B
  /\ UNCHANGED jour

PublierBail(b) ==
  /\ b \notin baux
  /\ baux' = baux \cup {b}
  /\ generes' = generes \cup {b}
  /\ UNCHANGED <<fiches, jour>>

PasserJour ==
  /\ jour' = jour + 1
  /\ UNCHANGED <<fiches, baux, generes>>

NextRegistre ==
  \/ \E f \in Fiches : EcrireLigne(f)
  \/ \E F \in SUBSET Fiches, B \in SUBSET Baux : Effacer(F, B)
  \/ \E b \in Baux : PublierBail(b)
  \/ PasserJour

SpecRegistre == InitRegistre /\ [][NextRegistre]_registreVars
=============================================================================
