----------------------------- MODULE MCLocataire -----------------------------
(***************************************************************************)
(* Small tables for the model checker.                                     *)
(***************************************************************************)
EXTENDS Locataire, TLC

CONSTANTS f1, f2, b1, i1

\* A departure on day 0 expires on day DELAI + 1, one on day 2 stays recent.
MCDateUnique == {0}

MCFiche(etat, sortie, bail) ==
  [Naissance(bail, i1) EXCEPT !.etat = etat, !.sortie = sortie]

\* Two tenants on one lease (a shared flat), one gone, one still there.
MCColocation ==
  [f \in Fiches |-> CASE f = f1 -> MCFiche("sorti", 0, b1)
                      [] f = f2 -> MCFiche("candidat", Nul, b1)
                      [] OTHER -> Absente]

\* Two tenants gone the same day from one lease.
MCDeparts ==
  [f \in Fiches |-> CASE f = f1 -> MCFiche("sorti", 0, b1)
                      [] f = f2 -> MCFiche("sorti", 0, b1)
                      [] OTHER -> Absente]

MCVide == [f \in Fiches |-> Absente]

\* Two candidates on one lease.
MCCandidats ==
  [f \in Fiches |-> IF f \in {f1, f2} THEN MCFiche("candidat", Nul, b1) ELSE Absente]

MCSymetrie == Permutations(Requetes) \cup Permutations(Instances)
=============================================================================
