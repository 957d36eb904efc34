------------------------------ MODULE Logement ------------------------------
(***************************************************************************)
(* Flats with what belongs to them: their reference rents (Filature), and  *)
(* the rooms and characteristics, rows of their own that refer to a flat.  *)
(* A flat leaves with them in one transaction; rooms are created, edited   *)
(* and deleted meanwhile.  A tenant or a lease that refers to the flat     *)
(* makes the transaction fail, like any other error of a statement.        *)
(***************************************************************************)
EXTENDS Filature

CONSTANTS
  Appels,           \* deletions of flats in progress
  Chambres,         \* primary keys of "chambre"
  Caracteristiques  \* primary keys of "caracteristique"

Enfants == Chambres \cup Caracteristiques

ASSUME LogementAssumption ==
  /\ Chambres \cap Caracteristiques = {}
  /\ Absente # Nul
  /\ Absente \notin Appartements
  /\ Inchange \notin Appartements

VARIABLES
  appartement_id,  \* the column of each row of both tables, Absente without a row
  attribues,       \* the keys the sequences have handed out
  appel            \* where each deletion is

enfants == <<appartement_id, attribues>>
vars == <<varsLoyers, enfants, appel>>

\* pris: the rows its DELETEs have taken and not committed.
EtatAppel ==
  [phase : {"libre", "caracteristiques", "chambres", "appartement"},
   cle : Appartements \cup {Nul}, pris : SUBSET Enfants]

TypeOK ==
  /\ TypeLoyers
  /\ appartement_id \in [Enfants -> Appartements \cup {Absente}]
  /\ attribues \subseteq Enfants
  /\ appel \in [Appels -> EtatAppel]
  /\ \A e \in Enfants : appartement_id[e] # Absente => e \in attribues
  /\ \A e \in Enfants : appartement_id[e] # Absente => Existe(appartement_id[e])

-----------------------------------------------------------------------------
Attente == [phase |-> "libre", cle |-> Nul, pris |-> {}]

Ceder(p) == appel' = [appel EXCEPT ![p] = Attente]

\* appartement_id is NOT NULL and a foreign key.
Accepte(a) == a \in Appartements /\ Existe(a)

\* An uncommitted DELETE holds e: who writes it waits.
Verrouille(e) == \E p \in Appels : e \in appel[p].pris

De(a, table) == {e \in table : appartement_id[e] = a}

Init ==
  /\ InitLoyers
  /\ appartement_id = [e \in Enfants |-> Absente]
  /\ attribues = {}
  /\ appel = [p \in Appels |-> Attente]

-----------------------------------------------------------------------------
(***************************************************************************)
(* Rooms and characteristics.  PUT /caracteristique/:id changes nothing.   *)
(***************************************************************************)

\* POST /chambre and POST /caracteristique; without a flat they are refused.
CreerEnfant(e, a) ==
  /\ e \notin attribues
  /\ Accepte(a)
  /\ attribues' = attribues \cup {e}
  /\ appartement_id' = [appartement_id EXCEPT ![e] = a]
  /\ UNCHANGED <<varsLoyers, appel>>

\* PUT /chambre/:id, with a flat to move the room to or without.  The handler
\* found the room when it read it, and save() reads it again: it updates the row,
\* or inserts the entity, whose flat was not read, when it has gone since.
UpdateChambre(c, a) ==
  LET b == IF a = Inchange THEN appartement_id[c] ELSE a IN
  /\ c \in attribues
  /\ ~ Verrouille(c)
  /\ Accepte(b)
  /\ appartement_id' = [appartement_id EXCEPT ![c] = b]
  /\ UNCHANGED <<varsLoyers, attribues, appel>>

\* DELETE /chambre/:id and DELETE /caracteristique/:id: the read of the first
\* decides the answer only.
SupprimerEnfant(e) ==
  /\ appartement_id[e] # Absente
  /\ ~ Verrouille(e)
  /\ appartement_id' = [appartement_id EXCEPT ![e] = Absente]
  /\ UNCHANGED <<varsLoyers, attribues, appel>>

-----------------------------------------------------------------------------
(***************************************************************************)
(* DELETE /appartement/:id: a check, then three DELETEs in one transaction.*)
(***************************************************************************)
DeleteAppartement(p, a) ==
  /\ appel[p].phase = "libre"
  /\ Existe(a)
  /\ appel' = [appel EXCEPT ![p] = [Attente EXCEPT !.phase = "caracteristiques", !.cle = a]]
  /\ UNCHANGED <<varsLoyers, enfants>>

Prendre(p, table, suivante) ==
  LET lignes == De(appel[p].cle, table) IN
  /\ \A e \in lignes : ~ Verrouille(e)
  /\ appel' = [appel EXCEPT ![p].pris = @ \cup lignes, ![p].phase = suivante]
  /\ UNCHANGED <<varsLoyers, enfants>>

SupprimerCaracteristiques(p) ==
  /\ appel[p].phase = "caracteristiques"
  /\ Prendre(p, Caracteristiques, "chambres")

\* Mutant: without the transaction each DELETE stands by itself.
SupprimerChambresSansTransaction(p) ==
  LET lignes == De(appel[p].cle, Chambres) IN
  /\ appel[p].phase = "chambres"
  /\ \A e \in lignes : ~ Verrouille(e)
  /\ appartement_id' = [e \in Enfants |->
       IF e \in lignes THEN Absente ELSE appartement_id[e]]
  /\ appel' = [appel EXCEPT ![p].phase = "appartement"]
  /\ UNCHANGED <<varsLoyers, attribues>>

SupprimerChambres(p) ==
  /\ appel[p].phase = "chambres"
  /\ Prendre(p, Chambres, "appartement")

\* The foreign keys of both tables: a row that came after the DELETEs.
Refuse(p) == \E e \in Enfants \ appel[p].pris : appartement_id[e] = appel[p].cle

\* The last DELETE and the commit, or the rollback.  Nobody reads the flat
\* differently between the two, and who wants to refer to it waits.
TerminerSuppression(p) ==
  /\ appel[p].phase = "appartement"
  /\ IF Refuse(p)
       THEN UNCHANGED <<loyers, appartement_id>>
       ELSE /\ loyers' = [loyers EXCEPT ![appel[p].cle] = Absente]
            /\ appartement_id' = [e \in Enfants |->
                 IF e \in appel[p].pris THEN Absente ELSE appartement_id[e]]
  /\ Ceder(p)
  /\ UNCHANGED <<req, attribues>>

\* A statement fails, a tenant or a lease refers to the flat, or the process of
\* the request stops: rollback.
Abandonner(p) ==
  /\ appel[p].phase # "libre"
  /\ Ceder(p)
  /\ UNCHANGED <<varsLoyers, enfants>>

Next ==
  \/ NextLoyers /\ UNCHANGED <<enfants, appel>>
  \/ \E e \in Enfants :
       \/ \E a \in Appartements : CreerEnfant(e, a)
       \/ SupprimerEnfant(e)
  \/ \E c \in Chambres, a \in Appartements \cup {Inchange} : UpdateChambre(c, a)
  \/ \E p \in Appels :
       \/ \E a \in Appartements : DeleteAppartement(p, a)
       \/ SupprimerCaracteristiques(p)
       \/ SupprimerChambres(p)
       \/ TerminerSuppression(p)
       \/ Abandonner(p)

Spec == Init /\ [][Next]_vars

-----------------------------------------------------------------------------
(***************************************************************************)
(* Properties.                                                             *)
(***************************************************************************)

\* A flat leaves with all its rooms and characteristics or not at all, whatever
\* is created, moved or edited between the DELETEs and wherever they stop: no
\* step takes the flat from a row that stays, and a row of a flat that stays
\* goes only when a request deletes that very row ("les enfants doivent partir
\* avant le parent").
SuppressionEntiere ==
  [][\A e \in Enfants :
       LET a == appartement_id[e] IN
       a \in Appartements =>
         /\ loyers'[a] = Absente => appartement_id'[e] = Absente
         /\ appartement_id'[e] = Absente => loyers'[a] = Absente \/ SupprimerEnfant(e)]_vars
=============================================================================
