-------------------------------- MODULE Fiche --------------------------------
(***************************************************************************)
(* The rows of the table "locataire" and what one statement of the ORM     *)
(* does to a row.  A row keeps the columns that decide who is kept, who is *)
(* deleted and what a handler may overwrite; every column the edit modal   *)
(* fills in (name, e-mail, telephone, date of entry...) is one abstract    *)
(* value of Identites.                                                     *)
(***************************************************************************)
EXTENDS Naturals

CONSTANTS
  Fiches,      \* primary keys of "locataire"
  Baux,        \* primary keys of "result_form"
  Dates,       \* the days a departure may be dated at
  Identites,   \* what the edit modal may write
  DELAI,       \* DELAI_CONSERVATION_ANNEES, in the unit of Dates
  Absente,     \* no row with this key
  Nul,         \* SQL NULL
  Inchange     \* a column an UPDATE statement does not mention

ASSUME DonneesAssumption ==
  /\ Dates \subseteq Nat
  /\ DELAI \in Nat
  /\ Nul \notin Baux

Etats == {"candidat", "locataire", "sorti"}

Ligne ==
  [etat : Etats, sortie : Dates \cup {Nul}, conservation : BOOLEAN,
   bail : Baux \cup {Nul}, bailEnvoye : BOOLEAN, congeEnvoye : BOOLEAN,
   identite : Identites]

\* What an UPDATE carries: a value for the columns of its SET clause.
MiseAJour ==
  [etat : Etats \cup {Inchange}, sortie : Dates \cup {Nul, Inchange},
   conservation : BOOLEAN \cup {Inchange}, bail : Baux \cup {Nul, Inchange},
   bailEnvoye : BOOLEAN \cup {Inchange}, congeEnvoye : BOOLEAN \cup {Inchange},
   identite : Identites]

\* NULL is not a date, and a column that is left alone is not a value.
ASSUME ValeursAssumption ==
  /\ Nul \notin Dates
  /\ Inchange \notin Etats
  /\ Inchange \notin Dates \cup {Nul}
  /\ Inchange \notin BOOLEAN

\* A row enters the table as a candidate whose lease is b.
Naissance(b, i) ==
  [etat |-> "candidat", sortie |-> Nul, conservation |-> FALSE, bail |-> b,
   bailEnvoye |-> FALSE, congeEnvoye |-> FALSE, identite |-> i]

\* The WHERE clause of the purge: left more than DELAI ago and not protected.
Expiree(l, jour) ==
  /\ l.etat = "sorti"
  /\ l.sortie # Nul
  /\ l.sortie + DELAI < jour
  /\ ~ l.conservation

\* The foreign key result_form_id.
ReferenceValide(b, baux) == b \in baux \cup {Nul}

-----------------------------------------------------------------------------
(***************************************************************************)
(* Repository.save(entity) of TypeORM.  It selects the row again and then  *)
(* updates the columns in which the entity differs from what this second   *)
(* read returned, not from what the handler had read.  The encrypted       *)
(* columns are compared as ciphertexts, which a random IV makes different  *)
(* every time: they are always in the SET clause.                          *)
(***************************************************************************)
Colonne(voulue, relue) == IF voulue = relue THEN Inchange ELSE voulue

Difference(entite, relue) ==
  [etat         |-> Colonne(entite.etat, relue.etat),
   sortie       |-> Colonne(entite.sortie, relue.sortie),
   conservation |-> Colonne(entite.conservation, relue.conservation),
   bail         |-> Colonne(entite.bail, relue.bail),
   bailEnvoye   |-> Colonne(entite.bailEnvoye, relue.bailEnvoye),
   congeEnvoye  |-> Colonne(entite.congeEnvoye, relue.congeEnvoye),
   identite     |-> entite.identite]

Garde(nouvelle, ancienne) == IF nouvelle = Inchange THEN ancienne ELSE nouvelle

Fusion(maj, ligne) ==
  [etat         |-> Garde(maj.etat, ligne.etat),
   sortie       |-> Garde(maj.sortie, ligne.sortie),
   conservation |-> Garde(maj.conservation, ligne.conservation),
   bail         |-> Garde(maj.bail, ligne.bail),
   bailEnvoye   |-> Garde(maj.bailEnvoye, ligne.bailEnvoye),
   congeEnvoye  |-> Garde(maj.congeEnvoye, ligne.congeEnvoye),
   identite     |-> maj.identite]
=============================================================================
