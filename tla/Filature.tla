------------------------------ MODULE Filature ------------------------------
(***************************************************************************)
(* The reference rents of the flats.  Flats 1 and 4 are two dwellings of   *)
(* one residence and their reference rents must stay aligned: the handlers *)
(* write the flat they were called for and then repeat the write on its    *)
(* twin, in statements of their own and outside any transaction.           *)
(* The other columns of a flat are not here: the handlers that write the   *)
(* rents never read them.  Logement composes these writes with the         *)
(* deletion of a flat and with the rows that go with it.                   *)
(***************************************************************************)
CONSTANTS
  Requetes,      \* HTTP requests in progress at the same time
  Appartements,  \* primary keys of "appartement"
  Groupe,        \* GROUPE_FILATURE, the keys of the two twins
  Loyers,        \* amounts
  Saisis,        \* what the owner may type in a rent field
  Absente,       \* no row with this key
  Nul,           \* SQL NULL
  Inchange       \* a column an UPDATE statement does not mention

Champs == {"rentRef", "rentRefMaj"}

\* A function of the column, so that a statement is the set of columns it writes.
Ligne == [Champs -> Loyers \cup {Nul}]

ASSUME FilatureAssumption ==
  /\ Groupe \subseteq Appartements
  /\ \E a, b \in Appartements : a # b /\ Groupe = {a, b}
  /\ Saisis \subseteq Loyers \cup {Nul}
  /\ Nul \notin Loyers
  /\ Inchange \notin Loyers \cup {Nul}
  /\ Absente \notin Ligne

VARIABLES
  loyers,  \* the columns rent_ref and rent_ref_maj of each flat
  req      \* where each request is

varsLoyers == <<loyers, req>>

Modifications == [Champs -> Loyers \cup {Nul, Inchange}]

Repetitions == [champ : Champs, valeur : Loyers \cup {Nul}]

\* ecrit is what the request writes on its own flat, reste what it has still
\* to repeat on the twin.
EtatRequete ==
  [phase : {"libre", "ecriture", "lecture", "alignement"}, cle : Appartements \cup {Nul},
   ecrit : Modifications \cup {Nul}, reste : SUBSET Repetitions]

TypeLoyers ==
  /\ loyers \in [Appartements -> Ligne \cup {Absente}]
  /\ req \in [Requetes -> EtatRequete]

-----------------------------------------------------------------------------
Existe(a) == loyers[a] # Absente

Jumeau(a) == CHOOSE b \in Groupe : b # a

Libre == [phase |-> "libre", cle |-> Nul, ecrit |-> Nul, reste |-> {}]

\* Mutant: a column that is not in the SET clause is lost.
FusionSansGarde(maj, l) == maj

Fusion(maj, l) == [c \in Champs |-> IF maj[c] = Inchange THEN l[c] ELSE maj[c]]

\* An UPDATE of row a: none when the row is gone.
Apres(a, maj) ==
  IF Existe(a) THEN [loyers EXCEPT ![a] = Fusion(maj, @)] ELSE loyers

\* champRentRef: a rentRef that is NULL goes to rentRefMaj.
ChampRentRef(champ, v) == IF champ = "rentRef" /\ v # Nul THEN "rentRef" ELSE "rentRefMaj"

UneColonne(champ, v) ==
  [c \in Champs |-> IF c = ChampRentRef(champ, v) THEN v ELSE Inchange]

InitLoyers ==
  /\ loyers = [a \in Appartements |-> [c \in Champs |-> Nul]]
  /\ req = [r \in Requetes |-> Libre]

-----------------------------------------------------------------------------
\* A NULL rentRef is written but not repeated.
ARepeter(corps) ==
  {d \in Repetitions : d.valeur = corps[d.champ] /\ (d.champ = "rentRef" => d.valeur # Nul)}

\* PUT /appartement/:id.
UpdateAppartement(r, a, corps) ==
  /\ req[r].phase = "libre"
  /\ Existe(a)
  /\ req' = [req EXCEPT ![r] =
       [phase |-> "ecriture", cle |-> a, ecrit |-> corps,
        reste |-> ARepeter(corps)]]
  /\ UNCHANGED loyers

\* POST /appartement/updateRent: one field.
SetRentRefAndRentRefMaj(r, a, champ, v) ==
  /\ req[r].phase = "libre"
  /\ Existe(a)
  /\ req' = [req EXCEPT ![r] =
       [phase |-> "ecriture", cle |-> a, ecrit |-> UneColonne(champ, v),
        reste |-> {[champ |-> champ, valeur |-> v]}]]
  /\ UNCHANGED loyers

\* rentRef is repeated first.
Tete(reste) ==
  CHOOSE d \in reste : \A e \in reste : e.champ = "rentRef" => d.champ = "rentRef"

\* The request goes on with what it has to repeat; a flat outside the group
\* has no twin.
Continuer(r, reste) ==
  req' = [req EXCEPT ![r] =
    IF reste = {} \/ req[r].cle \notin Groupe THEN Libre
    ELSE [phase |-> "lecture", cle |-> req[r].cle, ecrit |-> req[r].ecrit, reste |-> reste]]

\* appliquerModifications on the flat of the request.
Ecrire(r) ==
  /\ req[r].phase = "ecriture"
  /\ loyers' = Apres(req[r].cle, req[r].ecrit)
  /\ Continuer(r, req[r].reste)

\* Mutant: a twin that has a value already keeps it.
DejaAligneeSiRenseignee(b, d) ==
  loyers[b][ChampRentRef(d.champ, d.valeur)] # Nul

DejaAlignee(b, d) == loyers[b][ChampRentRef(d.champ, d.valeur)] = d.valeur

\* syncFilatureGroup reads the twin: nothing to do when it is not there or has
\* the value already.
LireJumeau(r) ==
  LET b == Jumeau(req[r].cle)
      d == Tete(req[r].reste)
  IN
  /\ req[r].phase = "lecture"
  /\ IF ~ Existe(b) \/ DejaAlignee(b, d)
       THEN Continuer(r, req[r].reste \ {d})
       ELSE req' = [req EXCEPT ![r] = [phase |-> "alignement", cle |-> req[r].cle,
                                       ecrit |-> req[r].ecrit, reste |-> req[r].reste]]
  /\ UNCHANGED loyers

\* Mutant: the twin gets the whole row.
AlignerJumeauEntierement(r) ==
  LET d == Tete(req[r].reste) IN
  /\ req[r].phase = "alignement"
  /\ Existe(req[r].cle)
  /\ loyers' = [loyers EXCEPT ![Jumeau(req[r].cle)] = loyers[req[r].cle]]
  /\ Continuer(r, req[r].reste \ {d})

AlignerJumeau(r) ==
  LET d == Tete(req[r].reste) IN
  /\ req[r].phase = "alignement"
  /\ loyers' = Apres(Jumeau(req[r].cle), UneColonne(d.champ, d.valeur))
  /\ Continuer(r, req[r].reste \ {d})

-----------------------------------------------------------------------------
\* POST /appartement.  A body that names a key that is there updates its row;
\* the read and the write of this save() are one step.
CreateAppartement(r, a, corps) ==
  /\ req[r].phase = "libre"
  /\ loyers' = [loyers EXCEPT ![a] =
       Fusion(corps, IF Existe(a) THEN @ ELSE [c \in Champs |-> Nul])]
  /\ UNCHANGED req

\* A statement fails or the process of the request stops: what is written stays.
InterrompreEdition(r) ==
  /\ req[r].phase # "libre"
  /\ req' = [req EXCEPT ![r] = Libre]
  /\ UNCHANGED loyers

Corps == [Champs -> Saisis \cup {Inchange}]

NextLoyers ==
  \E r \in Requetes :
    \/ \E a \in Appartements :
         \/ \E corps \in Corps : UpdateAppartement(r, a, corps)
         \/ \E champ \in Champs, v \in Saisis : SetRentRefAndRentRefMaj(r, a, champ, v)
         \/ \E corps \in Corps : CreateAppartement(r, a, corps)
    \/ Ecrire(r)
    \/ LireJumeau(r)
    \/ AlignerJumeau(r)
    \/ InterrompreEdition(r)

-----------------------------------------------------------------------------
(***************************************************************************)
(* Properties of the rents; Logement checks them.                          *)
(***************************************************************************)

\* r has just finished: its last statement, or the read that found nothing to do.
Termine(r) ==
  /\ req'[r] = Libre
  /\ \/ Ecrire(r)
     \/ LireJumeau(r)
     \/ AlignerJumeau(r)

\* Column c of the two twins is the same once r, which wrote it, is finished.
Aligne(r, c) ==
  LET a == req[r].cle
      b == Jumeau(a)
  IN
  loyers'[a] # Absente /\ loyers'[b] # Absente => loyers'[b][c] = loyers'[a][c]

\* When a request on one of the twins has done its work, one user at a time,
\* the two have the same value in every column it wrote an amount in, and in a
\* rentRefMaj it emptied, whatever misaligned them before: a write of the other
\* handler, an interrupted one, a flat that was created again ("leurs loyers de
\* reference doivent rester alignes").  A rentRef it emptied is not repeated.
AlignementDesMontants ==
  [][\A r \in Requetes : Termine(r) /\ req[r].cle \in Groupe =>
       /\ req[r].ecrit["rentRef"] \in Loyers => Aligne(r, "rentRef")
       /\ req[r].ecrit["rentRefMaj"] # Inchange => Aligne(r, "rentRefMaj")]_varsLoyers

\* An edit changes its own flat or, within the group, its twin, and there only a
\* column it was asked to write, to that value: realigning one rent never
\* overwrites the other, however the twins differed before.
PorteeDesEcritures ==
  [][\A r \in Requetes, a \in Appartements, c \in Champs :
       req'[r] # req[r] /\ loyers'[a] # loyers[a] =>
         /\ a = req[r].cle \/ {a, req[r].cle} = Groupe
         /\ loyers'[a][c] # loyers[a][c] => loyers'[a][c] = req[r].ecrit[c]]_varsLoyers
=============================================================================
