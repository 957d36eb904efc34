-------------------------------- MODULE Irl --------------------------------
(***************************************************************************)
(* The rent index (IRL) of the flats.  Reading a flat fills its index with *)
(* the last value INSEE published unless the owner typed one; IrlService   *)
(* keeps that value in memory for some hours.  A read is slow: it loads    *)
(* the rows, waits for INSEE and then updates them one by one, while the   *)
(* owner may be typing and other reads go on.                              *)
(* The other columns of a flat are not here: nothing reads them to write   *)
(* the index.                                                              *)
(***************************************************************************)
EXTENDS Naturals

CONSTANTS
  Lectures,      \* GET requests in progress at the same time
  Appartements,  \* primary keys of "appartement"
  Dernier,       \* the last quarter INSEE publishes
  Saisi,         \* a text the owner typed
  Vide,          \* NULL or blank
  Inchange,      \* a column an UPDATE statement does not mention
  Absent         \* no row with this key, no value

Trimestres == 1 .. Dernier

\* A quarter stands both for the value of the index and for its label.
Textes == Trimestres \cup {Saisi, Vide}

Ligne == [valIrl : Textes, tIrl : Textes, irlManual : BOOLEAN]

ASSUME IrlAssumption ==
  /\ Dernier \in Nat \ {0}
  /\ {Saisi, Vide, Inchange, Absent} \cap Nat = {}
  /\ Absent \notin Ligne

VARIABLES
  lignes,   \* the columns val_irl, t_irl and irl_manual of each flat
  cache,    \* IrlService: cachedIrl, and whether cachedAt is within the TTL
  publie,   \* the last quarter INSEE has published
  lect      \* where each read is

vars == <<lignes, cache, publie, lect>>

\* lues is what the read has still to fill of the rows it loaded, irl what
\* getLatestIrl returns, or would fall back on.
EtatLecture ==
  [phase : {"libre", "insee", "reponse", "remplissage"},
   lues : [Appartements -> Trimestres \cup {Vide, Absent}],
   irl : Trimestres \cup {Absent}, reponse : Trimestres \cup {Absent}]

TypeOK ==
  /\ lignes \in [Appartements -> Ligne \cup {Absent}]
  /\ cache \in [irl : Trimestres \cup {Absent}, frais : BOOLEAN]
  /\ publie \in Trimestres
  /\ lect \in [Lectures -> EtatLecture]

-----------------------------------------------------------------------------
RienLu == [a \in Appartements |-> Absent]

Libre == [phase |-> "libre", lues |-> RienLu, irl |-> Absent, reponse |-> Absent]

CacheVide == [irl |-> Absent, frais |-> FALSE]

Init ==
  /\ lignes = [a \in Appartements |-> [valIrl |-> Vide, tIrl |-> Vide, irlManual |-> FALSE]]
  /\ cache = CacheVide
  /\ publie = 1
  /\ lect = [g \in Lectures |-> Libre]

\* Mutant: irl_manual is not looked at.
VueSansManuel(l) ==
  IF l = Absent THEN Absent
  ELSE IF l.valIrl = l.tIrl /\ l.valIrl \in Trimestres THEN l.valIrl ELSE Vide

\* All that applyLatestIrl tells apart in a row it is given: nothing to do, the
\* quarter both columns show, or anything else.
Vue(l) ==
  IF l = Absent \/ (l # Absent /\ l.irlManual) THEN Absent
  ELSE IF l.valIrl = l.tIrl /\ l.valIrl \in Trimestres THEN l.valIrl ELSE Vide

\* Mutant: a read that has no value goes on as one that has.
RemplirSansValeur(lues, irl) ==
  LET reste == [a \in Appartements |-> IF lues[a] \in {Absent, irl} THEN Absent ELSE Vide]
  IN IF reste = RienLu THEN Libre
     ELSE [phase |-> "remplissage", lues |-> reste, irl |-> irl, reponse |-> Absent]

\* A read that has its value keeps the rows it is going to write.
Remplir(lues, irl) ==
  LET reste == [a \in Appartements |->
                  IF irl = Absent \/ lues[a] \in {Absent, irl} THEN Absent ELSE Vide]
  IN IF reste = RienLu THEN Libre
     ELSE [phase |-> "remplissage", lues |-> reste, irl |-> irl, reponse |-> Absent]

\* Mutant: once fetched, the index is never asked for again.
EnCacheSansDuree == cache.irl # Absent

EnCache == cache.irl # Absent /\ cache.frais

-----------------------------------------------------------------------------
(***************************************************************************)
(* GET /appartement (as is every row) and GET /appartement/:id (one).      *)
(***************************************************************************)
Charger(g, as) ==
  LET lues == [a \in Appartements |-> IF a \in as THEN Vue(lignes[a]) ELSE Absent] IN
  /\ lect[g].phase = "libre"
  /\ \E a \in as : lignes[a] # Absent
  /\ lect' = [lect EXCEPT ![g] =
       IF EnCache THEN Remplir(lues, cache.irl)
       ELSE [phase |-> "insee", lues |-> lues, irl |-> cache.irl, reponse |-> Absent]]
  /\ UNCHANGED <<lignes, cache, publie>>

\* INSEE answers with what it has published by now.
RepondreInsee(g) ==
  /\ lect[g].phase = "insee"
  /\ lect' = [lect EXCEPT ![g] = [phase |-> "reponse", lues |-> lect[g].lues,
                                  irl |-> lect[g].irl, reponse |-> publie]]
  /\ UNCHANGED <<lignes, cache, publie>>

\* The answer arrives, and the last to arrive is the one that is kept.
RecevoirIrl(g) ==
  LET irl == lect[g].reponse IN
  /\ lect[g].phase = "reponse"
  /\ cache' = [irl |-> irl, frais |-> TRUE]
  /\ lect' = [lect EXCEPT ![g] = Remplir(lect[g].lues, irl)]
  /\ UNCHANGED <<lignes, publie>>

\* Unreachable, too slow, unreadable: the cached value of when the read began,
\* expired or not.
EchouerIrl(g) ==
  /\ lect[g].phase \in {"insee", "reponse"}
  /\ lect' = [lect EXCEPT ![g] = Remplir(lect[g].lues, lect[g].irl)]
  /\ UNCHANGED <<lignes, cache, publie>>

\* The UPDATE of one flat: the two columns, and not irl_manual.
ApplyLatestIrl(g, a) ==
  LET irl == lect[g].irl IN
  /\ lect[g].phase = "remplissage"
  /\ lect[g].lues[a] # Absent
  /\ lignes' = IF lignes[a] = Absent THEN lignes
               ELSE [lignes EXCEPT ![a] = [valIrl |-> irl, tIrl |-> irl,
                                           irlManual |-> lignes[a].irlManual]]
  /\ lect' = [lect EXCEPT ![g] = Remplir([lect[g].lues EXCEPT ![a] = Absent], irl)]
  /\ UNCHANGED <<cache, publie>>

-----------------------------------------------------------------------------
(***************************************************************************)
(* What the owner types.                                                   *)
(***************************************************************************)
\* Mutant: a field that is missing from the body is written all the same.
GardeToujours(nouvelle, ancienne) == nouvelle

Garde(nouvelle, ancienne) == IF nouvelle = Inchange THEN ancienne ELSE nouvelle

\* PUT /appartement/:id.  A field of the body may be missing; an entry that is
\* not blank freezes the index, blank ones make it automatic again.
UpdateAppartement(a, v, t) ==
  /\ lignes[a] # Absent
  /\ v # Inchange \/ t # Inchange
  /\ lignes' = [lignes EXCEPT ![a] =
       [valIrl |-> Garde(v, lignes[a].valIrl), tIrl |-> Garde(t, lignes[a].tIrl),
        irlManual |-> Saisi \in {v, t}]]
  /\ UNCHANGED <<cache, publie, lect>>

\* POST /appartement/updateValIrlTirl: one field, of every flat.
SetValIrlTirl(v, t) ==
  /\ (v = Inchange) # (t = Inchange)
  /\ lignes' = [a \in Appartements |->
       IF lignes[a] = Absent THEN Absent
       ELSE [valIrl |-> Garde(v, lignes[a].valIrl), tIrl |-> Garde(t, lignes[a].tIrl),
             irlManual |-> Saisi \in {v, t}]]
  /\ UNCHANGED <<cache, publie, lect>>

CreateAppartement(a, v, t, manuel) ==
  /\ lignes[a] = Absent
  /\ lignes' = [lignes EXCEPT ![a] = [valIrl |-> v, tIrl |-> t, irlManual |-> manuel]]
  /\ UNCHANGED <<cache, publie, lect>>

DeleteAppartement(a) ==
  /\ lignes[a] # Absent
  /\ lignes' = [lignes EXCEPT ![a] = Absent]
  /\ UNCHANGED <<cache, publie, lect>>

-----------------------------------------------------------------------------
(***************************************************************************)
(* The world around.                                                       *)
(***************************************************************************)
Publier ==
  /\ publie < Dernier
  /\ publie' = publie + 1
  /\ UNCHANGED <<lignes, cache, lect>>

\* cacheTtlHours have passed.
Expirer ==
  /\ cache.frais
  /\ cache' = [irl |-> cache.irl, frais |-> FALSE]
  /\ UNCHANGED <<lignes, publie, lect>>

\* The process stops: its memory and what it was doing are lost.
Redemarrer ==
  /\ cache' = CacheVide
  /\ lect' = [g \in Lectures |-> Libre]
  /\ UNCHANGED <<lignes, publie>>

Textees == {Saisi, Vide}

Next ==
  \/ \E g \in Lectures :
       \/ Charger(g, Appartements)
       \/ \E a \in Appartements : Charger(g, {a}) \/ ApplyLatestIrl(g, a)
       \/ RepondreInsee(g)
       \/ RecevoirIrl(g)
       \/ EchouerIrl(g)
  \/ \E v, t \in Textees \cup {Inchange} :
       \/ \E a \in Appartements : UpdateAppartement(a, v, t)
       \/ SetValIrlTirl(v, t)
  \/ \E a \in Appartements :
       \/ \E v, t \in Textees, manuel \in BOOLEAN : CreateAppartement(a, v, t, manuel)
       \/ DeleteAppartement(a)
  \/ Publier
  \/ Expirer
  \/ Redemarrer

Spec == Init /\ [][Next]_vars

\* The owner keeps looking at each flat, time passes (the fetch has a timeout
\* and the cache a TTL), and of the reads of a flat not every one is cut short
\* by an outage of INSEE or a restart.
Equite ==
  /\ WF_vars(Expirer)
  /\ \A g \in Lectures : WF_vars(EchouerIrl(g))
  /\ \A a \in Appartements :
       /\ SF_vars(\E g \in Lectures : Charger(g, {a}) \/ Charger(g, Appartements))
       /\ SF_vars(\E g \in Lectures : lect[g].lues[a] # Absent /\ RepondreInsee(g))
       /\ SF_vars(\E g \in Lectures : lect[g].lues[a] # Absent /\ RecevoirIrl(g))
       /\ SF_vars(\E g \in Lectures : ApplyLatestIrl(g, a))

SpecEquitable == Spec /\ Equite

-----------------------------------------------------------------------------
(***************************************************************************)
(* Properties.                                                             *)
(***************************************************************************)

\* An automatic flat always comes to show what INSEE published last, value and
\* label, although answers that arrive late put an older one in the cache and
\* in the rows, the process loses its cache and the owner types in between.
IrlFinitAJour ==
  \A a \in Appartements :
    []<>(lignes[a] # Absent /\ ~ lignes[a].irlManual
           => lignes[a].valIrl = publie /\ lignes[a].tIrl = publie)

\* A read never empties a row, whatever becomes of its fetch: it leaves the row
\* as it is, or writes the value and the label of one quarter INSEE has
\* published, and irl_manual is the owner's.
LectureNEffacePas ==
  [][\A a \in Appartements :
       lect' # lect /\ lignes'[a] # lignes[a] =>
         /\ lignes[a] # Absent /\ lignes'[a] # Absent
         /\ lignes'[a].valIrl \in 1 .. publie
         /\ lignes'[a].tIrl = lignes'[a].valIrl
         /\ lignes'[a].irlManual = lignes[a].irlManual]_vars

\* What the owner typed while no read in progress had the flat to fill is safe:
\* no read changes it, nor takes the flat to fill, as long as it is frozen.
SaisieGardee ==
  [][\A a \in Appartements :
       lignes[a] # Absent /\ lignes[a].irlManual /\ (\A g \in Lectures : lect[g].lues[a] = Absent) =>
         /\ \A g \in Lectures : lect'[g].lues[a] = Absent
         /\ lect' # lect => lignes'[a] = lignes[a]]_vars

\* irl_manual: "`true` lorsque l'IRL a ete saisi a la main : dans ce cas les
\* lectures ne le remplacent pas par la derniere valeur publiee par l'INSEE".
LectureRespecteSaisie ==
  [][\A a \in Appartements :
       lignes[a] # Absent /\ lignes[a].irlManual /\ lect' # lect => lignes'[a] = lignes[a]]_vars
=============================================================================
