--------------------------- MODULE LogementProofs ---------------------------
(***************************************************************************)
(* For any number of flats, rooms, requests and amounts: a flat leaves     *)
(* whole or not at all, an edit of a rent writes what it was asked to and  *)
(* nothing else, and one edit of the residence at a time leaves it aligned.*)
(***************************************************************************)
EXTENDS Logement, TLAPS

\* What a request has still to repeat is what it wrote on its own flat.
EditionCoherente(r) ==
  req[r].phase # "libre" =>
    /\ req[r].cle \in Appartements
    /\ req[r].ecrit \in Modifications
    /\ \A d \in req[r].reste :
         req[r].ecrit[ChampRentRef(d.champ, d.valeur)] = d.valeur
    /\ req[r].phase # "ecriture" => req[r].cle \in Groupe /\ req[r].reste # {}

\* A row a deletion has taken stays where it was, and has one taker.
PrisesTenues ==
  \A p \in Appels :
    /\ \A e \in appel[p].pris : appartement_id[e] = appel[p].cle
    /\ \A q \in Appels \ {p} : appel[p].pris \cap appel[q].pris = {}

IInv ==
  /\ TypeOK
  /\ \A r \in Requetes : EditionCoherente(r)
  /\ PrisesTenues

-----------------------------------------------------------------------------
(***************************************************************************)
(* Operators.                                                              *)
(***************************************************************************)
LEMMA TeteDuReste ==
  ASSUME NEW reste, reste # {}
  PROVE  Tete(reste) \in reste
<1>1. \E d \in reste : \A e \in reste : e.champ = "rentRef" => d.champ = "rentRef"
  OBVIOUS
<1> QED
  BY <1>1 DEF Tete

LEMMA Jumeaux ==
  ASSUME NEW a \in Groupe
  PROVE  Jumeau(a) \in Groupe /\ Jumeau(a) \in Appartements /\ {Jumeau(a), a} = Groupe
<1>1. \E b \in Groupe : b # a
  BY FilatureAssumption
<1>2. Jumeau(a) \in Groupe /\ Jumeau(a) # a
  BY <1>1 DEF Jumeau
<1> QED
  BY <1>2, FilatureAssumption

LEMMA UneColonneEcrite ==
  ASSUME NEW champ \in Champs, NEW v \in Loyers \cup {Nul}
  PROVE  /\ ChampRentRef(champ, v) \in Champs
         /\ UneColonne(champ, v) \in Modifications
         /\ UneColonne(champ, v)[ChampRentRef(champ, v)] = v
         /\ \A c \in Champs : UneColonne(champ, v)[c] # Inchange => c = ChampRentRef(champ, v)
BY DEF ChampRentRef, UneColonne, Modifications, Champs

\* An UPDATE writes its columns in its row, and in no other.
LEMMA EffetApres ==
  ASSUME TypeLoyers, NEW a \in Appartements, NEW maj \in Modifications
  PROVE  /\ Apres(a, maj) \in [Appartements -> Ligne \cup {Absente}]
         /\ \A x \in Appartements : Apres(a, maj)[x] = Absente <=> loyers[x] = Absente
         /\ \A x \in Appartements \ {a} : Apres(a, maj)[x] = loyers[x]
         /\ Existe(a) => \A c \in Champs :
              Apres(a, maj)[a][c] = IF maj[c] = Inchange THEN loyers[a][c] ELSE maj[c]
<1>1. ASSUME Existe(a)
      PROVE  Fusion(maj, loyers[a]) \in Ligne
  BY <1>1, FilatureAssumption DEF TypeLoyers, Existe, Fusion, Ligne, Modifications
<1>2. ASSUME Existe(a)
      PROVE  Fusion(maj, loyers[a]) # Absente
  BY <1>1, <1>2, FilatureAssumption
<1> QED
  BY <1>1, <1>2 DEF TypeLoyers, Existe, Apres, Fusion

\* The request goes on, or is finished.
LEMMA Suivante ==
  ASSUME TypeLoyers, NEW r \in Requetes, EditionCoherente(r), req[r].phase # "libre",
         NEW reste \in SUBSET req[r].reste, Continuer(r, reste)
  PROVE  /\ req' \in [Requetes -> EtatRequete]
         /\ EditionCoherente(r)'
         /\ \A q \in Requetes \ {r} : req'[q] = req[q]
<1>1. Libre \in EtatRequete /\ Libre.phase = "libre"
  BY DEF Libre, EtatRequete
<1>2. CASE reste = {} \/ req[r].cle \notin Groupe
  BY <1>1, <1>2 DEF Continuer, TypeLoyers, EditionCoherente
<1>3. CASE ~ (reste = {} \/ req[r].cle \notin Groupe)
  <2> DEFINE n == [phase |-> "lecture", cle |-> req[r].cle, ecrit |-> req[r].ecrit, reste |-> reste]
  <2>0. req[r] \in EtatRequete /\ req[r].reste \in SUBSET Repetitions
    BY DEF TypeLoyers, EtatRequete
  <2>1. n \in EtatRequete
    BY <2>0 DEF EditionCoherente, EtatRequete
  <2>2. req' = [req EXCEPT ![r] = n]
    BY <1>3 DEF Continuer
  <2>3. req'[r] = n
    BY <2>2 DEF TypeLoyers
  <2> HIDE DEF n
  <2>4. EditionCoherente(r)'
    BY <1>3, <2>3 DEF EditionCoherente, ChampRentRef, n
  <2> QED
    BY <2>1, <2>2, <2>4 DEF TypeLoyers, n
<1> QED
  BY <1>2, <1>3

-----------------------------------------------------------------------------
(***************************************************************************)
(* The edits of the rents keep the invariant and every flat.               *)
(***************************************************************************)
FlatsRestent == \A a \in Appartements : Existe(a) => Existe(a)'

LEMMA Commencer ==
  ASSUME TypeLoyers, \A q \in Requetes : EditionCoherente(q), NEW r \in Requetes,
         NEW a \in Appartements, NEW ecrit \in Modifications,
         NEW reste \in SUBSET Repetitions,
         \A d \in reste : ecrit[ChampRentRef(d.champ, d.valeur)] = d.valeur,
         req' = [req EXCEPT ![r] =
           [phase |-> "ecriture", cle |-> a, ecrit |-> ecrit, reste |-> reste]],
         UNCHANGED loyers
  PROVE  TypeLoyers' /\ (\A q \in Requetes : EditionCoherente(q)') /\ FlatsRestent
<1> DEFINE n == [phase |-> "ecriture", cle |-> a, ecrit |-> ecrit, reste |-> reste]
<1>1. n \in EtatRequete
  BY DEF EtatRequete
<1>2. req'[r] = n /\ (\A q \in Requetes \ {r} : req'[q] = req[q])
  BY DEF TypeLoyers
<1>3. req' \in [Requetes -> EtatRequete]
  BY <1>1 DEF TypeLoyers
<1>4. TypeLoyers'
  BY <1>2, <1>3 DEF TypeLoyers
<1>5. EditionCoherente(r)'
  BY <1>2 DEF EditionCoherente, ChampRentRef
<1>6. \A q \in Requetes \ {r} : EditionCoherente(q)'
  BY <1>2 DEF EditionCoherente, ChampRentRef
<1> QED
  BY <1>4, <1>5, <1>6 DEF FlatsRestent, Existe

LEMMA Edition ==
  ASSUME TypeLoyers, \A q \in Requetes : EditionCoherente(q), NextLoyers
  PROVE  TypeLoyers' /\ (\A q \in Requetes : EditionCoherente(q)') /\ FlatsRestent
<1> PICK r \in Requetes :
      \/ \E a \in Appartements :
           \/ \E corps \in Corps : UpdateAppartement(r, a, corps)
           \/ \E champ \in Champs, v \in Saisis : SetRentRefAndRentRefMaj(r, a, champ, v)
           \/ \E corps \in Corps : CreateAppartement(r, a, corps)
      \/ Ecrire(r)
      \/ LireJumeau(r)
      \/ AlignerJumeau(r)
      \/ InterrompreEdition(r)
  BY DEF NextLoyers
<1>0. Corps \subseteq Modifications /\ Saisis \subseteq Loyers \cup {Nul}
  BY FilatureAssumption DEF Corps, Modifications
<1>1. ASSUME NEW a \in Appartements, NEW corps \in Corps, UpdateAppartement(r, a, corps)
      PROVE  TypeLoyers' /\ (\A q \in Requetes : EditionCoherente(q)') /\ FlatsRestent
  <2>1. corps \in Modifications
    BY <1>0
  <2>2. /\ ARepeter(corps) \subseteq Repetitions
        /\ \A d \in ARepeter(corps) : corps[ChampRentRef(d.champ, d.valeur)] = d.valeur
    BY DEF ARepeter, ChampRentRef, Repetitions, Champs
  <2>3. /\ req' = [req EXCEPT ![r] =
             [phase |-> "ecriture", cle |-> a, ecrit |-> corps, reste |-> ARepeter(corps)]]
        /\ UNCHANGED loyers
    BY <1>1 DEF UpdateAppartement
  <2> QED
    BY <2>1, <2>2, <2>3, Commencer
<1>2. ASSUME NEW a \in Appartements, NEW champ \in Champs, NEW v \in Saisis,
             SetRentRefAndRentRefMaj(r, a, champ, v)
      PROVE  TypeLoyers' /\ (\A q \in Requetes : EditionCoherente(q)') /\ FlatsRestent
  <2> DEFINE d == [champ |-> champ, valeur |-> v]
  <2>1. v \in Loyers \cup {Nul} /\ d \in Repetitions
    BY <1>0 DEF Repetitions
  <2>2. /\ UneColonne(champ, v) \in Modifications
        /\ \A e \in {d} : UneColonne(champ, v)[ChampRentRef(e.champ, e.valeur)] = e.valeur
    BY <2>1, UneColonneEcrite
  <2>3. /\ req' = [req EXCEPT ![r] = [phase |-> "ecriture", cle |-> a,
                     ecrit |-> UneColonne(champ, v), reste |-> {d}]]
        /\ UNCHANGED loyers
    BY <1>2 DEF SetRentRefAndRentRefMaj
  <2> QED
    BY <2>1, <2>2, <2>3, Commencer
<1>3. ASSUME NEW a \in Appartements, NEW corps \in Corps, CreateAppartement(r, a, corps)
      PROVE  TypeLoyers' /\ (\A q \in Requetes : EditionCoherente(q)') /\ FlatsRestent
  <2> DEFINE l == Fusion(corps, IF Existe(a) THEN loyers[a] ELSE [c \in Champs |-> Nul])
  <2>1. l \in Ligne /\ l # Absente
    BY <1>0, FilatureAssumption DEF TypeLoyers, Existe, Fusion, Ligne, Modifications
  <2>2. loyers' = [loyers EXCEPT ![a] = l] /\ UNCHANGED req
    BY <1>3 DEF CreateAppartement
  <2> HIDE DEF l
  <2> QED
    BY <2>1, <2>2 DEF TypeLoyers, EditionCoherente, FlatsRestent, Existe, ChampRentRef
<1>4. CASE Ecrire(r)
  <2>1. req[r].phase # "libre" /\ loyers' = Apres(req[r].cle, req[r].ecrit)
    BY <1>4 DEF Ecrire
  <2>2. req[r].cle \in Appartements /\ req[r].ecrit \in Modifications
    BY <2>1 DEF EditionCoherente
  <2>4. Continuer(r, req[r].reste)
    BY <1>4 DEF Ecrire
  <2>5. /\ req' \in [Requetes -> EtatRequete]
        /\ EditionCoherente(r)'
        /\ \A q \in Requetes \ {r} : req'[q] = req[q]
    BY <2>1, <2>4, Suivante
  <2>6. /\ loyers' \in [Appartements -> Ligne \cup {Absente}]
        /\ \A x \in Appartements : loyers'[x] = Absente <=> loyers[x] = Absente
    BY <2>1, <2>2, EffetApres
  <2> QED
    BY <2>5, <2>6 DEF TypeLoyers, EditionCoherente, FlatsRestent, Existe, ChampRentRef
<1>5. CASE LireJumeau(r) \/ AlignerJumeau(r)
  <2> DEFINE s == req[r].reste
  <2>1. req[r].phase \in {"lecture", "alignement"}
    BY <1>5 DEF LireJumeau, AlignerJumeau
  <2>2. /\ req[r].cle \in Appartements /\ req[r].cle \in Groupe /\ s # {}
        /\ req[r].ecrit \in Modifications
        /\ req[r] \in EtatRequete /\ s \in SUBSET Repetitions
    BY <2>1 DEF EditionCoherente, TypeLoyers, EtatRequete
  <2>3. Tete(s) \in Repetitions
    BY <2>2, TeteDuReste
  <2>4. /\ loyers' \in [Appartements -> Ligne \cup {Absente}]
        /\ \A x \in Appartements : loyers'[x] = Absente <=> loyers[x] = Absente
    <3>1. CASE AlignerJumeau(r)
      <4>1. Jumeau(req[r].cle) \in Appartements
        BY <2>2, Jumeaux
      <4>2. UneColonne(Tete(s).champ, Tete(s).valeur) \in Modifications
        BY <2>3, UneColonneEcrite DEF Repetitions
      <4>3. loyers' = Apres(Jumeau(req[r].cle), UneColonne(Tete(s).champ, Tete(s).valeur))
        BY <3>1 DEF AlignerJumeau
      <4> QED
        BY <4>1, <4>2, <4>3, EffetApres
    <3>2. CASE LireJumeau(r)
      BY <3>2 DEF LireJumeau, TypeLoyers
    <3> QED
      BY <1>5, <3>1, <3>2
  <2>5. CASE Continuer(r, s \ {Tete(s)})
    <3>1. /\ req' \in [Requetes -> EtatRequete]
            /\ EditionCoherente(r)'
          /\ \A q \in Requetes \ {r} : req'[q] = req[q]
      BY <2>1, <2>5, Suivante
    <3> QED
      BY <2>4, <3>1 DEF TypeLoyers, EditionCoherente, FlatsRestent, Existe, ChampRentRef
  <2>6. CASE ~ Continuer(r, s \ {Tete(s)})
    <3> DEFINE n == [phase |-> "alignement", cle |-> req[r].cle,
                     ecrit |-> req[r].ecrit, reste |-> req[r].reste]
    <3>1. req' = [req EXCEPT ![r] = n]
      BY <1>5, <2>6 DEF LireJumeau, AlignerJumeau
    <3>2. n \in EtatRequete
      BY <2>2 DEF EtatRequete
    <3>3. req'[r] = n /\ (\A q \in Requetes \ {r} : req'[q] = req[q])
      BY <3>1 DEF TypeLoyers
    <3>4. req' \in [Requetes -> EtatRequete]
      BY <3>1, <3>2 DEF TypeLoyers
    <3>5. EditionCoherente(r)'
      BY <2>1, <2>2, <3>3 DEF EditionCoherente, ChampRentRef
    <3> HIDE DEF n
    <3>6. \A q \in Requetes \ {r} : EditionCoherente(q)'
      BY <3>3 DEF EditionCoherente, ChampRentRef
    <3>7. TypeLoyers'
      BY <2>4, <3>4 DEF TypeLoyers
    <3> QED
      BY <2>4, <3>5, <3>6, <3>7 DEF FlatsRestent, Existe
  <2> QED
    BY <2>5, <2>6
<1>6. CASE InterrompreEdition(r)
  <2>1. Libre \in EtatRequete /\ Libre.phase = "libre"
    BY DEF Libre, EtatRequete
  <2>2. req' = [req EXCEPT ![r] = Libre] /\ UNCHANGED loyers
    BY <1>6 DEF InterrompreEdition
  <2> QED
    BY <2>1, <2>2 DEF TypeLoyers, EditionCoherente, FlatsRestent, Existe, ChampRentRef
<1> QED
  BY <1>1, <1>2, <1>3, <1>4, <1>5, <1>6

-----------------------------------------------------------------------------
(***************************************************************************)
(* Rooms, characteristics and the deletion of flats.                       *)
(***************************************************************************)
LEMMA Initial == Init => IInv
<1> SUFFICES ASSUME Init PROVE IInv
  OBVIOUS
<1>1. [c \in Champs |-> Nul] \in Ligne
  BY DEF Ligne
<1>2. Libre \in EtatRequete /\ Libre.phase = "libre"
  BY DEF Libre, EtatRequete
<1>3. TypeLoyers /\ \A r \in Requetes : EditionCoherente(r)
  BY <1>1, <1>2 DEF Init, InitLoyers, TypeLoyers, EditionCoherente
<1>4. Attente \in EtatAppel
  BY DEF Attente, EtatAppel
<1>5. PrisesTenues
  BY DEF Init, PrisesTenues, Attente
<1> QED
  BY <1>3, <1>4, <1>5 DEF Init, IInv, TypeOK

\* What the steps other than edits need of the state.
LEMMA LignesTypees ==
  ASSUME IInv
  PROVE  /\ loyers \in [Appartements -> Ligne \cup {Absente}]
         /\ appartement_id \in [Enfants -> Appartements \cup {Absente}]
         /\ appel \in [Appels -> EtatAppel]
         /\ \A p \in Appels : appel[p].pris \subseteq Enfants
         /\ \A p \in Appels : appel[p].cle # Absente
         /\ \A p \in Appels : \A e \in appel[p].pris : appartement_id[e] # Absente
BY LogementAssumption DEF IInv, TypeOK, TypeLoyers, EtatAppel, PrisesTenues

\* A step on rows nobody has taken.
LEMMA SurEnfants ==
  ASSUME IInv, UNCHANGED <<varsLoyers, appel>>, attribues \subseteq attribues',
         attribues' \subseteq Enfants,
         appartement_id' \in [Enfants -> Appartements \cup {Absente}],
         \A e \in Enfants : appartement_id'[e] # appartement_id[e] =>
           /\ ~ Verrouille(e)
           /\ appartement_id'[e] # Absente => e \in attribues' /\ Existe(appartement_id'[e])
  PROVE  IInv'
<1>1. PrisesTenues'
  BY LignesTypees DEF IInv, PrisesTenues, Verrouille
<1>2. (\A r \in Requetes : EditionCoherente(r))'
  BY DEF IInv, EditionCoherente, varsLoyers, ChampRentRef
<1> QED
  BY <1>1, <1>2 DEF IInv, TypeOK, TypeLoyers, Existe, varsLoyers

\* A step of a deletion that changes no row.
LEMMA SurAppel ==
  ASSUME IInv, UNCHANGED <<varsLoyers, enfants>>, NEW p \in Appels, NEW n \in EtatAppel,
         appel' = [appel EXCEPT ![p] = n],
         \A e \in n.pris : appartement_id[e] = n.cle,
         \A q \in Appels \ {p} : n.pris \cap appel[q].pris = {}
  PROVE  IInv'
<1>1. appel'[p] = n /\ \A q \in Appels \ {p} : appel'[q] = appel[q]
  BY LignesTypees
<1>2. appel' \in [Appels -> EtatAppel]
  BY LignesTypees
<1>3. PrisesTenues'
  BY <1>1 DEF IInv, PrisesTenues, enfants
<1>4. (\A r \in Requetes : EditionCoherente(r))'
  BY DEF IInv, EditionCoherente, varsLoyers, ChampRentRef
<1> QED
  BY <1>2, <1>3, <1>4 DEF IInv, TypeOK, TypeLoyers, Existe, varsLoyers, enfants

LEMMA SurPrise ==
  ASSUME IInv, NEW p \in Appels, NEW table \in SUBSET Enfants,
         NEW suivante \in {"chambres", "appartement"}, Prendre(p, table, suivante)
  PROVE  IInv'
<1> DEFINE lignes == De(appel[p].cle, table)
           n == [appel[p] EXCEPT !.pris = @ \cup lignes, !.phase = suivante]
<1>1. appel[p] \in EtatAppel /\ lignes \subseteq Enfants
  BY LignesTypees DEF De
<1>2. n \in EtatAppel /\ n.pris = appel[p].pris \cup lignes /\ n.cle = appel[p].cle
  BY <1>1 DEF EtatAppel
<1>3. appel' = [appel EXCEPT ![p] = n]
  BY LignesTypees DEF Prendre, EtatAppel
<1>4. \A e \in n.pris : appartement_id[e] = n.cle
  BY <1>2 DEF IInv, PrisesTenues, De
<1>5. \A q \in Appels \ {p} : n.pris \cap appel[q].pris = {}
  BY <1>2 DEF IInv, PrisesTenues, Prendre, Verrouille
<1>6. UNCHANGED <<varsLoyers, enfants>>
  BY DEF Prendre
<1> HIDE DEF n
<1> QED
  BY <1>2, <1>3, <1>4, <1>5, <1>6, SurAppel

\* The commit, or the rollback.
LEMMA SurFin ==
  ASSUME IInv, NEW p \in Appels, TerminerSuppression(p)
  PROVE  /\ IInv'
         /\ \A e \in Enfants : appartement_id[e] # Absente =>
              /\ loyers'[appartement_id[e]] = Absente => appartement_id'[e] = Absente
              /\ appartement_id'[e] = Absente => loyers'[appartement_id[e]] = Absente
<1> DEFINE a == appel[p].cle
<1>1. /\ appel' = [appel EXCEPT ![p] = Attente]
      /\ UNCHANGED <<req, attribues>>
  BY DEF TerminerSuppression, Ceder
<1>2. Attente \in EtatAppel /\ Attente.pris = {}
  BY DEF Attente, EtatAppel
<1>3. appel'[p] = Attente /\ \A q \in Appels \ {p} : appel'[q] = appel[q]
  BY <1>1, LignesTypees
<1>4. appel' \in [Appels -> EtatAppel]
  BY <1>1, <1>2, LignesTypees
<1>5. (\A r \in Requetes : EditionCoherente(r))'
  BY <1>1 DEF IInv, EditionCoherente, ChampRentRef
<1>6. CASE Refuse(p)
  <2>1. UNCHANGED <<loyers, appartement_id>>
    BY <1>6 DEF TerminerSuppression
  <2>2. PrisesTenues'
    BY <1>2, <1>3, <2>1 DEF IInv, PrisesTenues
  <2>3. TypeOK'
    BY <1>1, <1>4, <2>1 DEF IInv, TypeOK, TypeLoyers, Existe
  <2> QED
    BY <1>5, <2>1, <2>2, <2>3 DEF IInv, TypeOK, Existe
<1>7. CASE ~ Refuse(p)
  <2>1. /\ loyers' = [loyers EXCEPT ![a] = Absente]
        /\ appartement_id' = [e \in Enfants |->
             IF e \in appel[p].pris THEN Absente ELSE appartement_id[e]]
    BY <1>7 DEF TerminerSuppression
  <2>2. \A e \in Enfants : e \in appel[p].pris <=> appartement_id[e] = a
    BY <1>7 DEF Refuse, IInv, PrisesTenues
  <2>3. \A e \in Enfants : appartement_id'[e] =
          IF appartement_id[e] = a THEN Absente ELSE appartement_id[e]
    BY <2>1, <2>2
  <2>4. \A x \in Appartements : loyers'[x] = IF x = a THEN Absente ELSE loyers[x]
    BY <2>1, LignesTypees
  <2>5. loyers' \in [Appartements -> Ligne \cup {Absente}]
    BY <2>1, LignesTypees
  <2>6. appartement_id' \in [Enfants -> Appartements \cup {Absente}]
    BY <2>1, LignesTypees
  <2>7. TypeOK'
    BY <1>1, <1>4, <2>3, <2>4, <2>5, <2>6 DEF IInv, TypeOK, TypeLoyers, Existe
  <2>8. PrisesTenues'
    BY <1>2, <1>3, <2>1, LignesTypees DEF IInv, PrisesTenues
  <2>9. \A e \in Enfants : appartement_id[e] # Absente =>
          /\ appartement_id[e] \in Appartements
          /\ loyers[appartement_id[e]] # Absente
    BY DEF IInv, TypeOK, Existe
  <2> QED
    BY <1>5, <2>3, <2>4, <2>7, <2>8, <2>9 DEF IInv
<1> QED
  BY <1>6, <1>7

LEMMA SurEdition ==
  ASSUME IInv, NextLoyers, UNCHANGED <<enfants, appel>>
  PROVE  IInv' /\ FlatsRestent
<1>1. TypeLoyers' /\ (\A r \in Requetes : EditionCoherente(r)') /\ FlatsRestent
  BY Edition DEF IInv, TypeOK
<1>2. PrisesTenues'
  BY DEF IInv, PrisesTenues, enfants
<1> QED
  BY <1>1, <1>2 DEF IInv, TypeOK, FlatsRestent, Existe, enfants

LEMMA Pas == IInv /\ [Next]_vars => IInv'
<1> SUFFICES ASSUME IInv, [Next]_vars PROVE IInv'
  OBVIOUS
<1>1. CASE NextLoyers /\ UNCHANGED <<enfants, appel>>
  BY <1>1, SurEdition
<1>2. ASSUME NEW e \in Enfants, NEW a \in Appartements, CreerEnfant(e, a)
      PROVE  IInv'
  <2>1. ~ Verrouille(e)
    BY <1>2, LignesTypees DEF CreerEnfant, Verrouille, IInv, TypeOK
  <2> QED
    BY <1>2, <2>1, SurEnfants, LignesTypees DEF CreerEnfant, Accepte, IInv, TypeOK
<1>3. ASSUME NEW c \in Chambres, NEW a \in Appartements \cup {Inchange}, UpdateChambre(c, a)
      PROVE  IInv'
  <2>1. c \in Enfants
    BY DEF Enfants
  <2>2. PICK b \in Appartements : /\ Existe(b) /\ c \in attribues /\ ~ Verrouille(c)
                                  /\ appartement_id' = [appartement_id EXCEPT ![c] = b]
                                  /\ UNCHANGED <<varsLoyers, attribues, appel>>
    BY <1>3 DEF UpdateChambre, Accepte
  <2> QED
    BY <2>1, <2>2, SurEnfants, LignesTypees DEF IInv, TypeOK
<1>4. ASSUME NEW e \in Enfants, SupprimerEnfant(e)
      PROVE  IInv'
  BY <1>4, SurEnfants, LignesTypees DEF SupprimerEnfant, IInv, TypeOK
<1>5. ASSUME NEW p \in Appels, NEW a \in Appartements, DeleteAppartement(p, a)
      PROVE  IInv'
  <2> DEFINE n == [Attente EXCEPT !.phase = "caracteristiques", !.cle = a]
  <2>1. n \in EtatAppel /\ n.pris = {}
    BY DEF Attente, EtatAppel
  <2>2. appel' = [appel EXCEPT ![p] = n] /\ UNCHANGED <<varsLoyers, enfants>>
    BY <1>5 DEF DeleteAppartement
  <2> HIDE DEF n
  <2> QED
    BY <2>1, <2>2, SurAppel
<1>6. ASSUME NEW p \in Appels, SupprimerCaracteristiques(p) \/ SupprimerChambres(p)
      PROVE  IInv'
  BY <1>6, SurPrise DEF SupprimerCaracteristiques, SupprimerChambres, Enfants
<1>7. ASSUME NEW p \in Appels, TerminerSuppression(p)
      PROVE  IInv'
  BY <1>7, SurFin
<1>8. ASSUME NEW p \in Appels, Abandonner(p)
      PROVE  IInv'
  <2>1. Attente \in EtatAppel /\ Attente.pris = {}
    BY DEF Attente, EtatAppel
  <2> QED
    BY <1>8, <2>1, SurAppel DEF Abandonner, Ceder
<1>9. CASE UNCHANGED vars
  BY <1>9 DEF vars, varsLoyers, enfants, IInv, TypeOK, TypeLoyers, EditionCoherente,
              PrisesTenues, Existe, ChampRentRef
<1> QED
  BY <1>1, <1>2, <1>3, <1>4, <1>5, <1>6, <1>7, <1>8, <1>9 DEF Next

\* Every reachable state is typed, a row has a flat that is there, a request
\* repeats what it wrote, and what a deletion has taken stays where it was.
THEOREM Invariant == Spec => []IInv
BY Initial, Pas, PTL DEF Spec

\* TypeOK, which holds the foreign keys of rooms and characteristics.
THEOREM Typage == Spec => []TypeOK
<1>1. IInv => TypeOK
  BY DEF IInv
<1> QED
  BY <1>1, Invariant, PTL

-----------------------------------------------------------------------------
(***************************************************************************)
(* Action properties.                                                      *)
(***************************************************************************)
LEMMA PasEntier ==
  ASSUME IInv, [Next]_vars, NEW e \in Enfants, appartement_id[e] \in Appartements
  PROVE  /\ loyers'[appartement_id[e]] = Absente => appartement_id'[e] = Absente
         /\ appartement_id'[e] = Absente =>
              loyers'[appartement_id[e]] = Absente \/ SupprimerEnfant(e)
<1> DEFINE a == appartement_id[e]
<1>1. a # Absente /\ loyers[a] # Absente
  BY LogementAssumption DEF IInv, TypeOK, Existe
<1>2. CASE NextLoyers /\ UNCHANGED <<enfants, appel>>
  BY <1>1, <1>2, SurEdition DEF FlatsRestent, Existe, enfants
<1>3. ASSUME NEW x \in Enfants, NEW b \in Appartements, CreerEnfant(x, b)
      PROVE  loyers' = loyers /\ appartement_id'[e] # Absente
  BY <1>1, <1>3, LignesTypees, LogementAssumption DEF CreerEnfant, varsLoyers
<1>4. ASSUME NEW c \in Chambres, NEW b \in Appartements \cup {Inchange}, UpdateChambre(c, b)
      PROVE  loyers' = loyers /\ appartement_id'[e] # Absente
  BY <1>1, <1>4, LignesTypees, LogementAssumption DEF UpdateChambre, Accepte, varsLoyers
<1>5. ASSUME NEW x \in Enfants, SupprimerEnfant(x)
      PROVE  loyers' = loyers /\ (appartement_id'[e] = Absente => x = e)
  BY <1>1, <1>5, LignesTypees DEF SupprimerEnfant, varsLoyers
<1>6. ASSUME NEW p \in Appels, TerminerSuppression(p)
      PROVE  loyers'[a] = Absente <=> appartement_id'[e] = Absente
  BY <1>1, <1>6, SurFin
<1>7. ASSUME NEW p \in Appels,
             \/ \E b \in Appartements : DeleteAppartement(p, b)
             \/ SupprimerCaracteristiques(p)
             \/ SupprimerChambres(p)
             \/ Abandonner(p)
      PROVE  UNCHANGED <<loyers, appartement_id>>
  BY <1>7 DEF DeleteAppartement, SupprimerCaracteristiques, SupprimerChambres, Prendre,
              Abandonner, varsLoyers, enfants
<1>8. CASE UNCHANGED vars
  BY <1>1, <1>8 DEF vars, varsLoyers, enfants
<1> QED
  BY <1>1, <1>2, <1>3, <1>4, <1>5, <1>6, <1>7, <1>8 DEF Next

\* A flat leaves with all that refers to it, and nothing that refers to a flat
\* goes without it unless a request deletes that row.
THEOREM Suppression == Spec => SuppressionEntiere
<1>1. IInv /\ [Next]_vars =>
        \A e \in Enfants :
          LET a == appartement_id[e] IN
          a \in Appartements =>
            /\ loyers'[a] = Absente => appartement_id'[e] = Absente
            /\ appartement_id'[e] = Absente => loyers'[a] = Absente \/ SupprimerEnfant(e)
  BY PasEntier
<1> QED
  BY <1>1, Invariant, PTL DEF Spec, SuppressionEntiere

\* The steps of an edit: the write of its own flat, the repetition on the twin.
LEMMA EffetEcrire ==
  ASSUME IInv, NEW r \in Requetes, Ecrire(r)
  PROVE  /\ req[r].cle \in Appartements /\ req[r].ecrit \in Modifications
         /\ loyers' = Apres(req[r].cle, req[r].ecrit)
BY DEF IInv, EditionCoherente, Ecrire

LEMMA EffetAligner ==
  ASSUME IInv, NEW r \in Requetes, AlignerJumeau(r)
  PROVE  LET b == Jumeau(req[r].cle)
             d == Tete(req[r].reste)
             champ == ChampRentRef(d.champ, d.valeur)
         IN
         /\ req[r].cle \in Groupe /\ b \in Appartements /\ {b, req[r].cle} = Groupe
         /\ d \in req[r].reste /\ champ \in Champs
         /\ \A x \in Appartements : loyers'[x] = Absente <=> loyers[x] = Absente
         /\ \A x \in Appartements \ {b} : loyers'[x] = loyers[x]
         /\ Existe(b) => \A c \in Champs :
              loyers'[b][c] = IF c = champ THEN req[r].ecrit[champ] ELSE loyers[b][c]
<1> DEFINE b == Jumeau(req[r].cle)
           d == Tete(req[r].reste)
           champ == ChampRentRef(d.champ, d.valeur)
           maj == UneColonne(d.champ, d.valeur)
<1>1. /\ req[r].phase = "alignement"
      /\ loyers' = Apres(b, maj)
  BY DEF AlignerJumeau
<1>2. /\ req[r].cle \in Groupe /\ req[r].reste # {}
      /\ \A e \in req[r].reste : req[r].ecrit[ChampRentRef(e.champ, e.valeur)] = e.valeur
      /\ req[r].reste \in SUBSET Repetitions
  BY <1>1 DEF IInv, TypeOK, TypeLoyers, EtatRequete, EditionCoherente
<1>3. d \in req[r].reste /\ d \in Repetitions
  BY <1>2, TeteDuReste
<1>4. d.champ \in Champs /\ d.valeur \in Loyers \cup {Nul} /\ req[r].ecrit[champ] = d.valeur
  BY <1>2, <1>3 DEF Repetitions
<1>5. b \in Appartements /\ {b, req[r].cle} = Groupe
  BY <1>2, Jumeaux
<1> HIDE DEF b, d
<1>6. /\ champ \in Champs /\ maj \in Modifications /\ maj[champ] = d.valeur
      /\ \A c \in Champs : maj[c] # Inchange => c = champ
  BY <1>4, UneColonneEcrite
<1>7. d.valeur # Inchange
  BY <1>4, FilatureAssumption
<1> HIDE DEF champ, maj
<1>8. TypeLoyers
  BY DEF IInv, TypeOK
<1>9. /\ \A x \in Appartements : loyers'[x] = Absente <=> loyers[x] = Absente
      /\ \A x \in Appartements \ {b} : loyers'[x] = loyers[x]
      /\ Existe(b) => \A c \in Champs :
           loyers'[b][c] = IF maj[c] = Inchange THEN loyers[b][c] ELSE maj[c]
  BY <1>1, <1>5, <1>6, <1>8, EffetApres
<1>10. Existe(b) => \A c \in Champs :
         loyers'[b][c] = IF c = champ THEN req[r].ecrit[champ] ELSE loyers[b][c]
  BY <1>4, <1>6, <1>7, <1>9
<1> QED
  BY <1>2, <1>3, <1>5, <1>6, <1>9, <1>10 DEF b, d, champ

LEMMA PasPorte ==
  ASSUME IInv, [Next]_vars, NEW r \in Requetes, NEW a \in Appartements, NEW c \in Champs,
         req'[r] # req[r], loyers'[a] # loyers[a]
  PROVE  /\ a = req[r].cle \/ {a, req[r].cle} = Groupe
         /\ loyers'[a][c] # loyers[a][c] => loyers'[a][c] = req[r].ecrit[c]
<1>1. req' # req /\ loyers' # loyers
  OBVIOUS
<1>2. NextLoyers
  BY <1>1 DEF Next, vars, varsLoyers, CreerEnfant, UpdateChambre, SupprimerEnfant,
              DeleteAppartement, SupprimerCaracteristiques, SupprimerChambres, Prendre,
              TerminerSuppression, Abandonner
<1>3. PICK q \in Requetes : Ecrire(q) \/ AlignerJumeau(q)
  BY <1>1, <1>2 DEF NextLoyers, UpdateAppartement, SetRentRefAndRentRefMaj, CreateAppartement,
                    LireJumeau, InterrompreEdition
<1>4. q = r
  BY <1>3 DEF Ecrire, AlignerJumeau, Continuer, IInv, TypeOK, TypeLoyers
<1>5. CASE Ecrire(r)
  <2>1. TypeLoyers
    BY DEF IInv, TypeOK
  <2>2. req[r].cle \in Appartements /\ req[r].ecrit \in Modifications
    BY <1>5, EffetEcrire
  <2>3. /\ \A x \in Appartements \ {req[r].cle} : loyers'[x] = loyers[x]
        /\ \A x \in Appartements : loyers'[x] = Absente <=> loyers[x] = Absente
        /\ Existe(req[r].cle) => \A k \in Champs : loyers'[req[r].cle][k] =
             IF req[r].ecrit[k] = Inchange THEN loyers[req[r].cle][k] ELSE req[r].ecrit[k]
    BY <1>5, <2>1, <2>2, EffetEcrire, EffetApres
  <2>4. a = req[r].cle /\ Existe(a)
    BY <2>3 DEF Existe
  <2> QED
    BY <2>3, <2>4
<1>6. CASE AlignerJumeau(r)
  <2>1. a = Jumeau(req[r].cle) /\ {a, req[r].cle} = Groupe /\ Existe(a)
    BY <1>6, EffetAligner DEF Existe
  <2> QED
    BY <1>6, <2>1, EffetAligner
<1> QED
  BY <1>3, <1>4, <1>5, <1>6

\* An edit writes its own flat or its twin, and there what it was asked to.
THEOREM Portee == Spec => PorteeDesEcritures
<1>1. IInv /\ [Next]_vars =>
        [\A r \in Requetes, a \in Appartements, c \in Champs :
           req'[r] # req[r] /\ loyers'[a] # loyers[a] =>
             /\ a = req[r].cle \/ {a, req[r].cle} = Groupe
             /\ loyers'[a][c] # loyers[a][c] => loyers'[a][c] = req[r].ecrit[c]]_varsLoyers
  BY PasPorte
<1> QED
  BY <1>1, Invariant, PTL DEF Spec, PorteeDesEcritures

-----------------------------------------------------------------------------
(***************************************************************************)
(* Alignment of the residence, one edit of it at a time.                   *)
(***************************************************************************)

\* The columns of a statement that the twin must end up with.
ARetrouver(ecrit) ==
  {c \in Champs : ecrit[c] # Inchange /\ (c = "rentRef" => ecrit[c] \in Loyers)}

SurPlace(r) ==
  Existe(req[r].cle) => \A c \in Champs :
    req[r].ecrit[c] # Inchange => loyers[req[r].cle][c] = req[r].ecrit[c]

Attendu(reste, c) == \E d \in reste : ChampRentRef(d.champ, d.valeur) = c

SurLeJumeau(r, c) ==
  Existe(Jumeau(req[r].cle)) => loyers[Jumeau(req[r].cle)][c] = req[r].ecrit[c]

\* A column is still to be repeated, or it is repeated and stays so.
Alignement(r) ==
  /\ req[r].phase \in {"lecture", "alignement"} => SurPlace(r)
  /\ req[r].phase # "libre" => \A c \in ARetrouver(req[r].ecrit) :
       \/ Attendu(req[r].reste, c)
       \/ req[r].phase # "ecriture" /\ SurLeJumeau(r, c)

\* What a statement leaves behind: the next one, or two aligned flats.
LEMMA Avancee ==
  ASSUME IInv, NEW r \in Requetes, req[r].phase # "libre",
         NEW reste \in SUBSET req[r].reste, Continuer(r, reste),
         NEW a, a = req[r].cle, NEW b, b = Jumeau(a), NEW ecrit, ecrit = req[r].ecrit,
         loyers'[a] # Absente => \A c \in Champs :
           ecrit[c] # Inchange => loyers'[a][c] = ecrit[c],
         \A c \in ARetrouver(ecrit) :
           Attendu(reste, c) \/ (loyers'[b] # Absente => loyers'[b][c] = ecrit[c])
  PROVE  /\ Alignement(r)'
         /\ req'[r] = Libre /\ a \in Groupe => \A c \in ARetrouver(ecrit) : Aligne(r, c)
<1>1. req \in [Requetes -> EtatRequete]
  BY DEF IInv, TypeOK, TypeLoyers
<1>2. CASE reste = {} \/ a \notin Groupe
  <2>1. req'[r] = Libre
    BY <1>1, <1>2 DEF Continuer
  <2>2. Alignement(r)'
    BY <2>1 DEF Alignement, Libre
  <2>3. ASSUME a \in Groupe, NEW c \in ARetrouver(ecrit)
        PROVE  Aligne(r, c)
    BY <1>2, <2>3 DEF Attendu, Aligne, ARetrouver
  <2> QED
    BY <2>2, <2>3
<1>3. CASE ~ (reste = {} \/ a \notin Groupe)
  <2> DEFINE n == [phase |-> "lecture", cle |-> a, ecrit |-> ecrit, reste |-> reste]
  <2>1. req'[r] = n
    BY <1>1, <1>3 DEF Continuer
  <2>2. req'[r].phase = "lecture" /\ req'[r].cle = a /\ req'[r].ecrit = ecrit /\ req'[r].reste = reste
    BY <2>1
  <2>3. SurPlace(r)'
    BY <2>2 DEF SurPlace, Existe
  <2>4. (\A c \in ARetrouver(req[r].ecrit) : Attendu(req[r].reste, c) \/ SurLeJumeau(r, c))'
    BY <2>2 DEF ARetrouver, SurLeJumeau, Attendu, ChampRentRef, Existe, Jumeau
  <2>5. Alignement(r)'
    BY <2>2, <2>3, <2>4 DEF Alignement
  <2>6. req'[r] # Libre
    BY <2>2 DEF Libre
  <2> QED
    BY <2>5, <2>6
<1> QED
  BY <1>2, <1>3

\* Each of the three steps that go on with the work.
LEMMA Avancer ==
  ASSUME IInv, NEW r \in Requetes, Alignement(r),
         \/ Ecrire(r)
         \/ LireJumeau(r) /\ Continuer(r, req[r].reste \ {Tete(req[r].reste)})
         \/ AlignerJumeau(r)
  PROVE  /\ Alignement(r)'
         /\ req'[r] = Libre /\ req[r].cle \in Groupe =>
              \A c \in ARetrouver(req[r].ecrit) : Aligne(r, c)
<1> DEFINE a == req[r].cle
           b == Jumeau(a)
           ecrit == req[r].ecrit
           s == req[r].reste
           d == Tete(s)
           champ == ChampRentRef(d.champ, d.valeur)
<1>1. req[r].phase # "libre"
  BY DEF Ecrire, LireJumeau, AlignerJumeau
<1>2. a \in Appartements /\ ecrit \in Modifications /\ TypeLoyers
  BY <1>1 DEF IInv, TypeOK, EditionCoherente
<1>3. CASE Ecrire(r)
  <2>1. /\ \A x \in Appartements : loyers'[x] = Absente <=> loyers[x] = Absente
        /\ Existe(a) => \A c \in Champs :
             loyers'[a][c] = IF ecrit[c] = Inchange THEN loyers[a][c] ELSE ecrit[c]
    BY <1>2, <1>3, EffetEcrire, EffetApres
  <2>2. loyers'[a] # Absente => \A c \in Champs : ecrit[c] # Inchange => loyers'[a][c] = ecrit[c]
    BY <1>2, <2>1 DEF Existe
  <2>3. \A c \in ARetrouver(ecrit) : Attendu(s, c)
    BY <1>3 DEF Ecrire, Alignement
  <2>4. Continuer(r, s)
    BY <1>3 DEF Ecrire
  <2> HIDE DEF a, b, ecrit, s
  <2> QED
    BY <1>1, <2>2, <2>3, <2>4, Avancee DEF a, b, ecrit, s
<1>4. CASE LireJumeau(r) /\ Continuer(r, s \ {d})
  <2>1. req[r].phase = "lecture" /\ loyers' = loyers
    BY <1>4 DEF LireJumeau
  <2>2. s # {} /\ s \in SUBSET Repetitions /\ \A e \in s : ecrit[ChampRentRef(e.champ, e.valeur)] = e.valeur
    BY <2>1 DEF IInv, TypeOK, TypeLoyers, EtatRequete, EditionCoherente
  <2>3. d \in s
    BY <2>2, TeteDuReste
  <2>4. Existe(b) => loyers[b][champ] = d.valeur
    <3>1. ASSUME Existe(b), ~ DejaAlignee(b, d)
          PROVE  FALSE
      <4>1. req'[r].phase = "alignement"
        BY <1>2, <3>1, <1>4 DEF LireJumeau, TypeLoyers
      <4>2. req'[r].phase \in {"libre", "lecture"}
        BY <1>2, <1>4 DEF Continuer, Libre, TypeLoyers
      <4> QED
        BY <4>1, <4>2
    <3> QED
      BY <3>1 DEF DejaAlignee
  <2>5. ecrit[champ] = d.valeur
    BY <2>2, <2>3
  <2>6. loyers'[a] # Absente => \A c \in Champs : ecrit[c] # Inchange => loyers'[a][c] = ecrit[c]
    BY <2>1 DEF Alignement, SurPlace, Existe
  <2>7. \A c \in ARetrouver(ecrit) : Attendu(s, c) \/ (Existe(b) => loyers[b][c] = ecrit[c])
    BY <2>1 DEF Alignement, SurLeJumeau
  <2>8. \A c \in ARetrouver(ecrit) :
          Attendu(s \ {d}, c) \/ (loyers'[b] # Absente => loyers'[b][c] = ecrit[c])
    BY <2>1, <2>4, <2>5, <2>7 DEF Attendu, Existe
  <2> DEFINE n == s \ {d}
  <2>9. n \in SUBSET req[r].reste /\ Continuer(r, n)
    BY <1>4
  <2> HIDE DEF n
  <2>10. \A c \in ARetrouver(ecrit) :
          Attendu(n, c) \/ (loyers'[b] # Absente => loyers'[b][c] = ecrit[c])
    BY <2>8 DEF n
  <2> HIDE DEF d, s
  <2> QED
    BY <1>1, <2>6, <2>9, <2>10, Avancee
<1>5. CASE AlignerJumeau(r)
  <2>1. req[r].phase = "alignement" /\ Continuer(r, s \ {d})
    BY <1>5 DEF AlignerJumeau
  <2>2. /\ a \in Groupe /\ b \in Appartements /\ {b, a} = Groupe /\ d \in s /\ champ \in Champs
        /\ \A x \in Appartements : loyers'[x] = Absente <=> loyers[x] = Absente
        /\ \A x \in Appartements \ {b} : loyers'[x] = loyers[x]
        /\ Existe(b) => \A c \in Champs :
             loyers'[b][c] = IF c = champ THEN ecrit[champ] ELSE loyers[b][c]
    BY <1>5, EffetAligner
  <2>3. a # b
    BY <2>2, FilatureAssumption
  <2>4. loyers'[a] # Absente => \A c \in Champs : ecrit[c] # Inchange => loyers'[a][c] = ecrit[c]
    BY <1>2, <2>1, <2>2, <2>3 DEF Alignement, SurPlace, Existe
  <2>5. \A c \in ARetrouver(ecrit) : Attendu(s, c) \/ (Existe(b) => loyers[b][c] = ecrit[c])
    BY <2>1 DEF Alignement, SurLeJumeau
  <2>6. \A c \in ARetrouver(ecrit) : c \in Champs
    BY DEF ARetrouver
  <2>7. \A c \in ARetrouver(ecrit) :
          Attendu(s \ {d}, c) \/ (loyers'[b] # Absente => loyers'[b][c] = ecrit[c])
    BY <2>2, <2>5, <2>6 DEF Attendu, Existe
  <2> DEFINE n == s \ {d}
  <2>8. n \in SUBSET req[r].reste /\ Continuer(r, n)
    BY <2>1
  <2> HIDE DEF n
  <2>9. \A c \in ARetrouver(ecrit) :
          Attendu(n, c) \/ (loyers'[b] # Absente => loyers'[b][c] = ecrit[c])
    BY <2>7 DEF n
  <2> HIDE DEF d, s
  <2> QED
    BY <1>1, <2>4, <2>8, <2>9, Avancee
<1> QED
  BY <1>3, <1>4, <1>5

\* A new request has everything it must repeat before it.
LEMMA Commencee ==
  ASSUME IInv, NEW r \in Requetes, NEW a \in Appartements,
         \/ \E corps \in Corps : UpdateAppartement(r, a, corps)
         \/ \E champ \in Champs, v \in Saisis : SetRentRefAndRentRefMaj(r, a, champ, v)
  PROVE  Alignement(r)'
<1>0. Saisis \subseteq Loyers \cup {Nul} /\ Nul \notin Loyers
  BY FilatureAssumption
<1>1. req \in [Requetes -> EtatRequete]
  BY DEF IInv, TypeOK, TypeLoyers
<1>2. SUFFICES ASSUME NEW ecrit, NEW reste,
                      req'[r] = [phase |-> "ecriture", cle |-> a, ecrit |-> ecrit, reste |-> reste]
               PROVE  \A c \in ARetrouver(ecrit) : Attendu(reste, c)
  <2>1. PICK ecrit, reste :
          req'[r] = [phase |-> "ecriture", cle |-> a, ecrit |-> ecrit, reste |-> reste]
    BY <1>1 DEF UpdateAppartement, SetRentRefAndRentRefMaj
  <2>2. \A c \in ARetrouver(ecrit) : Attendu(reste, c)
    BY <1>2, <2>1
  <2> QED
    BY <2>1, <2>2 DEF Alignement, Attendu, ARetrouver, ChampRentRef
<1>3. ASSUME NEW corps \in Corps, UpdateAppartement(r, a, corps)
      PROVE  \A c \in ARetrouver(ecrit) : Attendu(reste, c)
  <2>1. ecrit = corps /\ reste = ARepeter(corps)
    BY <1>1, <1>2, <1>3 DEF UpdateAppartement
  <2>2. ASSUME NEW c \in ARetrouver(corps)
        PROVE  Attendu(ARepeter(corps), c)
    <3> DEFINE d == [champ |-> c, valeur |-> corps[c]]
    <3>1. c \in Champs /\ corps[c] \in Loyers \cup {Nul} /\ (c = "rentRef" => corps[c] # Nul)
      BY <1>0, <2>2 DEF ARetrouver, Corps
    <3>2. d \in ARepeter(corps)
      BY <3>1 DEF ARepeter, Repetitions
    <3>3. ChampRentRef(d.champ, d.valeur) = c
      BY <3>1 DEF ChampRentRef, Champs
    <3> HIDE DEF d
    <3> QED
      BY <3>2, <3>3 DEF Attendu
  <2> QED
    BY <2>1, <2>2
<1>4. ASSUME NEW champ \in Champs, NEW v \in Saisis, SetRentRefAndRentRefMaj(r, a, champ, v)
      PROVE  \A c \in ARetrouver(ecrit) : Attendu(reste, c)
  <2>1. ecrit = UneColonne(champ, v) /\ reste = {[champ |-> champ, valeur |-> v]}
    BY <1>1, <1>2, <1>4 DEF SetRentRefAndRentRefMaj
  <2>2. \A c \in ARetrouver(ecrit) : c = ChampRentRef(champ, v)
    BY <1>0, <2>1, UneColonneEcrite DEF ARetrouver
  <2> QED
    BY <2>1, <2>2 DEF Attendu
<1> QED
  BY <1>3, <1>4

\* A request is at work on one of the two flats.
EnResidence(r) == req[r].phase # "libre" /\ req[r].cle \in Groupe

\* The residence is edited by one request at a time; every other flat, by any
\* number.  With one request at a time it always holds.
UneEditionDeResidence == \A r, q \in Requetes : EnResidence(r) /\ EnResidence(q) => r = q

\* A flat of the residence does not come back in the middle of an edit of it.
RetourHorsEdition ==
  \A r \in Requetes, a \in Groupe, corps \in Corps :
    CreateAppartement(r, a, corps) => \A q \in Requetes : ~ EnResidence(q)

\* The step of another request writes neither flat of the residence that is
\* being edited.
LEMMA AutreFlat ==
  ASSUME IInv, NEW r \in Requetes, NEW q \in Requetes, q # r, EnResidence(r),
         UneEditionDeResidence, RetourHorsEdition, NEW x \in Groupe,
         \/ \E a \in Appartements, corps \in Corps : CreateAppartement(q, a, corps)
         \/ Ecrire(q) \/ AlignerJumeau(q)
  PROVE  loyers'[x] = loyers[x]
<1>1. x \in Appartements /\ loyers \in [Appartements -> Ligne \cup {Absente}]
  BY FilatureAssumption DEF IInv, TypeOK, TypeLoyers
<1>2. ASSUME NEW a \in Appartements, NEW corps \in Corps, CreateAppartement(q, a, corps)
      PROVE  loyers'[x] = loyers[x]
  <2>1. a # x
    BY <1>2 DEF RetourHorsEdition
  <2> QED
    BY <1>1, <1>2, <2>1 DEF CreateAppartement
<1>3. CASE Ecrire(q) \/ AlignerJumeau(q)
  <2>1. req[q].phase # "libre" /\ req[q].cle \notin Groupe
    BY <1>3 DEF Ecrire, AlignerJumeau, UneEditionDeResidence, EnResidence
  <2>2. req[q].phase = "ecriture"
    BY <2>1 DEF IInv, EditionCoherente
  <2>3. Ecrire(q)
    BY <1>3, <2>2 DEF AlignerJumeau
  <2> QED
    BY <1>1, <2>1, <2>3, EffetEcrire, EffetApres DEF IInv, TypeOK
<1> QED
  BY <1>2, <1>3

\* Meanwhile nobody else writes a rent of the residence or brings a flat of it back.
LEMMA PasAligne ==
  ASSUME IInv, [Next]_vars, NEW r \in Requetes, Alignement(r),
         UneEditionDeResidence, [RetourHorsEdition]_vars
  PROVE  Alignement(r)'
<1>1. CASE /\ req'[r] = req[r]
           /\ EnResidence(r) =>
                \A x \in Groupe : loyers'[x] = loyers[x] \/ loyers'[x] = Absente
  <2>1. CASE req[r].phase = "libre"
    BY <1>1, <2>1 DEF Alignement
  <2>2. CASE req[r].phase = "ecriture"
    BY <1>1, <2>2 DEF Alignement, Attendu, ARetrouver, ChampRentRef
  <2>3. CASE req[r].phase \notin {"libre", "ecriture"}
    <3>1. req[r].cle \in Groupe /\ EnResidence(r)
      BY <2>3 DEF IInv, EditionCoherente, EnResidence
    <3>2. Jumeau(req[r].cle) \in Groupe
      BY <3>1, Jumeaux
    <3>3. SurPlace(r) => SurPlace(r)'
      BY <1>1, <3>1 DEF SurPlace, Existe
    <3>4. \A c : SurLeJumeau(r, c) => SurLeJumeau(r, c)'
      BY <1>1, <3>1, <3>2 DEF SurLeJumeau, Existe, Jumeau
    <3> QED
      BY <1>1, <2>3, <3>3, <3>4 DEF Alignement, Attendu, ARetrouver, ChampRentRef
  <2> QED
    BY <2>1, <2>2, <2>3
<1>2. CASE NextLoyers
  <2>0. req \in [Requetes -> EtatRequete]
    BY DEF IInv, TypeOK, TypeLoyers
  <2>1. ASSUME NEW a \in Appartements, NEW corps \in Corps, CreateAppartement(r, a, corps)
        PROVE  Alignement(r)'
    BY <2>1 DEF CreateAppartement, Alignement
  <2>2. ASSUME InterrompreEdition(r)
        PROVE  Alignement(r)'
    BY <2>0, <2>2 DEF InterrompreEdition, Alignement, Libre
  <2>3. ASSUME LireJumeau(r), ~ Continuer(r, req[r].reste \ {Tete(req[r].reste)})
        PROVE  Alignement(r)'
    <3>1. /\ req'[r].phase = "alignement" /\ req'[r].cle = req[r].cle
          /\ req'[r].ecrit = req[r].ecrit /\ req'[r].reste = req[r].reste
          /\ loyers' = loyers /\ req[r].phase = "lecture"
      BY <2>0, <2>3 DEF LireJumeau
    <3> QED
      BY <3>1 DEF Alignement, SurPlace, SurLeJumeau, Existe, Jumeau, Attendu, ARetrouver, ChampRentRef
  <2>4. PICK q \in Requetes :
          \/ \E a \in Appartements :
               \/ \E corps \in Corps : UpdateAppartement(q, a, corps)
               \/ \E champ \in Champs, v \in Saisis : SetRentRefAndRentRefMaj(q, a, champ, v)
               \/ \E corps \in Corps : CreateAppartement(q, a, corps)
          \/ Ecrire(q) \/ LireJumeau(q) \/ AlignerJumeau(q) \/ InterrompreEdition(q)
    BY <1>2 DEF NextLoyers
  <2>5. CASE q = r
    BY <2>1, <2>2, <2>3, <2>4, <2>5, Commencee, Avancer
  <2>6. CASE q # r
    <3>1. req'[r] = req[r]
      BY <2>0, <2>4, <2>6 DEF UpdateAppartement, SetRentRefAndRentRefMaj, CreateAppartement,
         Ecrire, LireJumeau, AlignerJumeau, InterrompreEdition, Continuer
    <3>2. \/ loyers' = loyers
          \/ \E a \in Appartements, corps \in Corps : CreateAppartement(q, a, corps)
          \/ Ecrire(q) \/ AlignerJumeau(q)
      BY <2>4 DEF UpdateAppartement, SetRentRefAndRentRefMaj, LireJumeau, InterrompreEdition
    <3>3. EnResidence(r) => \A x \in Groupe : loyers'[x] = loyers[x]
      <4>1. CASE UNCHANGED vars
        BY <4>1 DEF vars, varsLoyers
      <4>2. CASE RetourHorsEdition
        BY <2>6, <3>2, <4>2, AutreFlat
      <4> QED
        BY <4>1, <4>2
    <3> QED
      BY <1>1, <3>1, <3>3
  <2> QED
    BY <2>5, <2>6
<1>3. ASSUME NEW p \in Appels, TerminerSuppression(p)
      PROVE  Alignement(r)'
  <2>1. req' = req /\ \A x \in Appartements : loyers'[x] = loyers[x] \/ loyers'[x] = Absente
    BY <1>3 DEF TerminerSuppression, IInv, TypeOK, TypeLoyers
  <2> QED
    BY <1>1, <2>1, FilatureAssumption
<1>4. CASE UNCHANGED varsLoyers
  BY <1>1, <1>4 DEF varsLoyers
<1> QED
  BY <1>2, <1>3, <1>4 DEF Next, vars, CreerEnfant, UpdateChambre, SupprimerEnfant,
     DeleteAppartement, SupprimerCaracteristiques, SupprimerChambres, Prendre, Abandonner

\* As long as the residence is edited by one request at a time, an edit that ends
\* leaves its two flats aligned in what it wrote, whatever was interrupted before
\* it, whatever is deleted and whichever other flats are edited meanwhile.
THEOREM Residence ==
  Spec /\ []UneEditionDeResidence /\ [][RetourHorsEdition]_vars => AlignementDesMontants
<1> DEFINE J == IInv /\ \A r \in Requetes : Alignement(r)
<1>1. Init => J
  <2>1. Init => \A r \in Requetes : Alignement(r)
    <3>1. Libre.phase = "libre"
      BY DEF Libre
    <3> QED
      BY <3>1 DEF Init, InitLoyers, Alignement
  <2> QED
    BY <2>1, Initial
<1>2. J /\ UneEditionDeResidence /\ [Next]_vars /\ [RetourHorsEdition]_vars => J'
  BY Pas, PasAligne
<1>3. J /\ [Next]_vars =>
        [\A r \in Requetes : Termine(r) /\ req[r].cle \in Groupe =>
           /\ req[r].ecrit["rentRef"] \in Loyers => Aligne(r, "rentRef")
           /\ req[r].ecrit["rentRefMaj"] # Inchange => Aligne(r, "rentRefMaj")]_varsLoyers
  <2> SUFFICES ASSUME J, NEW r \in Requetes, Termine(r), req[r].cle \in Groupe
               PROVE  /\ req[r].ecrit["rentRef"] \in Loyers => Aligne(r, "rentRef")
                      /\ req[r].ecrit["rentRefMaj"] # Inchange => Aligne(r, "rentRefMaj")
    OBVIOUS
  <2>1. LireJumeau(r) => Continuer(r, req[r].reste \ {Tete(req[r].reste)})
    <3>1. req \in [Requetes -> EtatRequete]
      BY DEF IInv, TypeOK, TypeLoyers
    <3>2. req'[r].phase = "libre"
      BY DEF Termine, Libre
    <3> QED
      BY <3>1, <3>2 DEF LireJumeau
  <2>2. \A c \in ARetrouver(req[r].ecrit) : Aligne(r, c)
    BY <2>1, Avancer DEF Termine
  <2> QED
    BY <2>2, FilatureAssumption DEF ARetrouver, Champs
<1> QED
  BY <1>1, <1>2, <1>3, PTL DEF Spec, AlignementDesMontants
=============================================================================
