----------------------------- MODULE IrlProofs -----------------------------
(***************************************************************************)
(* For any number of flats, reads and quarters: what a read writes is one  *)
(* published quarter, value and label together, and an index typed while   *)
(* no read has the flat to fill stays.                                     *)
(***************************************************************************)
EXTENDS Irl, TLAPS

Valeurs == Trimestres \cup {Absent}

\* Nothing and nobody knows of a quarter INSEE has not published.
Connu(irl) == irl = Absent \/ irl <= publie

\* A read that fills has a value, one that was answered has the answer, and it
\* is no older than what the read would have fallen back on.
LecturesTenues ==
  \A g \in Lectures :
    /\ Connu(lect[g].irl) /\ Connu(lect[g].reponse)
    /\ lect[g].phase = "remplissage" => lect[g].irl # Absent
    /\ lect[g].phase = "reponse" =>
         /\ lect[g].reponse # Absent
         /\ lect[g].irl # Absent => lect[g].irl <= lect[g].reponse

\* Whatever quarter a column shows is published, and a row never pairs the
\* value of one quarter with the label of another.
Couples ==
  \A a \in Appartements :
    lignes[a] # Absent =>
      /\ lignes[a].valIrl \in Trimestres => lignes[a].valIrl <= publie
      /\ lignes[a].tIrl \in Trimestres => lignes[a].tIrl <= publie
      /\ lignes[a].valIrl \in Trimestres /\ lignes[a].tIrl \in Trimestres
           => lignes[a].valIrl = lignes[a].tIrl

IInv == TypeOK /\ Connu(cache.irl) /\ LecturesTenues /\ Couples

LEMMA TextesDistincts ==
  /\ Trimestres \subseteq Nat
  /\ Saisi \notin Nat /\ Vide \notin Nat /\ Inchange \notin Nat /\ Absent \notin Nat
BY IrlAssumption DEF Trimestres

-----------------------------------------------------------------------------
(***************************************************************************)
(* What the operators of a read return.                                    *)
(***************************************************************************)
LEMMA VueTypee ==
  ASSUME TypeOK, NEW a \in Appartements
  PROVE  Vue(lignes[a]) \in Trimestres \cup {Vide, Absent}
BY DEF TypeOK, Vue

\* Remplir asks for a row only if it was asked for, and only with a value.
LEMMA RemplirTenu ==
  ASSUME NEW lues \in [Appartements -> Trimestres \cup {Vide, Absent}],
         NEW irl \in Valeurs, Connu(irl)
  PROVE  LET e == Remplir(lues, irl) IN
         /\ e \in EtatLecture
         /\ Connu(e.irl) /\ Connu(e.reponse)
         /\ e.phase \in {"libre", "remplissage"}
         /\ e.phase = "remplissage" => e.irl # Absent
         /\ \A a \in Appartements : lues[a] = Absent => e.lues[a] = Absent
<1> DEFINE reste == [a \in Appartements |->
                       IF irl = Absent \/ lues[a] \in {Absent, irl} THEN Absent ELSE Vide]
           plein == [phase |-> "remplissage", lues |-> reste, irl |-> irl, reponse |-> Absent]
<1>1. reste \in [Appartements -> Trimestres \cup {Vide, Absent}]
  OBVIOUS
<1>2. irl = Absent => reste = RienLu
  BY DEF RienLu
<1>3. \A a \in Appartements : lues[a] = Absent => reste[a] = Absent
  OBVIOUS
<1>4. Remplir(lues, irl) = IF reste = RienLu THEN Libre ELSE plein
  BY DEF Remplir
<1> HIDE DEF reste
<1>5. CASE reste = RienLu
  <2>1. Remplir(lues, irl) = Libre
    BY <1>4, <1>5
  <2> QED
    BY <2>1 DEF Libre, RienLu, EtatLecture, Connu
<1>6. CASE reste # RienLu
  <2>1. Remplir(lues, irl) = plein
    BY <1>4, <1>6
  <2> QED
    BY <2>1, <1>1, <1>2, <1>3, <1>6 DEF EtatLecture, Connu, Valeurs
<1> QED
  BY <1>5, <1>6

\* The conditions of LecturesTenues, for one read.
Tenue(e) ==
  /\ Connu(e.irl) /\ Connu(e.reponse)
  /\ e.phase = "remplissage" => e.irl # Absent
  /\ e.phase = "reponse" =>
       /\ e.reponse # Absent
       /\ e.irl # Absent => e.irl <= e.reponse

\* A step that moves one read keeps the others.
LEMMA UneLecture ==
  ASSUME IInv, NEW g \in Lectures, NEW e \in EtatLecture, Tenue(e),
         lect' = [lect EXCEPT ![g] = e], UNCHANGED publie
  PROVE  lect' \in [Lectures -> EtatLecture] /\ LecturesTenues'
<1>1. lect' \in [Lectures -> EtatLecture]
  BY DEF IInv, TypeOK
<1>2. \A h \in Lectures : Tenue(lect'[h])
  BY DEF IInv, TypeOK, LecturesTenues, Tenue
<1> QED
  BY <1>1, <1>2 DEF LecturesTenues, Tenue, Connu

\* A step of the owner that gives each row it writes texts of a quarter the row
\* had, or no quarter at all, keeps the rows.
LEMMA LignesSaisies ==
  ASSUME IInv, UNCHANGED <<cache, publie, lect>>,
         lignes' \in [Appartements -> Ligne \cup {Absent}],
         \A a \in Appartements :
           lignes'[a] # Absent =>
             \/ lignes'[a] = lignes[a]
             \/ /\ \/ lignes'[a].valIrl \in {Saisi, Vide}
                   \/ lignes[a] # Absent /\ lignes'[a].valIrl = lignes[a].valIrl
                /\ \/ lignes'[a].tIrl \in {Saisi, Vide}
                   \/ lignes[a] # Absent /\ lignes'[a].tIrl = lignes[a].tIrl
  PROVE  IInv'
<1>1. TypeOK' /\ Connu(cache.irl)' /\ LecturesTenues'
  BY DEF IInv, TypeOK, LecturesTenues, Connu
<1>2. Couples'
  BY TextesDistincts DEF IInv, Couples
<1> QED
  BY <1>1, <1>2 DEF IInv

LEMMA GardeTypee ==
  ASSUME NEW v \in Textees \cup {Inchange}, NEW ancien \in Textes
  PROVE  Garde(v, ancien) \in Textes /\ (Garde(v, ancien) \in {Saisi, Vide} \/ Garde(v, ancien) = ancien)
BY DEF Garde, Textees, Textes

-----------------------------------------------------------------------------
(***************************************************************************)
(* The invariant.                                                          *)
(***************************************************************************)
LEMMA InitInv == Init => IInv
<1> SUFFICES ASSUME Init PROVE IInv
  OBVIOUS
<1>1. 1 \in Trimestres
  BY IrlAssumption DEF Trimestres
<1>2. TypeOK
  BY <1>1 DEF Init, TypeOK, Ligne, Textes, CacheVide, Libre, RienLu, EtatLecture
<1>3. Connu(cache.irl) /\ LecturesTenues
  BY DEF Init, CacheVide, Libre, LecturesTenues, Connu
<1>4. Couples
  BY TextesDistincts DEF Init, Couples
<1> QED
  BY <1>2, <1>3, <1>4 DEF IInv

LEMMA ChargerInv ==
  ASSUME IInv, NEW g \in Lectures, NEW as \in SUBSET Appartements, Charger(g, as)
  PROVE  IInv'
<1> DEFINE lues == [a \in Appartements |-> IF a \in as THEN Vue(lignes[a]) ELSE Absent]
           attente == [phase |-> "insee", lues |-> lues, irl |-> cache.irl, reponse |-> Absent]
           e == IF EnCache THEN Remplir(lues, cache.irl) ELSE attente
<1>1. lues \in [Appartements -> Trimestres \cup {Vide, Absent}]
  BY VueTypee DEF IInv
<1>2. cache.irl \in Valeurs /\ Connu(cache.irl)
  BY DEF IInv, TypeOK, Valeurs
<1>3. lect' = [lect EXCEPT ![g] = e] /\ UNCHANGED <<lignes, cache, publie>>
  BY DEF Charger
<1> HIDE DEF lues
<1>4. attente \in EtatLecture /\ Tenue(attente)
  BY <1>1, <1>2 DEF EtatLecture, Tenue, Connu, Valeurs
<1>5. Remplir(lues, cache.irl) \in EtatLecture /\ Tenue(Remplir(lues, cache.irl))
  BY <1>1, <1>2, RemplirTenu DEF Tenue
<1>6. e \in EtatLecture /\ Tenue(e)
  BY <1>4, <1>5
<1> HIDE DEF e
<1>7. lect' \in [Lectures -> EtatLecture] /\ LecturesTenues'
  BY <1>3, <1>6, UneLecture
<1> QED
  BY <1>3, <1>7 DEF IInv, TypeOK, Couples, Connu

LEMMA RepondreInv ==
  ASSUME IInv, NEW g \in Lectures, RepondreInsee(g)
  PROVE  IInv'
<1> DEFINE e == [phase |-> "reponse", lues |-> lect[g].lues, irl |-> lect[g].irl, reponse |-> publie]
<1>1. lect[g] \in EtatLecture /\ Connu(lect[g].irl) /\ publie \in Trimestres
  BY DEF IInv, TypeOK, LecturesTenues
<1>2. e \in EtatLecture
  BY <1>1 DEF EtatLecture
<1>3. Tenue(e)
  BY <1>1, TextesDistincts DEF Tenue, Connu
<1>4. lect' = [lect EXCEPT ![g] = e] /\ UNCHANGED <<lignes, cache, publie>>
  BY DEF RepondreInsee
<1> HIDE DEF e
<1>5. lect' \in [Lectures -> EtatLecture] /\ LecturesTenues'
  BY <1>2, <1>3, <1>4, UneLecture
<1> QED
  BY <1>4, <1>5 DEF IInv, TypeOK, Couples, Connu

LEMMA RecevoirInv ==
  ASSUME IInv, NEW g \in Lectures, RecevoirIrl(g)
  PROVE  IInv'
<1> DEFINE irl == lect[g].reponse
           e == Remplir(lect[g].lues, irl)
<1>1. /\ lect[g].lues \in [Appartements -> Trimestres \cup {Vide, Absent}]
      /\ irl \in Valeurs /\ Connu(irl)
  BY DEF IInv, TypeOK, EtatLecture, LecturesTenues, Valeurs
<1>2. e \in EtatLecture /\ Tenue(e)
  BY <1>1, RemplirTenu DEF Tenue
<1>3. /\ lect' = [lect EXCEPT ![g] = e] /\ UNCHANGED <<lignes, publie>>
      /\ cache' = [irl |-> irl, frais |-> TRUE]
  BY DEF RecevoirIrl
<1> HIDE DEF e, irl
<1>4. lect' \in [Lectures -> EtatLecture] /\ LecturesTenues'
  BY <1>2, <1>3, UneLecture
<1> QED
  BY <1>1, <1>3, <1>4 DEF IInv, TypeOK, Couples, Connu, Valeurs

LEMMA EchouerInv ==
  ASSUME IInv, NEW g \in Lectures, EchouerIrl(g)
  PROVE  IInv'
<1> DEFINE e == Remplir(lect[g].lues, lect[g].irl)
<1>1. /\ lect[g].lues \in [Appartements -> Trimestres \cup {Vide, Absent}]
      /\ lect[g].irl \in Valeurs /\ Connu(lect[g].irl)
  BY DEF IInv, TypeOK, EtatLecture, LecturesTenues, Valeurs
<1>2. e \in EtatLecture /\ Tenue(e)
  BY <1>1, RemplirTenu DEF Tenue
<1>3. lect' = [lect EXCEPT ![g] = e] /\ UNCHANGED <<lignes, cache, publie>>
  BY DEF EchouerIrl
<1> HIDE DEF e
<1>4. lect' \in [Lectures -> EtatLecture] /\ LecturesTenues'
  BY <1>2, <1>3, UneLecture
<1> QED
  BY <1>3, <1>4 DEF IInv, TypeOK, Couples, Connu

LEMMA ApplyInv ==
  ASSUME IInv, NEW g \in Lectures, NEW a \in Appartements, ApplyLatestIrl(g, a)
  PROVE  IInv'
<1> DEFINE irl == lect[g].irl
           lues == [lect[g].lues EXCEPT ![a] = Absent]
           e == Remplir(lues, irl)
<1>1. lues \in [Appartements -> Trimestres \cup {Vide, Absent}]
  BY DEF IInv, TypeOK, EtatLecture
<1>2. irl \in Trimestres /\ Connu(irl)
  BY DEF ApplyLatestIrl, IInv, TypeOK, EtatLecture, LecturesTenues
<1>3. e \in EtatLecture /\ Tenue(e)
  BY <1>1, <1>2, RemplirTenu DEF Tenue, Valeurs
<1>4. lect' = [lect EXCEPT ![g] = e] /\ UNCHANGED <<cache, publie>>
  BY DEF ApplyLatestIrl
<1>5. lignes' = IF lignes[a] = Absent THEN lignes
                ELSE [lignes EXCEPT ![a] = [valIrl |-> irl, tIrl |-> irl,
                                            irlManual |-> lignes[a].irlManual]]
  BY DEF ApplyLatestIrl
<1> HIDE DEF e, irl
<1>6. lect' \in [Lectures -> EtatLecture] /\ LecturesTenues'
  BY <1>3, <1>4, UneLecture
<1>7. TypeOK' /\ Connu(cache.irl)'
  BY <1>2, <1>4, <1>5, <1>6 DEF IInv, TypeOK, Ligne, Textes, Connu
<1>8. Couples'
  BY <1>2, <1>4, <1>5, TextesDistincts DEF IInv, TypeOK, Couples, Connu
<1> QED
  BY <1>6, <1>7, <1>8 DEF IInv

LEMMA UpdateInv ==
  ASSUME IInv, NEW a \in Appartements, NEW v \in Textees \cup {Inchange},
         NEW t \in Textees \cup {Inchange}, UpdateAppartement(a, v, t)
  PROVE  IInv'
<1> DEFINE l == [valIrl |-> Garde(v, lignes[a].valIrl), tIrl |-> Garde(t, lignes[a].tIrl),
                 irlManual |-> Saisi \in {v, t}]
<1>1. lignes[a] # Absent /\ lignes[a] \in Ligne
  BY DEF UpdateAppartement, IInv, TypeOK
<1>2. /\ Garde(v, lignes[a].valIrl) \in Textes /\ Garde(t, lignes[a].tIrl) \in Textes
      /\ Garde(v, lignes[a].valIrl) \in {Saisi, Vide} \/ Garde(v, lignes[a].valIrl) = lignes[a].valIrl
      /\ Garde(t, lignes[a].tIrl) \in {Saisi, Vide} \/ Garde(t, lignes[a].tIrl) = lignes[a].tIrl
  BY <1>1, GardeTypee DEF Ligne
<1>3. l \in Ligne
  BY <1>2 DEF Ligne
<1>4. lignes' = [lignes EXCEPT ![a] = l] /\ UNCHANGED <<cache, publie, lect>>
  BY DEF UpdateAppartement
<1>5. /\ l.valIrl \in {Saisi, Vide} \/ l.valIrl = lignes[a].valIrl
      /\ l.tIrl \in {Saisi, Vide} \/ l.tIrl = lignes[a].tIrl
  BY <1>2
<1> HIDE DEF l
<1>6. lignes' \in [Appartements -> Ligne \cup {Absent}]
  BY <1>3, <1>4 DEF IInv, TypeOK
<1>7. \A b \in Appartements : lignes'[b] = IF b = a THEN l ELSE lignes[b]
  BY <1>4 DEF IInv, TypeOK
<1> QED
  BY <1>1, <1>4, <1>5, <1>6, <1>7, LignesSaisies

LEMMA SetInv ==
  ASSUME IInv, NEW v \in Textees \cup {Inchange}, NEW t \in Textees \cup {Inchange},
         SetValIrlTirl(v, t)
  PROVE  IInv'
<1> DEFINE l(a) == [valIrl |-> Garde(v, lignes[a].valIrl), tIrl |-> Garde(t, lignes[a].tIrl),
                    irlManual |-> Saisi \in {v, t}]
<1>1. /\ lignes' = [a \in Appartements |-> IF lignes[a] = Absent THEN Absent ELSE l(a)]
      /\ UNCHANGED <<cache, publie, lect>>
  BY DEF SetValIrlTirl
<1>2. ASSUME NEW a \in Appartements, lignes[a] # Absent
      PROVE  /\ l(a) \in Ligne
             /\ l(a).valIrl \in {Saisi, Vide} \/ l(a).valIrl = lignes[a].valIrl
             /\ l(a).tIrl \in {Saisi, Vide} \/ l(a).tIrl = lignes[a].tIrl
  <2>1. lignes[a] \in Ligne
    BY <1>2 DEF IInv, TypeOK
  <2>2. /\ Garde(v, lignes[a].valIrl) \in Textes /\ Garde(t, lignes[a].tIrl) \in Textes
        /\ Garde(v, lignes[a].valIrl) \in {Saisi, Vide} \/ Garde(v, lignes[a].valIrl) = lignes[a].valIrl
        /\ Garde(t, lignes[a].tIrl) \in {Saisi, Vide} \/ Garde(t, lignes[a].tIrl) = lignes[a].tIrl
    BY <2>1, GardeTypee DEF Ligne
  <2> QED
    BY <2>2 DEF Ligne
<1> HIDE DEF l
<1>3. lignes' \in [Appartements -> Ligne \cup {Absent}]
  BY <1>1, <1>2
<1>4. \A a \in Appartements : lignes'[a] # Absent =>
        lignes[a] # Absent /\ lignes'[a] = l(a)
  BY <1>1
<1> QED
  BY <1>1, <1>2, <1>3, <1>4, LignesSaisies

LEMMA CreateInv ==
  ASSUME IInv, NEW a \in Appartements, NEW v \in Textees, NEW t \in Textees,
         NEW manuel \in BOOLEAN, CreateAppartement(a, v, t, manuel)
  PROVE  IInv'
<1> DEFINE l == [valIrl |-> v, tIrl |-> t, irlManual |-> manuel]
<1>1. lignes' = [lignes EXCEPT ![a] = l] /\ UNCHANGED <<cache, publie, lect>>
  BY DEF CreateAppartement
<1>2. l \in Ligne /\ l.valIrl \in {Saisi, Vide} /\ l.tIrl \in {Saisi, Vide}
  BY DEF Ligne, Textes, Textees
<1> HIDE DEF l
<1>3. lignes' \in [Appartements -> Ligne \cup {Absent}]
  BY <1>1, <1>2 DEF IInv, TypeOK
<1>4. \A b \in Appartements : lignes'[b] = IF b = a THEN l ELSE lignes[b]
  BY <1>1 DEF IInv, TypeOK
<1> QED
  BY <1>1, <1>2, <1>3, <1>4, LignesSaisies

LEMMA DeleteInv ==
  ASSUME IInv, NEW a \in Appartements, DeleteAppartement(a)
  PROVE  IInv'
<1>1. lignes' = [lignes EXCEPT ![a] = Absent] /\ UNCHANGED <<cache, publie, lect>>
  BY DEF DeleteAppartement
<1>2. lignes' \in [Appartements -> Ligne \cup {Absent}]
  BY <1>1 DEF IInv, TypeOK
<1>3. \A b \in Appartements : lignes'[b] # Absent => lignes'[b] = lignes[b]
  BY <1>1 DEF IInv, TypeOK
<1> QED
  BY <1>1, <1>2, <1>3, LignesSaisies

\* A quarter that is published stays so.
LEMMA PublierInv == ASSUME IInv, Publier PROVE IInv'
<1>1. publie \in Nat /\ publie' = publie + 1 /\ UNCHANGED <<lignes, cache, lect>>
  BY TextesDistincts DEF Publier, IInv, TypeOK
<1>2. publie' \in Trimestres
  BY <1>1, IrlAssumption DEF Publier, IInv, TypeOK, Trimestres
<1>3. \A q \in Valeurs : Connu(q) => Connu(q)'
  BY <1>1, TextesDistincts DEF Connu, Valeurs
<1>4. TypeOK' /\ Connu(cache.irl)'
  BY <1>1, <1>2, <1>3 DEF IInv, TypeOK, Connu, Valeurs
<1>5. LecturesTenues'
  <2> SUFFICES ASSUME NEW g \in Lectures
               PROVE  Tenue(lect[g])'
    BY DEF LecturesTenues, Tenue
  <2>1. lect[g].irl \in Valeurs /\ lect[g].reponse \in Valeurs /\ Tenue(lect[g])
    BY DEF IInv, TypeOK, EtatLecture, Valeurs, LecturesTenues, Tenue
  <2>2. Connu(lect[g].irl)' /\ Connu(lect[g].reponse)'
    BY <1>1, <1>3, <2>1 DEF Tenue, Connu
  <2> QED
    BY <1>1, <2>1, <2>2 DEF Tenue
<1>6. Couples'
  <2>1. \A q \in Trimestres : q <= publie => q <= publie'
    BY <1>1, TextesDistincts
  <2> QED
    BY <1>1, <2>1 DEF IInv, Couples
<1> QED
  BY <1>4, <1>5, <1>6 DEF IInv

LEMMA NextInv == IInv /\ [Next]_vars => IInv'
<1> SUFFICES ASSUME IInv, [Next]_vars PROVE IInv'
  OBVIOUS
<1>1. ASSUME NEW g \in Lectures, NEW as \in SUBSET Appartements, Charger(g, as) PROVE IInv'
  BY <1>1, ChargerInv
<1>2. ASSUME NEW g \in Lectures, NEW a \in Appartements, ApplyLatestIrl(g, a) PROVE IInv'
  BY <1>2, ApplyInv
<1>3. ASSUME NEW g \in Lectures, RepondreInsee(g) \/ RecevoirIrl(g) \/ EchouerIrl(g) PROVE IInv'
  BY <1>3, RepondreInv, RecevoirInv, EchouerInv
<1>4. ASSUME NEW v \in Textees \cup {Inchange}, NEW t \in Textees \cup {Inchange},
             \/ \E a \in Appartements : UpdateAppartement(a, v, t)
             \/ SetValIrlTirl(v, t)
      PROVE  IInv'
  BY <1>4, UpdateInv, SetInv
<1>5. ASSUME NEW a \in Appartements,
             \/ \E v, t \in Textees, manuel \in BOOLEAN : CreateAppartement(a, v, t, manuel)
             \/ DeleteAppartement(a)
      PROVE  IInv'
  BY <1>5, CreateInv, DeleteInv
<1>6. CASE Publier
  BY <1>6, PublierInv
<1>7. CASE Expirer
  BY <1>7 DEF Expirer, IInv, TypeOK, LecturesTenues, Couples, Connu
<1>8. CASE Redemarrer
  BY <1>8 DEF Redemarrer, CacheVide, Libre, RienLu, EtatLecture, IInv, TypeOK,
     LecturesTenues, Couples, Connu
<1>9. CASE UNCHANGED vars
  BY <1>9 DEF vars, IInv, TypeOK, LecturesTenues, Couples, Connu
<1> QED
  BY <1>1, <1>2, <1>3, <1>4, <1>5, <1>6, <1>7, <1>8, <1>9 DEF Next

\* Rows, cache and reads agree with what INSEE has published.
THEOREM Invariance == Spec => []IInv
BY InitInv, NextInv, PTL DEF Spec

\* Rows, cache and reads keep their types: a column never holds an absent
\* answer.
THEOREM Typage == Spec => []TypeOK
BY Invariance, PTL DEF IInv

\* However answers cross, arrive late or fail, a flat never pairs the value of
\* a quarter with the label of another, nor shows one that is not published.
THEOREM CouplesTenus == Spec => []Couples
BY Invariance, PTL DEF IInv

-----------------------------------------------------------------------------
(***************************************************************************)
(* What reads do to the rows.                                              *)
(***************************************************************************)
NEffacePas ==
  \A a \in Appartements :
    lect' # lect /\ lignes'[a] # lignes[a] =>
      /\ lignes[a] # Absent /\ lignes'[a] # Absent
      /\ lignes'[a].valIrl \in 1 .. publie
      /\ lignes'[a].tIrl = lignes'[a].valIrl
      /\ lignes'[a].irlManual = lignes[a].irlManual

\* Only ApplyLatestIrl moves a read and a row in one step.
LEMMA SeulRemplissageEcrit ==
  ASSUME [Next]_vars
  PROVE  \/ lect' = lect
         \/ lignes' = lignes
         \/ \E g \in Lectures, a \in Appartements : ApplyLatestIrl(g, a)
BY DEF Next, Charger, RepondreInsee, RecevoirIrl, EchouerIrl, UpdateAppartement,
   SetValIrlTirl, CreateAppartement, DeleteAppartement, Publier, Expirer, Redemarrer, vars

LEMMA RemplissageNEffacePas ==
  ASSUME IInv, NEW g \in Lectures, NEW a \in Appartements, ApplyLatestIrl(g, a)
  PROVE  NEffacePas
<1> DEFINE l == [valIrl |-> lect[g].irl, tIrl |-> lect[g].irl, irlManual |-> lignes[a].irlManual]
<1>1. lect[g].irl \in Trimestres /\ Connu(lect[g].irl)
  BY DEF ApplyLatestIrl, IInv, TypeOK, EtatLecture, LecturesTenues
<1>2. lect[g].irl \in 1 .. publie
  BY <1>1, TextesDistincts DEF Connu, IInv, TypeOK, Trimestres
<1>3. lignes' = IF lignes[a] = Absent THEN lignes ELSE [lignes EXCEPT ![a] = l]
  BY DEF ApplyLatestIrl
<1>4. CASE lignes[a] = Absent
  BY <1>3, <1>4 DEF NEffacePas
<1>5. CASE lignes[a] # Absent
  <2>1. l \in Ligne /\ l.valIrl = lect[g].irl /\ l.tIrl = l.valIrl /\ l.irlManual = lignes[a].irlManual
    BY <1>1, <1>5 DEF IInv, TypeOK, Ligne, Textes
  <2> HIDE DEF l
  <2>2. \A b \in Appartements : lignes'[b] = IF b = a THEN l ELSE lignes[b]
    BY <1>3, <1>5 DEF IInv, TypeOK
  <2>3. lignes'[a] # Absent
    BY <2>1, <2>2, IrlAssumption
  <2> QED
    BY <1>2, <1>5, <2>1, <2>2, <2>3 DEF NEffacePas
<1> QED
  BY <1>4, <1>5

\* No read ever empties a row.
THEOREM RienDEfface == Spec => LectureNEffacePas
<1>1. IInv /\ [Next]_vars => [NEffacePas]_vars
  <2> SUFFICES ASSUME IInv, [Next]_vars PROVE NEffacePas
    OBVIOUS
  <2>1. CASE lect' = lect \/ lignes' = lignes
    BY <2>1 DEF NEffacePas
  <2>2. CASE \E g \in Lectures, a \in Appartements : ApplyLatestIrl(g, a)
    BY <2>2, RemplissageNEffacePas
  <2> QED
    BY <2>1, <2>2, SeulRemplissageEcrit
<1>2. Spec => [][NEffacePas]_vars
  BY <1>1, Invariance, PTL DEF Spec
<1>3. ([][NEffacePas]_vars) => LectureNEffacePas
  BY PTL DEF NEffacePas, LectureNEffacePas
<1> QED
  BY <1>2, <1>3, PTL

\* Flat a is not among what any read has still to fill.
HorsLectures(a) == \A g \in Lectures : lect[g].lues[a] = Absent

Gardee ==
  \A a \in Appartements :
    lignes[a] # Absent /\ lignes[a].irlManual /\ HorsLectures(a) =>
      /\ \A g \in Lectures : lect'[g].lues[a] = Absent
      /\ lect' # lect => lignes'[a] = lignes[a]

\* A step that moves one read to a state that has not the flat to fill.
LEMMA ResteHorsLectures ==
  ASSUME TypeOK, NEW a \in Appartements, HorsLectures(a), NEW g \in Lectures, NEW e,
         e.lues[a] = Absent, lect' = [lect EXCEPT ![g] = e]
  PROVE  \A h \in Lectures : lect'[h].lues[a] = Absent
BY DEF TypeOK, HorsLectures

LEMMA GardeePas ==
  ASSUME IInv, [Next]_vars
  PROVE  Gardee
<1> SUFFICES ASSUME NEW a \in Appartements, lignes[a] # Absent, lignes[a].irlManual, HorsLectures(a)
             PROVE  /\ \A g \in Lectures : lect'[g].lues[a] = Absent
                    /\ lect' # lect => lignes'[a] = lignes[a]
  BY DEF Gardee
<1>1. ASSUME NEW g \in Lectures, NEW as \in SUBSET Appartements, Charger(g, as)
      PROVE  (\A h \in Lectures : lect'[h].lues[a] = Absent) /\ lignes' = lignes
  <2> DEFINE lues == [b \in Appartements |-> IF b \in as THEN Vue(lignes[b]) ELSE Absent]
             attente == [phase |-> "insee", lues |-> lues, irl |-> cache.irl, reponse |-> Absent]
             e == IF EnCache THEN Remplir(lues, cache.irl) ELSE attente
  <2>1. lues \in [Appartements -> Trimestres \cup {Vide, Absent}]
    BY VueTypee DEF IInv
  <2>2. lues[a] = Absent
    BY DEF Vue
  <2>3. lect' = [lect EXCEPT ![g] = e] /\ lignes' = lignes
    BY <1>1 DEF Charger
  <2> HIDE DEF lues
  <2>4. cache.irl \in Valeurs /\ Connu(cache.irl)
    BY DEF IInv, TypeOK, Valeurs
  <2>5. Remplir(lues, cache.irl).lues[a] = Absent
    BY <2>1, <2>2, <2>4, RemplirTenu
  <2>6. e.lues[a] = Absent
    BY <2>2, <2>5
  <2> HIDE DEF e
  <2> QED
    BY <2>3, <2>6, ResteHorsLectures DEF IInv
<1>2. ASSUME NEW g \in Lectures, NEW irl \in Valeurs, Connu(irl), NEW b \in Appartements,
             NEW lues \in {lect[g].lues, [lect[g].lues EXCEPT ![b] = Absent]},
             lect' = [lect EXCEPT ![g] = Remplir(lues, irl)]
      PROVE  \A h \in Lectures : lect'[h].lues[a] = Absent
  <2>1. lues \in [Appartements -> Trimestres \cup {Vide, Absent}] /\ lues[a] = Absent
    BY DEF IInv, TypeOK, EtatLecture, HorsLectures
  <2>2. Remplir(lues, irl).lues[a] = Absent
    BY <1>2, <2>1, RemplirTenu
  <2> QED
    BY <1>2, <2>2, ResteHorsLectures DEF IInv
<1>3. ASSUME NEW g \in Lectures, RepondreInsee(g)
      PROVE  (\A h \in Lectures : lect'[h].lues[a] = Absent) /\ lignes' = lignes
  <2> DEFINE e == [phase |-> "reponse", lues |-> lect[g].lues, irl |-> lect[g].irl, reponse |-> publie]
  <2>1. lect' = [lect EXCEPT ![g] = e] /\ lignes' = lignes
    BY <1>3 DEF RepondreInsee
  <2>2. e.lues[a] = Absent
    BY DEF HorsLectures
  <2> HIDE DEF e
  <2> QED
    BY <2>1, <2>2, ResteHorsLectures DEF IInv
<1>4. ASSUME NEW g \in Lectures
      PROVE  /\ lect[g].irl \in Valeurs /\ Connu(lect[g].irl)
             /\ lect[g].reponse \in Valeurs /\ Connu(lect[g].reponse)
  BY DEF IInv, TypeOK, EtatLecture, LecturesTenues, Valeurs
<1>5. ASSUME NEW g \in Lectures, RecevoirIrl(g) \/ EchouerIrl(g)
      PROVE  (\A h \in Lectures : lect'[h].lues[a] = Absent) /\ lignes' = lignes
  BY <1>2, <1>4, <1>5 DEF RecevoirIrl, EchouerIrl
<1>6. ASSUME NEW g \in Lectures, NEW b \in Appartements, ApplyLatestIrl(g, b)
      PROVE  (\A h \in Lectures : lect'[h].lues[a] = Absent) /\ lignes'[a] = lignes[a]
  <2>1. a # b
    BY <1>6 DEF ApplyLatestIrl, HorsLectures
  <2> QED
    BY <1>2, <1>4, <1>6, <2>1 DEF ApplyLatestIrl, IInv, TypeOK
<1>7. CASE lect' = lect
  BY <1>7 DEF HorsLectures
<1>8. CASE Redemarrer
  BY <1>8 DEF Redemarrer, Libre, RienLu
<1>9. CASE \/ \E v, t \in Textees \cup {Inchange} :
                \/ \E b \in Appartements : UpdateAppartement(b, v, t)
                \/ SetValIrlTirl(v, t)
           \/ \E b \in Appartements :
                \/ \E v, t \in Textees, manuel \in BOOLEAN : CreateAppartement(b, v, t, manuel)
                \/ DeleteAppartement(b)
           \/ Publier \/ Expirer \/ UNCHANGED vars
  BY <1>7, <1>9 DEF UpdateAppartement, SetValIrlTirl, CreateAppartement, DeleteAppartement,
     Publier, Expirer, vars
<1> QED
  BY <1>1, <1>3, <1>5, <1>6, <1>8, <1>9 DEF Next

\* An index typed while no read has the flat to fill is never replaced by a
\* read: only one that loaded the flat before it was frozen can.
THEOREM Saisie == Spec => SaisieGardee
<1>1. IInv /\ [Next]_vars => [Gardee]_vars
  BY GardeePas
<1>2. Spec => [][Gardee]_vars
  BY <1>1, Invariance, PTL DEF Spec
<1>3. ([][Gardee]_vars) => SaisieGardee
  BY PTL DEF Gardee, SaisieGardee, HorsLectures
<1> QED
  BY <1>2, <1>3, PTL
=============================================================================
