----------------------------- MODULE BailProofs -----------------------------
(***************************************************************************)
(* For any number of leases, generations, records and requests: types,     *)
(* foreign keys, one generation per lease, and no rewriting of a lease     *)
(* that was generated.                                                     *)
(***************************************************************************)
EXTENDS Bail, TLAPS

PhasesSaisie == {"relecture", "maj", "insertion", "suppression"}

\* What a request carries, phase by phase.
RequetesTypees ==
  \A r \in Requetes :
    /\ req[r].phase \in PhasesSaisie \cup {"verification", "rattachement"} => req[r].cle \in bauxIds
    /\ req[r].phase \in {"generation", "regeneration"} => req[r].cle \in Generations
    /\ req[r].phase \in {"relecture", "insertion"} => req[r].val \in Saisie
    /\ req[r].phase = "maj" => req[r].val \in MiseAJour
    /\ req[r].phase \in {"verification", "generation", "regeneration"}
         => req[r].val \in Saisie \cup {Nul}

\* A row has a key of its sequence.
ClesConnues == \A b \in Baux : Existe(b) => b \in bauxIds

\* The check of refuserSiGenere never gets stale: a draft is never generated
\* later, since a generation only ever refers to a row of its own.
VerificationDurable ==
  \A r \in Requetes : req[r].phase \in PhasesSaisie => ~ Genere(req[r].cle)

IInv ==
  /\ TypeOK
  /\ RequetesTypees
  /\ ClesConnues
  /\ ReferencesTenues
  /\ UneGenerationParBail
  /\ VerificationDurable

-----------------------------------------------------------------------------
LEMMA FusionTypee ==
  ASSUME NEW m \in MiseAJour, NEW s \in Saisie
  PROVE  Fusion(m, s) \in Saisie
BY BailAssumption DEF Fusion, Garde, MiseAJour, Saisie

LEMMA DifferenceTypee ==
  ASSUME NEW s \in Saisie, NEW t \in Saisie
  PROVE  [nom |-> s.nom, loyer |-> Colonne(s.loyer, t.loyer)] \in MiseAJour
BY DEF Colonne, MiseAJour, Saisie

\* A key that the sequence has not handed out is referred to by nothing.
LEMMA CleNeuve ==
  ASSUME IInv, NEW b \in Baux, b \notin bauxIds
  PROVE  ~ Existe(b) /\ ~ Genere(b) /\ \A f \in Fiches : fiches[f] # b
BY DEF IInv, ClesConnues, ReferencesTenues, Genere

LEMMA InitInv == Init => IInv
<1> SUFFICES ASSUME Init PROVE IInv
  OBVIOUS
<1> USE BailAssumption DEF Init, Libre
<1>1. TypeOK /\ RequetesTypees /\ VerificationDurable
  BY DEF TypeOK, RequetesTypees, VerificationDurable, EtatRequete, Phases, PhasesSaisie
<1>2. ClesConnues /\ ReferencesTenues /\ UneGenerationParBail
  BY DEF ClesConnues, ReferencesTenues, UneGenerationParBail, Existe
<1> QED
  BY <1>1, <1>2 DEF IInv

-----------------------------------------------------------------------------
(***************************************************************************)
(* Steps that leave the tables alone.                                      *)
(***************************************************************************)
LEMMA RequeteSeuleInv ==
  ASSUME IInv, NEW r \in Requetes, NEW e \in EtatRequete,
         req' = [req EXCEPT ![r] = e], UNCHANGED <<saisies, bauxIds, generations, fiches>>,
         e.phase \in PhasesSaisie \cup {"verification", "rattachement"} => e.cle \in bauxIds,
         e.phase \in {"generation", "regeneration"} => e.cle \in Generations,
         e.phase \in {"relecture", "insertion"} => e.val \in Saisie,
         e.phase = "maj" => e.val \in MiseAJour,
         e.phase \in {"verification", "generation", "regeneration"} => e.val \in Saisie \cup {Nul},
         e.phase \in PhasesSaisie => ~ Genere(e.cle)
  PROVE  IInv'
<1> USE DEF IInv
<1>1. TypeOK'
  BY DEF TypeOK
<1>2. \A q \in Requetes : req'[q] = IF q = r THEN e ELSE req[q]
  BY DEF TypeOK
<1>3. RequetesTypees'
  BY <1>2 DEF RequetesTypees
<1>4. VerificationDurable'
  BY <1>2 DEF VerificationDurable, Genere
<1>5. ClesConnues' /\ ReferencesTenues' /\ UneGenerationParBail'
  BY DEF ClesConnues, ReferencesTenues, UneGenerationParBail, Existe
<1> QED
  BY <1>1, <1>3, <1>4, <1>5

LEMMA LireBrouillonInv ==
  ASSUME IInv, NEW r \in Requetes, NEW b \in Baux, NEW s \in Saisie \cup {Nul},
         LireBrouillon(r, b, s)
  PROVE  IInv'
<1> DEFINE e == [phase |-> "verification", cle |-> b, val |-> s]
<1>1. e \in EtatRequete /\ b \in bauxIds
  BY DEF EtatRequete, Phases, LireBrouillon, IInv, ClesConnues
<1>2. req' = [req EXCEPT ![r] = e] /\ UNCHANGED <<saisies, bauxIds, generations, fiches>>
  BY DEF LireBrouillon, Attendre
<1> QED
  BY <1>1, <1>2, RequeteSeuleInv DEF PhasesSaisie

\* The end of a request that changed no table.
LEMMA RepondreInv ==
  ASSUME IInv, NEW r \in Requetes, Repondre(r), UNCHANGED <<saisies, bauxIds, generations, fiches>>
  PROVE  IInv'
<1>1. Libre \in EtatRequete
  BY DEF Libre, EtatRequete, Phases
<1>2. req' = [req EXCEPT ![r] = Libre]
  BY DEF Repondre
<1>3. /\ Libre.phase = "libre"
  BY DEF Libre
<1> QED
  BY <1>1, <1>2, <1>3, RequeteSeuleInv DEF PhasesSaisie

LEMMA RefuserSiGenereInv ==
  ASSUME IInv, NEW r \in Requetes, RefuserSiGenere(r)
  PROVE  IInv'
<1>0. /\ req[r].cle \in bauxIds
      /\ req[r].val \in Saisie \cup {Nul}
      /\ UNCHANGED <<saisies, bauxIds, generations, fiches>>
  BY DEF IInv, RequetesTypees, RefuserSiGenere
<1>1. CASE Genere(req[r].cle)
  BY <1>0, <1>1, RepondreInv DEF RefuserSiGenere
<1>2. CASE ~ Genere(req[r].cle)
  <2> DEFINE e == [phase |-> IF req[r].val = Nul THEN "suppression" ELSE "relecture",
                   cle |-> req[r].cle, val |-> req[r].val]
  <2>1. req' = [req EXCEPT ![r] = e]
    BY <1>2 DEF RefuserSiGenere, Attendre
  <2>2. e \in EtatRequete
    BY <1>0 DEF IInv, TypeOK, EtatRequete, Phases
  <2>3. /\ e.phase \in {"suppression", "relecture"}
        /\ e.cle \in bauxIds
        /\ e.phase = "relecture" => e.val \in Saisie
        /\ ~ Genere(e.cle)
    BY <1>0, <1>2
  <2> HIDE DEF e
  <2> QED
    BY <1>0, <2>1, <2>2, <2>3, RequeteSeuleInv DEF PhasesSaisie
<1> QED
  BY <1>1, <1>2

LEMMA RelireInv ==
  ASSUME IInv, NEW r \in Requetes, Relire(r)
  PROVE  IInv'
<1> DEFINE b == req[r].cle
           s == req[r].val
           maj == [nom |-> s.nom, loyer |-> Colonne(s.loyer, saisies[b].loyer)]
           e == IF Existe(b) THEN [phase |-> "maj", cle |-> b, val |-> maj]
                ELSE [phase |-> "insertion", cle |-> b, val |-> s]
<1>0. /\ b \in bauxIds /\ b \in Baux
      /\ s \in Saisie
      /\ ~ Genere(b)
      /\ UNCHANGED <<saisies, bauxIds, generations, fiches>>
  BY DEF IInv, TypeOK, RequetesTypees, VerificationDurable, Relire, PhasesSaisie
<1>1. Existe(b) => maj \in MiseAJour
  BY <1>0, DifferenceTypee DEF Existe, IInv, TypeOK
<1>2. req' = [req EXCEPT ![r] = e]
  BY DEF Relire, Attendre
<1>3. e \in EtatRequete
  BY <1>0, <1>1 DEF EtatRequete, Phases
<1>4. /\ e.phase \in {"maj", "insertion"}
      /\ e.cle = b
      /\ e.phase = "insertion" => e.val \in Saisie
      /\ e.phase = "maj" => e.val \in MiseAJour
  BY <1>0, <1>1
<1> HIDE DEF e, b
<1> QED
  BY <1>0, <1>2, <1>3, <1>4, RequeteSeuleInv DEF PhasesSaisie

LEMMA SaveGenerationInv ==
  ASSUME IInv, NEW r \in Requetes, NEW g \in Generations, NEW s \in Saisie \cup {Nul},
         SaveGeneration(r, g, s)
  PROVE  IInv'
<1> DEFINE e == [phase |-> IF generations[g] = Absente THEN "generation" ELSE "regeneration",
                 cle |-> g, val |-> s]
<1>1. e \in EtatRequete
  BY DEF EtatRequete, Phases
<1>2. req' = [req EXCEPT ![r] = e] /\ UNCHANGED <<saisies, bauxIds, generations, fiches>>
  BY DEF SaveGeneration, Attendre
<1>3. e.phase \in {"generation", "regeneration"} /\ e.cle = g /\ e.val = s
  OBVIOUS
<1> HIDE DEF e
<1> QED
  BY <1>1, <1>2, <1>3, RequeteSeuleInv DEF PhasesSaisie

LEMMA LireBailInv ==
  ASSUME IInv, NEW r \in Requetes, NEW b \in Baux, LireBail(r, b)
  PROVE  IInv'
<1> DEFINE e == [phase |-> "rattachement", cle |-> b, val |-> Nul]
<1>1. e \in EtatRequete /\ b \in bauxIds
  BY DEF EtatRequete, Phases, LireBail, IInv, ClesConnues
<1>2. req' = [req EXCEPT ![r] = e] /\ UNCHANGED <<saisies, bauxIds, generations, fiches>>
  BY DEF LireBail, Attendre
<1> QED
  BY <1>1, <1>2, RequeteSeuleInv DEF PhasesSaisie

-----------------------------------------------------------------------------
(***************************************************************************)
(* Steps that write a table and end the request, if there is one.          *)
(***************************************************************************)
\* The requests after one of them ended or none moved.
LEMMA RequetesApres ==
  ASSUME IInv, bauxIds \subseteq bauxIds', bauxIds' \subseteq Baux,
         req' = req \/ \E r \in Requetes : Repondre(r),
         \A b \in bauxIds : Genere(b)' => Genere(b)
  PROVE  RequetesTypees' /\ VerificationDurable' /\ req' \in [Requetes -> EtatRequete]
<1>1. req' \in [Requetes -> EtatRequete]
  BY DEF IInv, TypeOK, Repondre, Libre, EtatRequete, Phases
<1>2. \A q \in Requetes : req'[q] = req[q] \/ req'[q] = Libre
  BY DEF IInv, TypeOK, Repondre
<1>3. RequetesTypees'
  BY <1>2 DEF IInv, RequetesTypees, Libre, PhasesSaisie
<1>4. VerificationDurable'
  BY <1>2 DEF IInv, RequetesTypees, VerificationDurable, Libre, PhasesSaisie
<1> QED
  BY <1>1, <1>3, <1>4

LEMMA CreerBrouillonInv ==
  ASSUME IInv, NEW b \in Baux, NEW s \in Saisie, CreerBrouillon(b, s)
  PROVE  IInv'
<1> USE DEF IInv, CreerBrouillon
<1>1. \A c \in Baux : Genere(c)' <=> Genere(c)
  BY DEF Genere
<1>2. RequetesTypees' /\ VerificationDurable' /\ req' \in [Requetes -> EtatRequete]
  BY <1>1, RequetesApres DEF TypeOK
<1>3. TypeOK'
  BY <1>2 DEF TypeOK
<1>4. ClesConnues' /\ ReferencesTenues' /\ UneGenerationParBail'
  BY BailAssumption DEF TypeOK, ClesConnues, ReferencesTenues, UneGenerationParBail, Existe
<1> QED
  BY <1>2, <1>3, <1>4

\* MettreAJour, Inserer: one row of saisies, whose key is known.
LEMMA EcrireSaisieInv ==
  ASSUME IInv, NEW r \in Requetes, Repondre(r), NEW b \in bauxIds, NEW s \in Saisie,
         saisies' = saisies \/ saisies' = [saisies EXCEPT ![b] = s],
         UNCHANGED <<bauxIds, generations, fiches>>
  PROVE  IInv'
<1> USE DEF IInv
<1>1. \A c \in Baux : Genere(c)' <=> Genere(c)
  BY DEF Genere
<1>2. RequetesTypees' /\ VerificationDurable' /\ req' \in [Requetes -> EtatRequete]
  BY <1>1, RequetesApres DEF TypeOK
<1>3. TypeOK'
  BY <1>2 DEF TypeOK
<1>4. ClesConnues' /\ ReferencesTenues' /\ UneGenerationParBail'
  BY BailAssumption DEF TypeOK, ClesConnues, ReferencesTenues, UneGenerationParBail, Existe
<1> QED
  BY <1>2, <1>3, <1>4

LEMMA MettreAJourInv ==
  ASSUME IInv, NEW r \in Requetes, MettreAJour(r)
  PROVE  IInv'
<1> DEFINE b == req[r].cle
<1>1. b \in bauxIds /\ req[r].val \in MiseAJour
  BY DEF IInv, RequetesTypees, MettreAJour, PhasesSaisie
<1>2. Repondre(r) /\ UNCHANGED <<bauxIds, generations, fiches>>
  BY DEF MettreAJour
<1>3. CASE Existe(b)
  <2>1. Fusion(req[r].val, saisies[b]) \in Saisie
    BY <1>1, <1>3, FusionTypee DEF IInv, TypeOK, Existe
  <2>2. saisies' = [saisies EXCEPT ![b] = Fusion(req[r].val, saisies[b])]
    BY <1>3 DEF MettreAJour
  <2> QED
    BY <1>1, <1>2, <2>1, <2>2, EcrireSaisieInv
<1>4. CASE ~ Existe(b)
  BY <1>2, <1>4, RepondreInv DEF MettreAJour
<1> QED
  BY <1>3, <1>4

LEMMA InsererInv ==
  ASSUME IInv, NEW r \in Requetes, Inserer(r)
  PROVE  IInv'
<1>1. req[r].cle \in bauxIds /\ req[r].val \in Saisie
  BY DEF IInv, RequetesTypees, Inserer, PhasesSaisie
<1>2. /\ Repondre(r) /\ UNCHANGED <<bauxIds, generations, fiches>>
      /\ saisies' = saisies \/ saisies' = [saisies EXCEPT ![req[r].cle] = req[r].val]
  BY DEF Inserer
<1> QED
  BY <1>1, <1>2, EcrireSaisieInv

LEMMA SupprimerBrouillonInv ==
  ASSUME IInv, NEW r \in Requetes, SupprimerBrouillon(r)
  PROVE  IInv'
<1> DEFINE b == req[r].cle
<1> USE DEF IInv
<1>0. b \in Baux
  BY DEF RequetesTypees, TypeOK, SupprimerBrouillon, PhasesSaisie
<1>1. Repondre(r) /\ UNCHANGED <<bauxIds, generations, fiches>>
  BY DEF SupprimerBrouillon
<1>2. CASE Reference(b)
  BY <1>1, <1>2, RepondreInv DEF SupprimerBrouillon
<1>3. CASE ~ Reference(b)
  <2>1. saisies' = [saisies EXCEPT ![b] = Absente]
    BY <1>3 DEF SupprimerBrouillon
  <2>2. \A c \in Baux : Genere(c)' <=> Genere(c)
    BY <1>1 DEF Genere
  <2>3. RequetesTypees' /\ VerificationDurable' /\ req' \in [Requetes -> EtatRequete]
    BY <1>1, <2>2, RequetesApres DEF TypeOK
  <2>4. TypeOK'
    BY <1>1, <2>1, <2>3 DEF TypeOK
  <2>5. ReferencesTenues'
    BY <1>0, <1>1, <1>3, <2>1 DEF TypeOK, ReferencesTenues, Existe, Reference, Genere
  <2>6. ClesConnues' /\ UneGenerationParBail'
    BY <1>0, <1>1, <2>1 DEF TypeOK, ClesConnues, UneGenerationParBail, Existe
  <2> QED
    BY <2>3, <2>4, <2>5, <2>6
<1> QED
  BY <1>2, <1>3

LEMMA EcrireGenerationInv ==
  ASSUME IInv, NEW r \in Requetes, NEW b \in Baux, EcrireGeneration(r, b)
  PROVE  IInv'
<1> DEFINE g == req[r].cle
<1> USE DEF IInv
<1>0. /\ g \in Generations /\ req[r].val \in Saisie
      /\ b \notin bauxIds
  BY DEF RequetesTypees, EcrireGeneration
<1>1. Repondre(r) /\ bauxIds' = bauxIds \cup {b} /\ UNCHANGED fiches
  BY DEF EcrireGeneration
<1>2. ~ Existe(b) /\ ~ Genere(b) /\ \A f \in Fiches : fiches[f] # b
  BY <1>0, CleNeuve
<1>3. \/ /\ saisies' = saisies
         /\ generations' = generations
      \/ /\ saisies' = [saisies EXCEPT ![b] = req[r].val]
         /\ generations' = generations \/ generations' = [generations EXCEPT ![g] = b]
  BY DEF EcrireGeneration
<1>4. \A c \in bauxIds : Genere(c)' => Genere(c)
  BY <1>0, <1>3 DEF Genere, TypeOK
<1>5. RequetesTypees' /\ VerificationDurable' /\ req' \in [Requetes -> EtatRequete]
  BY <1>1, <1>4, RequetesApres DEF TypeOK
<1>6. TypeOK'
  BY <1>0, <1>1, <1>3, <1>5 DEF TypeOK
<1>7. ClesConnues'
  BY <1>0, <1>1, <1>3 DEF TypeOK, ClesConnues, Existe
<1>8. ReferencesTenues'
  BY <1>0, <1>1, <1>2, <1>3, BailAssumption DEF TypeOK, ReferencesTenues, Existe, Genere
<1>9. UneGenerationParBail'
  BY <1>0, <1>2, <1>3 DEF TypeOK, UneGenerationParBail, Genere
<1> QED
  BY <1>5, <1>6, <1>7, <1>8, <1>9

LEMMA EcrireGenerationSeuleInv ==
  ASSUME IInv, NEW r \in Requetes, EcrireGenerationSeule(r)
  PROVE  IInv'
<1> DEFINE g == req[r].cle
<1> USE DEF IInv
<1>0. g \in Generations
  BY DEF RequetesTypees, EcrireGenerationSeule
<1>1. Repondre(r) /\ UNCHANGED <<saisies, bauxIds, fiches>>
  BY DEF EcrireGenerationSeule
<1>2. generations' = generations \/ generations' = [generations EXCEPT ![g] = Nul]
  BY DEF EcrireGenerationSeule
<1>3. \A c \in Baux : Genere(c)' => Genere(c)
  BY <1>0, <1>2, BailAssumption DEF Genere, TypeOK
<1>4. RequetesTypees' /\ VerificationDurable' /\ req' \in [Requetes -> EtatRequete]
  BY <1>1, <1>3, RequetesApres DEF TypeOK
<1>5. TypeOK'
  BY <1>0, <1>1, <1>2, <1>4 DEF TypeOK
<1>6. ClesConnues' /\ ReferencesTenues' /\ UneGenerationParBail'
  BY <1>0, <1>1, <1>2, BailAssumption
     DEF TypeOK, ClesConnues, ReferencesTenues, UneGenerationParBail, Existe
<1> QED
  BY <1>4, <1>5, <1>6

LEMMA RattacherInv ==
  ASSUME IInv, NEW r \in Requetes, NEW f \in Fiches, Rattacher(r, f)
  PROVE  IInv'
<1> DEFINE b == req[r].cle
<1> USE DEF IInv
<1>0. b \in Baux
  BY DEF RequetesTypees, TypeOK, Rattacher, PhasesSaisie
<1>1. Repondre(r) /\ UNCHANGED <<saisies, bauxIds, generations>>
  BY DEF Rattacher
<1>2. \/ fiches' = fiches
      \/ /\ saisies[b] # Absente
         /\ fiches' = [fiches EXCEPT ![f] = b]
  BY DEF Rattacher, Existe
<1>3. \A c \in Baux : Genere(c)' <=> Genere(c)
  BY <1>1 DEF Genere
<1>4. RequetesTypees' /\ VerificationDurable' /\ req' \in [Requetes -> EtatRequete]
  BY <1>1, <1>3, RequetesApres DEF TypeOK
<1>5. TypeOK'
  BY <1>0, <1>1, <1>2, <1>4 DEF TypeOK
<1>6. ClesConnues' /\ ReferencesTenues' /\ UneGenerationParBail'
  BY <1>0, <1>1, <1>2 DEF TypeOK, ClesConnues, ReferencesTenues, UneGenerationParBail, Existe
<1> QED
  BY <1>4, <1>5, <1>6

LEMMA DetacherInv ==
  ASSUME IInv, NEW f \in Fiches, Detacher(f)
  PROVE  IInv'
<1> USE DEF IInv, Detacher
<1>1. \A c \in Baux : Genere(c)' <=> Genere(c)
  BY DEF Genere
<1>2. RequetesTypees' /\ VerificationDurable' /\ req' \in [Requetes -> EtatRequete]
  BY <1>1, RequetesApres DEF TypeOK
<1>3. TypeOK'
  BY <1>2 DEF TypeOK
<1>4. ClesConnues' /\ ReferencesTenues' /\ UneGenerationParBail'
  BY BailAssumption DEF TypeOK, ClesConnues, ReferencesTenues, UneGenerationParBail, Existe
<1> QED
  BY <1>2, <1>3, <1>4

LEMMA EffacerInv ==
  ASSUME IInv, NEW f \in Fiches, NEW emporte \in BOOLEAN, Effacer(f, emporte)
  PROVE  IInv'
<1> DEFINE b == fiches[f]
           part == emporte /\ b \in Baux /\ \A h \in Fiches \ {f} : fiches[h] # b
<1> USE DEF IInv
<1>1. UNCHANGED <<bauxIds, req>> /\ fiches' = [fiches EXCEPT ![f] = Absente]
  BY DEF Effacer
<1>2. generations' = [g \in Generations |->
                        IF part /\ generations[g] = b THEN Absente ELSE generations[g]]
  BY DEF Effacer
<1>3. saisies' = IF part THEN [saisies EXCEPT ![b] = Absente] ELSE saisies
  BY DEF Effacer
<1>4. part => b \in Baux /\ \A h \in Fiches : h # f => fiches[h] # b
  OBVIOUS
<1> HIDE DEF part
<1>5. \A g \in Generations : generations'[g] \in Baux => generations'[g] = generations[g]
  BY <1>2, BailAssumption
<1>6. \A c \in Baux : Genere(c)' => Genere(c)
  BY <1>5 DEF Genere
<1>7. RequetesTypees' /\ VerificationDurable' /\ req' \in [Requetes -> EtatRequete]
  BY <1>1, <1>6, RequetesApres DEF TypeOK
<1>8. TypeOK'
  BY <1>1, <1>2, <1>3, <1>4, <1>7 DEF TypeOK
<1>9. ClesConnues'
  BY <1>1, <1>3, <1>4 DEF TypeOK, ClesConnues, Existe
<1>10. UneGenerationParBail'
  BY <1>5 DEF UneGenerationParBail
<1>11. ReferencesTenues'
  BY <1>1, <1>2, <1>3, <1>4, BailAssumption DEF TypeOK, ReferencesTenues, Existe
<1> QED
  BY <1>7, <1>8, <1>9, <1>10, <1>11

-----------------------------------------------------------------------------
LEMMA NextInv == IInv /\ [Next]_vars => IInv'
<1> SUFFICES ASSUME IInv, [Next]_vars PROVE IInv'
  OBVIOUS
<1>1. ASSUME NEW b \in Baux, NEW s \in Saisie, CreerBrouillon(b, s) PROVE IInv'
  BY <1>1, CreerBrouillonInv
<1>2. ASSUME NEW r \in Requetes, NextRequete(r) PROVE IInv'
  <2>1. ASSUME NEW b \in Baux, NEW s \in Saisie \cup {Nul}, LireBrouillon(r, b, s) PROVE IInv'
    BY <2>1, LireBrouillonInv
  <2>2. ASSUME NEW b \in Baux, EcrireGeneration(r, b) PROVE IInv'
    BY <2>2, EcrireGenerationInv
  <2>3. ASSUME NEW b \in Baux, LireBail(r, b) PROVE IInv'
    BY <2>3, LireBailInv
  <2>4. CASE RefuserSiGenere(r)
    BY <2>4, RefuserSiGenereInv
  <2>5. CASE Relire(r)
    BY <2>5, RelireInv
  <2>6. CASE MettreAJour(r)
    BY <2>6, MettreAJourInv
  <2>7. CASE Inserer(r)
    BY <2>7, InsererInv
  <2>8. CASE SupprimerBrouillon(r)
    BY <2>8, SupprimerBrouillonInv
  <2>9. ASSUME NEW g \in Generations, NEW s \in Saisie \cup {Nul}, SaveGeneration(r, g, s)
        PROVE  IInv'
    BY <2>9, SaveGenerationInv
  <2>10. CASE EcrireGenerationSeule(r)
    BY <2>10, EcrireGenerationSeuleInv
  <2>11. ASSUME NEW f \in Fiches, Rattacher(r, f) PROVE IInv'
    BY <2>11, RattacherInv
  <2>12. CASE Interrompre(r)
    BY <2>12, RepondreInv DEF Interrompre
  <2> QED
    BY <1>2, <2>1, <2>2, <2>3, <2>4, <2>5, <2>6, <2>7, <2>8, <2>9, <2>10, <2>11, <2>12
       DEF NextRequete
<1>3. ASSUME NEW f \in Fiches, Detacher(f) PROVE IInv'
  BY <1>3, DetacherInv
<1>4. ASSUME NEW f \in Fiches, NEW emporte \in BOOLEAN, Effacer(f, emporte) PROVE IInv'
  BY <1>4, EffacerInv
<1>5. CASE UNCHANGED vars
  BY <1>5 DEF vars, IInv, TypeOK, RequetesTypees, ClesConnues, ReferencesTenues,
              UneGenerationParBail, VerificationDurable, Existe, Genere
<1> QED
  BY <1>1, <1>2, <1>3, <1>4, <1>5 DEF Next

\* The strengthened invariant holds in every reachable state.
THEOREM Invariance == Spec => []IInv
<1> QED
  BY InitInv, NextInv, PTL DEF Spec

\* Every table and every request in progress keeps its type, whatever the
\* statements of the handlers interleave.
THEOREM Typage == Spec => []TypeOK
<1>1. IInv => TypeOK
  BY DEF IInv
<1> QED
  BY <1>1, Invariance, PTL

\* No generation and no tenant record ever refers to a deleted lease.
THEOREM References == Spec => []ReferencesTenues
<1>1. IInv => ReferencesTenues
  BY DEF IInv
<1> QED
  BY <1>1, Invariance, PTL

\* Two generations never share a lease, though no constraint of the table
\* forbids it: save() always inserts the form it is given.
THEOREM GenerationUnique == Spec => []UneGenerationParBail
<1>1. IInv => UneGenerationParBail
  BY DEF IInv
<1> QED
  BY <1>1, Invariance, PTL

-----------------------------------------------------------------------------
\* One step of BailGenereFige.
FigeParPas ==
  \A b \in Baux : Genere(b) /\ saisies'[b] # saisies[b] =>
    /\ saisies'[b] = Absente
    /\ \E f \in Fiches : fiches[f] = b /\ fiches'[f] = Absente

\* A step that writes one row, of a lease that is not generated.
LEMMA AutreBail ==
  ASSUME IInv, NEW c \in Baux, ~ Genere(c),
         \A b \in Baux : b # c => saisies'[b] = saisies[b]
  PROVE  FigeParPas
BY DEF FigeParPas

LEMMA RequeteFige ==
  ASSUME IInv, NEW r \in Requetes, NextRequete(r)
  PROVE  FigeParPas
<1> USE DEF IInv
<1>1. ASSUME NEW c \in Baux, EcrireGeneration(r, c) PROVE FigeParPas
  <2>1. ~ Genere(c)
    BY <1>1, CleNeuve DEF EcrireGeneration
  <2>2. saisies' = saisies \/ saisies' = [saisies EXCEPT ![c] = req[r].val]
    BY <1>1 DEF EcrireGeneration
  <2> QED
    BY <2>1, <2>2, AutreBail DEF TypeOK
<1>2. CASE MettreAJour(r) \/ Inserer(r) \/ SupprimerBrouillon(r)
  <2> DEFINE c == req[r].cle
  <2>1. c \in Baux /\ ~ Genere(c)
    BY <1>2 DEF MettreAJour, Inserer, SupprimerBrouillon, VerificationDurable,
                RequetesTypees, TypeOK, PhasesSaisie
  <2>2. \A b \in Baux : b # c => saisies'[b] = saisies[b]
    BY <1>2 DEF MettreAJour, Inserer, SupprimerBrouillon, TypeOK
  <2> QED
    BY <2>1, <2>2, AutreBail
<1>3. ASSUME saisies' = saisies PROVE FigeParPas
  BY <1>3 DEF FigeParPas
<1> QED
  BY <1>1, <1>2, <1>3 DEF NextRequete, LireBrouillon, LireBail, RefuserSiGenere, Relire,
     SaveGeneration, EcrireGenerationSeule, Rattacher, Interrompre

\* A generated lease is never rewritten, and only goes with the last record
\* that refers to it.
THEOREM Fige == Spec => BailGenereFige
<1>1. IInv /\ [Next]_vars => [FigeParPas]_vars
  <2> SUFFICES ASSUME IInv, Next PROVE FigeParPas
    OBVIOUS
  <2>1. ASSUME NEW c \in Baux, NEW s \in Saisie, CreerBrouillon(c, s) PROVE FigeParPas
    <3>1. ~ Genere(c)
      BY <2>1, CleNeuve DEF CreerBrouillon
    <3> QED
      BY <2>1, <3>1, AutreBail DEF CreerBrouillon, IInv, TypeOK
  <2>2. ASSUME NEW r \in Requetes, NextRequete(r) PROVE FigeParPas
    BY <2>2, RequeteFige
  <2>3. ASSUME NEW f \in Fiches, Detacher(f) PROVE FigeParPas
    BY <2>3 DEF Detacher, FigeParPas
  <2>4. ASSUME NEW f \in Fiches, NEW emporte \in BOOLEAN, Effacer(f, emporte) PROVE FigeParPas
    BY <2>4 DEF Effacer, FigeParPas, IInv, TypeOK
  <2> QED
    BY <2>1, <2>2, <2>3, <2>4 DEF Next
<1> QED
  BY <1>1, Invariance, PTL DEF Spec, BailGenereFige, FigeParPas
=============================================================================
