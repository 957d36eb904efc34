--------------------------- MODULE LocataireProofs ---------------------------
(***************************************************************************)
(* For any number of records, leases, requests and instances: the          *)
(* variables keep their types, the foreign keys hold, a deleting           *)
(* transaction only ever holds rows it may delete, the whole system        *)
(* implements the registry; as long as no record is edited in two places   *)
(* at once its life cycle and its facts hold; while instances purge or one *)
(* actor works at a time, no record leaves its lease behind.               *)
(***************************************************************************)
EXTENDS Locataire, TLAPS

\* The entity a request carries is a whole row until its second read, and an
\* update afterwards; past the first read of a row, its key is known.
ValTypee ==
  \A r \in Requetes :
    /\ req[r].phase \in {"bail", "relecture", "insertion", "creation"}
         => req[r].val \in Ligne
    /\ req[r].phase = "maj" => req[r].val \in MiseAJour
    /\ req[r].phase \in {"relecture", "maj", "insertion", "suppression"}
         => req[r].fiche \in ids
    /\ req[r].phase = "bail" /\ req[r].op # "creer" => req[r].fiche \in ids

\* A row, and a lease, has a key of its sequence.
ClesConnues ==
  /\ \A f \in Fiches : Existe(f) => f \in ids
  /\ baux \subseteq bauxIds

\* The leases a transaction is about to delete were those of its rows; the
\* deletion of a candidate holds one row.
ContenuDesTransactions ==
  /\ \A a \in Acteurs : \A b \in tx[a].baux :
       b \in Baux /\ \E f \in tx[a].fiches : fiches[f].bail = b
  /\ \A r \in Requetes : \A f, g \in tx[r].fiches : f = g

IInv ==
  /\ TypeOK
  /\ ValTypee
  /\ ClesConnues
  /\ IntegriteReferentielle
  /\ VerrouLegitime
  /\ ContenuDesTransactions

-----------------------------------------------------------------------------
(***************************************************************************)
(* Rows.                                                                   *)
(***************************************************************************)
LEMMA NaissanceTypee ==
  ASSUME NEW b \in Baux \cup {Nul}, NEW i \in Identites
  PROVE  Naissance(b, i) \in Ligne
BY DEF Naissance, Ligne, Etats

LEMMA DifferenceTypee ==
  ASSUME NEW e \in Ligne, NEW l \in Ligne
  PROVE  Difference(e, l) \in MiseAJour
BY DEF Difference, Colonne, Ligne, MiseAJour

LEMMA FusionTypee ==
  ASSUME NEW m \in MiseAJour, NEW l \in Ligne
  PROVE  Fusion(m, l) \in Ligne
BY DEF Fusion, Garde, Ligne, MiseAJour

\* An update keeps the lease of the row or replaces it by the one it names.
LEMMA FusionBail ==
  ASSUME NEW m \in MiseAJour, NEW l \in Ligne, NEW B,
         ReferenceValide(l.bail, B),
         m.bail = Inchange \/ ReferenceValide(m.bail, B)
  PROVE  ReferenceValide(Fusion(m, l).bail, B)
BY DEF Fusion, Garde

\* What has expired stays expired as the days go by.
LEMMA ExpireeDurable ==
  ASSUME NEW l \in Ligne, NEW j \in Nat, Expiree(l, j)
  PROVE  Expiree(l, j + 1)
<1>1. l.sortie \in Nat
  BY DonneesAssumption DEF Expiree, Ligne
<1> QED
  BY <1>1, DonneesAssumption DEF Expiree

-----------------------------------------------------------------------------
(***************************************************************************)
(* The invariant.  A step that only moves a request or opens a reminder    *)
(* leaves the tables alone; a write touches one row nobody has locked; a   *)
(* commit removes rows that only its own transaction holds.                *)
(***************************************************************************)
LEMMA InitInv == Init => IInv
<1> SUFFICES ASSUME Init PROVE IInv
  OBVIOUS
<1> USE TableInitAssumption DEF Init
<1>1. TypeOK
  BY DEF TypeOK, Libre, EtatRequete, Phases, AucuneTransaction, Transaction, EtapesPurge
<1>2. ValTypee
  BY DEF ValTypee, Libre
<1>3. ClesConnues /\ IntegriteReferentielle
  BY DEF ClesConnues, IntegriteReferentielle, Existe
<1>4. VerrouLegitime /\ ContenuDesTransactions
  BY DEF VerrouLegitime, ContenuDesTransactions, AucuneTransaction, Acteurs
<1> QED
  BY <1>1, <1>2, <1>3, <1>4 DEF IInv

\* The first read of a handler.
LEMMA ChargerInv ==
  ASSUME NEW r \in Requetes, NEW op, NEW f \in Fiches, NEW admise,
         NEW phase \in {"bail", "relecture", "suppression"}, NEW entite,
         fiches[f] \in Ligne => entite \in Ligne,
         IInv, Charger(r, op, f, admise, phase, entite)
  PROVE  IInv'
<1> USE DEF IInv
<1>0. fiches[f] \in Ligne /\ entite \in Ligne
  BY DEF TypeOK, Charger, Existe
<1>1. TypeOK'
  BY <1>0 DEF TypeOK, Charger, tables, EtatRequete, Phases
<1>2. ValTypee'
  BY <1>0 DEF ValTypee, TypeOK, Charger, ClesConnues, tables
<1>3. ClesConnues' /\ IntegriteReferentielle'
  BY DEF ClesConnues, IntegriteReferentielle, Existe, Charger, tables
<1>4. VerrouLegitime' /\ ContenuDesTransactions'
  BY DEF VerrouLegitime, ContenuDesTransactions, Charger, tables, Existe
<1> QED
  BY <1>1, <1>2, <1>3, <1>4

LEMMA DebutRequeteInv ==
  ASSUME NEW r \in Requetes, IInv, DebutRequete(r)
  PROVE  IInv'
<1>1. CASE \E b \in Baux, i \in Identites : CreateLocataire(r, b, i)
  <2> PICK b \in Baux, i \in Identites : CreateLocataire(r, b, i)
    BY <1>1
  <2> USE DEF IInv, CreateLocataire
  <2>0. Naissance(b, i) \in Ligne
    BY NaissanceTypee
  <2>1. TypeOK'
    BY <2>0 DEF TypeOK, tables, EtatRequete, Phases
  <2>2. ValTypee'
    BY <2>0 DEF ValTypee, TypeOK, tables
  <2>3. ClesConnues' /\ IntegriteReferentielle'
    BY DEF ClesConnues, IntegriteReferentielle, Existe, tables
  <2>4. VerrouLegitime' /\ ContenuDesTransactions'
    BY DEF VerrouLegitime, ContenuDesTransactions, tables, Existe
  <2> QED
    BY <2>1, <2>2, <2>3, <2>4
<1>2. ASSUME NEW f \in Fiches, NEW i \in Identites, UpdateLocataire(r, f, i)
      PROVE  IInv'
  <2>1. fiches[f] \in Ligne => [fiches[f] EXCEPT !.identite = i] \in Ligne
    BY DEF Ligne
  <2> QED
    BY <1>2, <2>1, ChargerInv DEF UpdateLocataire
<1>3. ASSUME NEW f \in Fiches, NEW i \in Identites, NEW b \in Baux \cup {Nul},
             RattacherBail(r, f, i, b)
      PROVE  IInv'
  <2>1. fiches[f] \in Ligne => [fiches[f] EXCEPT !.identite = i, !.bail = b] \in Ligne
    BY DEF Ligne
  <2> QED
    BY <1>3, <2>1, ChargerInv DEF RattacherBail
<1>4. ASSUME NEW f \in Fiches, SignerBail(r, f)
      PROVE  IInv'
  <2>1. fiches[f] \in Ligne => [fiches[f] EXCEPT !.etat = "locataire"] \in Ligne
    BY DEF Ligne, Etats
  <2> QED
    BY <1>4, <2>1, ChargerInv DEF SignerBail
<1>5. ASSUME NEW f \in Fiches, MarquerBailEnvoye(r, f)
      PROVE  IInv'
  <2>1. fiches[f] \in Ligne => [fiches[f] EXCEPT !.bailEnvoye = TRUE] \in Ligne
    BY DEF Ligne
  <2> QED
    BY <1>5, <2>1, ChargerInv DEF MarquerBailEnvoye
<1>6. ASSUME NEW f \in Fiches, MarquerResiliationEnvoyee(r, f)
      PROVE  IInv'
  <2>1. fiches[f] \in Ligne => [fiches[f] EXCEPT !.congeEnvoye = TRUE] \in Ligne
    BY DEF Ligne
  <2> QED
    BY <1>6, <2>1, ChargerInv DEF MarquerResiliationEnvoyee
<1>7. ASSUME NEW f \in Fiches, NEW d \in Dates, MarquerSortie(r, f, d)
      PROVE  IInv'
  <2>1. fiches[f] \in Ligne
          => [fiches[f] EXCEPT !.sortie = d, !.etat = "sorti"] \in Ligne
    BY DEF Ligne, Etats
  <2> QED
    BY <1>7, <2>1, ChargerInv DEF MarquerSortie
<1>8. ASSUME NEW f \in Fiches, ReintegrerLocataire(r, f)
      PROVE  IInv'
  <2>1. fiches[f] \in Ligne
          => [fiches[f] EXCEPT !.sortie = Nul, !.etat = "locataire"] \in Ligne
    BY DEF Ligne, Etats
  <2> QED
    BY <1>8, <2>1, ChargerInv DEF ReintegrerLocataire
<1>9. ASSUME NEW f \in Fiches, NEW p \in BOOLEAN, DefinirConservationProlongee(r, f, p)
      PROVE  IInv'
  <2>1. fiches[f] \in Ligne => [fiches[f] EXCEPT !.conservation = p] \in Ligne
    BY DEF Ligne
  <2> QED
    BY <1>9, <2>1, ChargerInv DEF DefinirConservationProlongee
<1>10. ASSUME NEW f \in Fiches, SupprimerCandidat(r, f)
       PROVE  IInv'
  BY <1>10, ChargerInv DEF SupprimerCandidat
<1> QED
  BY <1>1, <1>2, <1>3, <1>4, <1>5, <1>6, <1>7, <1>8, <1>9, <1>10 DEF DebutRequete

-----------------------------------------------------------------------------
LEMMA ReposTypes == Libre \in EtatRequete /\ AucuneTransaction \in Transaction
BY DEF Libre, EtatRequete, Phases, AucuneTransaction, Transaction

\* A statement that reads the tables and only moves its request.
LEMMA LectureInv ==
  ASSUME IInv, req' \in [Requetes -> EtatRequete], ValTypee',
         UNCHANGED <<tables, jour, tx, purge>>
  PROVE  IInv'
<1> USE DEF IInv
<1>1. TypeOK'
  BY DEF TypeOK, tables
<1>2. ClesConnues' /\ IntegriteReferentielle'
  BY DEF ClesConnues, IntegriteReferentielle, Existe, tables
<1>3. VerrouLegitime' /\ ContenuDesTransactions'
  BY DEF VerrouLegitime, ContenuDesTransactions, tables, Existe
<1> QED
  BY <1>1, <1>2, <1>3

LEMMA ChargerBailInv ==
  ASSUME NEW r \in Requetes, IInv, ChargerBail(r)
  PROVE  IInv'
<1> USE DEF IInv
<1>0. req[r] \in EtatRequete
  BY DEF TypeOK
<1>1. CASE req[r].val.bail \in baux
  <2> DEFINE p == IF req[r].op = "creer" THEN "creation" ELSE "relecture"
  <2>1. req' = [req EXCEPT ![r] = [req[r] EXCEPT !.phase = p]]
    BY <1>1 DEF ChargerBail, Avancer
  <2>2. [req[r] EXCEPT !.phase = p]
          = [phase |-> p, op |-> req[r].op, fiche |-> req[r].fiche, val |-> req[r].val]
    BY <1>0 DEF EtatRequete
  <2>3. req' \in [Requetes -> EtatRequete]
    BY <1>0, <2>1, <2>2 DEF TypeOK, EtatRequete, Phases
  <2>4. ValTypee'
    BY <2>1, <2>2 DEF ValTypee, TypeOK, ChargerBail, tables
  <2> QED
    BY <2>3, <2>4, LectureInv DEF ChargerBail
<1>2. CASE req[r].val.bail \notin baux
  <2>1. req' = [req EXCEPT ![r] = Libre]
    BY <1>2 DEF ChargerBail, Repondre
  <2>2. req' \in [Requetes -> EtatRequete]
    BY <2>1, ReposTypes DEF TypeOK
  <2>3. ValTypee'
    BY <2>1 DEF ValTypee, TypeOK, ChargerBail, Libre, tables
  <2> QED
    BY <2>2, <2>3, LectureInv DEF ChargerBail
<1> QED
  BY <1>1, <1>2

LEMMA RelireInv ==
  ASSUME NEW r \in Requetes, IInv, Relire(r)
  PROVE  IInv'
<1> USE DEF IInv
<1>0. req[r].fiche \in Fiches /\ req[r].val \in Ligne
  BY DEF Relire, ValTypee, TypeOK
<1>1. CASE Existe(req[r].fiche)
  <2> DEFINE d == Difference(req[r].val, fiches[req[r].fiche])
  <2>1. d \in MiseAJour
    BY <1>0, <1>1, DifferenceTypee DEF TypeOK, Existe
  <2> HIDE DEF d
  <2>2. req' = [req EXCEPT ![r] = [phase |-> "maj", op |-> req[r].op,
                                    fiche |-> req[r].fiche, val |-> d]]
    BY <1>1 DEF Relire, d
  <2>3. req' \in [Requetes -> EtatRequete]
    BY <2>1, <2>2 DEF TypeOK, EtatRequete, Phases
  <2>4. ValTypee'
    BY <1>0, <2>1, <2>2 DEF ValTypee, TypeOK, Relire, tables
  <2> QED
    BY <2>3, <2>4, LectureInv DEF Relire
<1>2. CASE ~ Existe(req[r].fiche)
  <2>1. req' = [req EXCEPT ![r] = [req[r] EXCEPT !.phase = "insertion"]]
    BY <1>2 DEF Relire
  <2>2. req[r] \in EtatRequete
    BY DEF TypeOK
  <2>3. [req[r] EXCEPT !.phase = "insertion"]
          = [phase |-> "insertion", op |-> req[r].op, fiche |-> req[r].fiche,
             val |-> req[r].val]
    BY <2>2 DEF EtatRequete
  <2>4. req' \in [Requetes -> EtatRequete]
    BY <2>1, <2>2, <2>3 DEF TypeOK, EtatRequete, Phases
  <2>5. ValTypee'
    BY <1>0, <2>1, <2>3 DEF ValTypee, TypeOK, Relire, tables
  <2> QED
    BY <2>4, <2>5, LectureInv DEF Relire
<1> QED
  BY <1>1, <1>2

\* A write puts a row whose lease exists under a key nobody has locked.
LEMMA EcritureInv ==
  ASSUME NEW r \in Requetes, NEW f \in Fiches, NEW l \in Ligne, IInv,
         fiches' = [fiches EXCEPT ![f] = l], ReferenceValide(l.bail, baux),
         ~ Verrouillee(f), f \in ids', ids \subseteq ids', ids' \in SUBSET Fiches,
         req' = [req EXCEPT ![r] = Libre],
         UNCHANGED <<baux, generes, bauxIds, jour, tx, purge>>
  PROVE  IInv'
<1> USE DEF IInv
<1>1. TypeOK'
  BY ReposTypes DEF TypeOK
<1>2. ValTypee'
  BY DEF ValTypee, TypeOK, Libre
<1>3. ClesConnues' /\ IntegriteReferentielle'
  BY DEF ClesConnues, IntegriteReferentielle, Existe, TypeOK
<1>4. \A a \in Acteurs : \A g \in tx[a].fiches : g \in Fiches /\ fiches'[g] = fiches[g]
  BY DEF Verrouillee, TypeOK, Transaction
<1>5. VerrouLegitime' /\ ContenuDesTransactions'
  BY <1>4 DEF VerrouLegitime, ContenuDesTransactions, Existe, Acteurs
<1> QED
  BY <1>1, <1>2, <1>3, <1>5

\* A write that fails.
LEMMA EchecInv ==
  ASSUME NEW r \in Requetes, IInv, req' = [req EXCEPT ![r] = Libre],
         UNCHANGED <<tables, jour, tx, purge>>
  PROVE  IInv'
<1>1. req' \in [Requetes -> EtatRequete]
  BY ReposTypes DEF IInv, TypeOK
<1>2. ValTypee'
  BY DEF IInv, ValTypee, TypeOK, Libre, tables
<1> QED
  BY <1>1, <1>2, LectureInv

LEMMA MettreAJourInv ==
  ASSUME NEW r \in Requetes, IInv, MettreAJour(r)
  PROVE  IInv'
<1> DEFINE f == req[r].fiche
           m == req[r].val
<1> HIDE DEF f, m
<1>1. f \in Fiches /\ m \in MiseAJour
  BY DEF IInv, ValTypee, TypeOK, MettreAJour, f, m
<1>2. CASE Existe(f) /\ (m.bail = Inchange \/ ReferenceValide(m.bail, baux))
  <2> DEFINE l == Fusion(m, fiches[f])
  <2>1. fiches[f] \in Ligne /\ ReferenceValide(fiches[f].bail, baux)
    BY <1>1, <1>2 DEF IInv, TypeOK, Existe, IntegriteReferentielle
  <2>2. l \in Ligne
    BY <1>1, <2>1, FusionTypee
  <2>3. ReferenceValide(l.bail, baux)
    BY <1>1, <1>2, <2>1, FusionBail
  <2>4. fiches' = [fiches EXCEPT ![f] = l]
    BY <1>2 DEF MettreAJour, f, m
  <2>5. f \in ids' /\ ids' = ids /\ ids' \in SUBSET Fiches
    BY <1>1, <1>2 DEF IInv, ClesConnues, TypeOK, MettreAJour
  <2>6. ~ Verrouillee(f) /\ req' = [req EXCEPT ![r] = Libre]
        /\ UNCHANGED <<baux, generes, bauxIds, jour, tx, purge>>
    BY DEF MettreAJour, Repondre, f
  <2> HIDE DEF l
  <2> QED
    BY <1>1, <2>2, <2>3, <2>4, <2>5, <2>6, EcritureInv
<1>3. CASE ~ (Existe(f) /\ (m.bail = Inchange \/ ReferenceValide(m.bail, baux)))
  BY <1>3, EchecInv DEF MettreAJour, Repondre, tables, f, m
<1> QED
  BY <1>2, <1>3

LEMMA InsererInv ==
  ASSUME NEW r \in Requetes, IInv, Inserer(r)
  PROVE  IInv'
<1> DEFINE f == req[r].fiche
           l == req[r].val
<1> HIDE DEF f, l
<1>1. f \in Fiches /\ l \in Ligne
  BY DEF IInv, ValTypee, TypeOK, Inserer, f, l
<1>2. CASE ~ Existe(f) /\ ReferenceValide(l.bail, baux)
  <2>1. fiches' = [fiches EXCEPT ![f] = l]
    BY <1>2 DEF Inserer, f, l
  <2>2. f \in ids' /\ ids' = ids /\ ids' \in SUBSET Fiches
    BY DEF IInv, ValTypee, TypeOK, Inserer, f
  <2>3. ~ Verrouillee(f) /\ req' = [req EXCEPT ![r] = Libre]
        /\ UNCHANGED <<baux, generes, bauxIds, jour, tx, purge>>
    BY DEF Inserer, Repondre, f
  <2> QED
    BY <1>1, <1>2, <2>1, <2>2, <2>3, EcritureInv
<1>3. CASE ~ (~ Existe(f) /\ ReferenceValide(l.bail, baux))
  BY <1>3, EchecInv DEF Inserer, Repondre, tables, f, l
<1> QED
  BY <1>2, <1>3

LEMMA InsererNouvelleInv ==
  ASSUME NEW r \in Requetes, NEW f \in Fiches, IInv, InsererNouvelle(r, f)
  PROVE  IInv'
<1> DEFINE l == req[r].val
<1> HIDE DEF l
<1>1. l \in Ligne
  BY DEF IInv, ValTypee, InsererNouvelle, l
<1>2. CASE ReferenceValide(l.bail, baux)
  <2>1. fiches' = [fiches EXCEPT ![f] = l] /\ ids' = ids \cup {f}
    BY <1>2 DEF InsererNouvelle, l
  <2>2. f \in ids' /\ ids \subseteq ids' /\ ids' \in SUBSET Fiches
    BY <2>1 DEF IInv, TypeOK
  <2>3. ~ Verrouillee(f)
    BY DEF IInv, ClesConnues, VerrouLegitime, InsererNouvelle, Verrouillee, Acteurs
  <2>4. req' = [req EXCEPT ![r] = Libre]
        /\ UNCHANGED <<baux, generes, bauxIds, jour, tx, purge>>
    BY DEF InsererNouvelle, Repondre
  <2> QED
    BY <1>1, <1>2, <2>1, <2>2, <2>3, <2>4, EcritureInv
<1>3. CASE ~ ReferenceValide(l.bail, baux)
  BY <1>3, EchecInv DEF InsererNouvelle, Repondre, tables, l
<1> QED
  BY <1>2, <1>3

-----------------------------------------------------------------------------
(***************************************************************************)
(* Transactions.                                                           *)
(***************************************************************************)
\* A transaction opens on rows nobody else has locked, or closes; the
\* requests and the instances move on.
LEMMA OuvertureInv ==
  ASSUME NEW a \in Acteurs, NEW F \in SUBSET Fiches, IInv,
         tx' = [tx EXCEPT ![a] = [etape |-> "verrou", fiches |-> F, baux |-> {}]],
         \A f \in F : Existe(f) /\ ~ Verrouillee(f),
         a \in Requetes => \A f \in F : fiches[f].etat = "candidat",
         a \in Requetes => \A f, g \in F : f = g,
         a \in Instances => \A f \in F : Expiree(fiches[f], jour),
         req' \in [Requetes -> EtatRequete], ValTypee',
         purge' \in [Instances -> [phase : EtapesPurge, anciens : SUBSET Fiches]],
         UNCHANGED <<tables, jour>>
  PROVE  IInv'
<1> USE DEF IInv
<1>1. TypeOK'
  BY DEF TypeOK, tables, Transaction
<1>2. ClesConnues' /\ IntegriteReferentielle'
  BY DEF ClesConnues, IntegriteReferentielle, Existe, tables
<1>3. \A c \in Acteurs : tx'[c].fiches = IF c = a THEN F ELSE tx[c].fiches
  BY DEF TypeOK
<1>4. \A c \in Acteurs : c # a => F \cap tx[c].fiches = {}
  BY DEF Verrouillee
<1>5. fiches' = fiches /\ jour' = jour /\ \A f \in Fiches : Existe(f)' <=> Existe(f)
  BY DEF Existe, tables
<1>6. \A r \in Requetes : \A f \in tx'[r].fiches :
        Existe(f)' /\ fiches'[f].etat = "candidat"
  BY <1>3, <1>5 DEF VerrouLegitime, Acteurs, Existe
<1>7. \A i \in Instances : \A f \in tx'[i].fiches :
        Existe(f)' /\ Expiree(fiches'[f], jour')
  BY <1>3, <1>5 DEF VerrouLegitime, Acteurs, Existe
<1>8. \A c, d \in Acteurs : c # d => tx'[c].fiches \cap tx'[d].fiches = {}
  BY <1>3, <1>4 DEF VerrouLegitime
<1>9. VerrouLegitime'
  BY <1>6, <1>7, <1>8 DEF VerrouLegitime, Expiree
<1>10. ContenuDesTransactions'
  BY <1>5 DEF ContenuDesTransactions, TypeOK
<1> QED
  BY <1>1, <1>2, <1>9, <1>10

LEMMA FermetureInv ==
  ASSUME NEW a \in Acteurs, IInv,
         tx' = [tx EXCEPT ![a] = AucuneTransaction],
         req' \in [Requetes -> EtatRequete], ValTypee',
         purge' \in [Instances -> [phase : EtapesPurge, anciens : SUBSET Fiches]],
         UNCHANGED <<tables, jour>>
  PROVE  IInv'
<1> USE DEF IInv
<1>1. TypeOK'
  BY ReposTypes DEF TypeOK, tables
<1>2. ClesConnues' /\ IntegriteReferentielle'
  BY DEF ClesConnues, IntegriteReferentielle, Existe, tables
<1>3. VerrouLegitime' /\ ContenuDesTransactions'
  BY DEF VerrouLegitime, ContenuDesTransactions, tables, Existe, TypeOK, Acteurs,
         AucuneTransaction
<1> QED
  BY <1>1, <1>2, <1>3

LEMMA VerrouillerCandidatInv ==
  ASSUME NEW r \in Requetes, IInv, VerrouillerCandidat(r)
  PROVE  IInv'
<1> DEFINE f == req[r].fiche
<1>1. CASE Existe(f) /\ fiches[f].etat = "candidat"
  <2>1. f \in Fiches /\ r \in Acteurs /\ r \notin Instances
    BY TableInitAssumption DEF IInv, ValTypee, TypeOK, VerrouillerCandidat, Acteurs
  <2>2. tx' = [tx EXCEPT ![r] = [etape |-> "verrou", fiches |-> {f}, baux |-> {}]]
        /\ req' = [req EXCEPT ![r] = [req[r] EXCEPT !.phase = "transaction"]]
        /\ ~ Verrouillee(f)
        /\ UNCHANGED <<tables, jour, purge>>
    BY <1>1 DEF VerrouillerCandidat, Ouvrir, Avancer
  <2>3. req[r] \in EtatRequete
    BY DEF IInv, TypeOK
  <2>4. [req[r] EXCEPT !.phase = "transaction"]
          = [phase |-> "transaction", op |-> req[r].op, fiche |-> f, val |-> req[r].val]
    BY <2>3 DEF EtatRequete
  <2>5. req' \in [Requetes -> EtatRequete]
    BY <2>2, <2>3, <2>4 DEF IInv, TypeOK, EtatRequete, Phases
  <2>6. ValTypee'
    BY <2>2, <2>4 DEF IInv, ValTypee, TypeOK, tables
  <2>7. purge' \in [Instances -> [phase : EtapesPurge, anciens : SUBSET Fiches]]
    BY <2>2 DEF IInv, TypeOK
  <2> DEFINE F == {f}
  <2>8. /\ F \in SUBSET Fiches
        /\ \A g \in F : Existe(g) /\ ~ Verrouillee(g) /\ fiches[g].etat = "candidat"
        /\ \A g, h \in F : g = h
    BY <1>1, <2>1, <2>2
  <2>9. tx' = [tx EXCEPT ![r] = [etape |-> "verrou", fiches |-> F, baux |-> {}]]
        /\ UNCHANGED <<tables, jour>>
    BY <2>2
  <2> HIDE DEF f, F
  <2> QED
    BY <2>1, <2>5, <2>6, <2>7, <2>8, <2>9, OuvertureInv
<1>2. CASE ~ (Existe(f) /\ fiches[f].etat = "candidat")
  BY <1>2, EchecInv DEF VerrouillerCandidat, Repondre
<1> QED
  BY <1>1, <1>2

LEMMA VerrouillerExpireesInv ==
  ASSUME NEW i \in Instances, IInv, VerrouillerExpirees(i)
  PROVE  IInv'
<1> DEFINE F == {f \in Fiches : Existe(f) /\ Expiree(fiches[f], jour)}
           Anciens == [phase : EtapesPurge, anciens : SUBSET Fiches]
<1>0. req' = req /\ req' \in [Requetes -> EtatRequete]
      /\ UNCHANGED <<tables, jour>>
  BY DEF IInv, TypeOK, VerrouillerExpirees
<1>1. ValTypee'
  BY <1>0 DEF IInv, ValTypee, tables
<1>2. purge' \in [Instances -> Anciens]
  <2>1. PICK p \in {"prete", "transaction"} :
          purge' = [purge EXCEPT ![i] = [purge[i] EXCEPT !.phase = p]]
    BY DEF VerrouillerExpirees
  <2>2. purge[i] \in Anciens
    BY DEF IInv, TypeOK
  <2>3. [purge[i] EXCEPT !.phase = p] \in Anciens
    BY <2>2 DEF EtapesPurge
  <2> QED
    BY <2>1, <2>3 DEF IInv, TypeOK
<1>3. CASE F = {}
  <2>1. UNCHANGED <<tables, jour, tx>>
    BY <1>0, <1>3 DEF VerrouillerExpirees
  <2>2. TypeOK'
    BY <1>0, <1>2, <2>1 DEF IInv, TypeOK, tables
  <2>3. ClesConnues' /\ IntegriteReferentielle'
    BY <2>1 DEF IInv, ClesConnues, IntegriteReferentielle, Existe, tables
  <2>4. VerrouLegitime' /\ ContenuDesTransactions'
    BY <2>1 DEF IInv, VerrouLegitime, ContenuDesTransactions, tables, Existe
  <2> QED
    BY <1>1, <2>2, <2>3, <2>4 DEF IInv
<1>4. CASE F # {}
  <2>1. tx' = [tx EXCEPT ![i] = [etape |-> "verrou", fiches |-> F, baux |-> {}]]
        /\ \A f \in F : ~ Verrouillee(f)
    BY <1>4 DEF VerrouillerExpirees, Ouvrir
  <2>2. i \in Acteurs /\ i \notin Requetes
    BY TableInitAssumption DEF Acteurs
  <2>3. F \in SUBSET Fiches /\ \A f \in F : Existe(f) /\ Expiree(fiches[f], jour)
    OBVIOUS
  <2> HIDE DEF F
  <2> QED
    BY <1>0, <1>1, <1>2, <2>1, <2>2, <2>3, OuvertureInv
<1> QED
  BY <1>3, <1>4

LEMMA ConstaterOrphelinsInv ==
  ASSUME NEW a \in Acteurs, IInv, ConstaterOrphelins(a)
  PROVE  IInv'
<1> DEFINE F == tx[a].fiches
           B == Orphelins(F)
<1>1. /\ tx' = [tx EXCEPT ![a] = [etape |-> "orphelins", fiches |-> F, baux |-> B]]
      /\ UNCHANGED <<tables, jour, req, purge>>
  BY DEF ConstaterOrphelins
<1>2. B \subseteq Baux /\ \A b \in B : \E f \in F : fiches[f].bail = b
  BY DEF IInv, TypeOK, Orphelins
<1>3. F \in SUBSET Fiches
  BY DEF IInv, TypeOK, Transaction
<1> HIDE DEF F, B
<1>4. TypeOK'
  BY <1>1, <1>2, <1>3 DEF IInv, TypeOK, tables, Transaction
<1>5. ValTypee' /\ ClesConnues' /\ IntegriteReferentielle'
  BY <1>1 DEF IInv, ValTypee, ClesConnues, IntegriteReferentielle, Existe, tables
<1>6. \A c \in Acteurs : tx'[c].fiches = tx[c].fiches
  BY <1>1 DEF IInv, TypeOK, F
<1>7. VerrouLegitime'
  BY <1>1, <1>6 DEF IInv, VerrouLegitime, tables, Existe, Acteurs
<1>8. ContenuDesTransactions'
  BY <1>1, <1>2, <1>6 DEF IInv, ContenuDesTransactions, TypeOK, tables, F
<1> QED
  BY <1>4, <1>5, <1>7, <1>8 DEF IInv

LEMMA ContinuerTypee ==
  ASSUME NEW a \in Acteurs, NEW A \in SUBSET Fiches, IInv, Continuer(a, A), ids' = ids
  PROVE  /\ req' \in [Requetes -> EtatRequete]
         /\ ValTypee'
         /\ purge' \in [Instances -> [phase : EtapesPurge, anciens : SUBSET Fiches]]
<1>1. CASE a \in Requetes /\ Repondre(a) /\ UNCHANGED purge
  BY <1>1, ReposTypes DEF IInv, TypeOK, ValTypee, Repondre, Libre
<1>2. CASE a \in Instances /\ UNCHANGED req
             /\ \E p \in {"prete", "rappel"} :
                  purge' = [purge EXCEPT ![a] = [phase |-> p, anciens |-> A]]
  BY <1>2 DEF IInv, TypeOK, ValTypee, EtapesPurge
<1> QED
  BY <1>1, <1>2 DEF Continuer

\* The commit removes rows that only its own transaction holds, and leases
\* that no remaining row refers to.
LEMMA ValiderInv ==
  ASSUME NEW a \in Acteurs, IInv, Valider(a)
  PROVE  IInv'
<1> USE DEF IInv
<1> DEFINE F == tx[a].fiches
           B == tx[a].baux
<1>0. F \in SUBSET Fiches /\ ids' = ids
  BY DEF TypeOK, Transaction, Valider
<1>1. /\ fiches' = [f \in Fiches |-> IF f \in F THEN Absente ELSE fiches[f]]
      /\ generes' = generes \ B
      /\ baux' = baux \ B
      /\ tx' = [tx EXCEPT ![a] = AucuneTransaction]
      /\ UNCHANGED <<jour, ids, bauxIds>>
      /\ SansReference(F, B)
  BY DEF Valider, Fermer
<1>2. /\ req' \in [Requetes -> EtatRequete]
      /\ ValTypee'
      /\ purge' \in [Instances -> [phase : EtapesPurge, anciens : SUBSET Fiches]]
  BY <1>0, ContinuerTypee DEF Valider
<1> HIDE DEF F, B
<1>3. TypeOK'
  BY <1>1, <1>2, ReposTypes DEF TypeOK
<1>4. \A f \in Fiches : Existe(f)' <=> Existe(f) /\ f \notin F
  BY <1>1 DEF Existe
<1>5. ClesConnues'
  BY <1>1, <1>4 DEF ClesConnues
<1>6. IntegriteReferentielle'
  BY <1>1, <1>4 DEF IntegriteReferentielle, ReferenceValide, SansReference, Existe
<1>7. \A c \in Acteurs : tx'[c] = IF c = a THEN AucuneTransaction ELSE tx[c]
  BY <1>1 DEF TypeOK
<1>8. \A c \in Acteurs : c # a =>
        \A f \in tx[c].fiches : f \in Fiches /\ f \notin F /\ fiches'[f] = fiches[f]
  BY <1>1 DEF TypeOK, Transaction, VerrouLegitime, F
<1>9. VerrouLegitime'
  <2>1. \A r \in Requetes : \A f \in tx'[r].fiches :
          Existe(f)' /\ fiches'[f].etat = "candidat"
    BY <1>4, <1>7, <1>8 DEF VerrouLegitime, Acteurs, AucuneTransaction
  <2>2. \A i \in Instances : \A f \in tx'[i].fiches :
          Existe(f)' /\ Expiree(fiches'[f], jour')
    BY <1>1, <1>4, <1>7, <1>8 DEF VerrouLegitime, Acteurs, AucuneTransaction
  <2>3. \A c, d \in Acteurs : c # d => tx'[c].fiches \cap tx'[d].fiches = {}
    BY <1>7 DEF VerrouLegitime, AucuneTransaction
  <2> QED
    BY <2>1, <2>2, <2>3 DEF VerrouLegitime, Expiree
<1>10. ContenuDesTransactions'
  <2>1. \A c \in Acteurs : \A b \in tx'[c].baux :
          b \in Baux /\ \E f \in tx'[c].fiches : fiches'[f].bail = b
    BY <1>7, <1>8 DEF ContenuDesTransactions, AucuneTransaction
  <2>2. \A r \in Requetes : \A f, g \in tx'[r].fiches : f = g
    BY <1>7 DEF ContenuDesTransactions, AucuneTransaction, Acteurs
  <2> QED
    BY <2>1, <2>2 DEF ContenuDesTransactions
<1> QED
  BY <1>2, <1>3, <1>5, <1>6, <1>9, <1>10

LEMMA AnnulerInv ==
  ASSUME NEW a \in Acteurs, IInv, Annuler(a)
  PROVE  IInv'
<1>1. ids' = ids /\ Continuer(a, {}) /\ UNCHANGED <<tables, jour>>
      /\ tx' = [tx EXCEPT ![a] = AucuneTransaction]
  BY DEF Annuler, Fermer, tables
<1>2. /\ req' \in [Requetes -> EtatRequete]
      /\ ValTypee'
      /\ purge' \in [Instances -> [phase : EtapesPurge, anciens : SUBSET Fiches]]
  BY <1>1, ContinuerTypee
<1> QED
  BY <1>1, <1>2, FermetureInv

-----------------------------------------------------------------------------
(***************************************************************************)
(* Instances, interruptions, generations and days.                         *)
(***************************************************************************)
LEMMA InstanceInv ==
  ASSUME NEW i \in Instances, IInv,
         Demarrer(i) \/ EnvoyerRappel(i)
  PROVE  IInv'
<1> USE DEF IInv
<1>1. PICK p \in EtapesPurge :
        purge' = [purge EXCEPT ![i] = [phase |-> p, anciens |-> {}]]
  BY DEF Demarrer, EnvoyerRappel, EtapesPurge
<1>2. UNCHANGED <<tables, jour, req, tx>>
  BY DEF Demarrer, EnvoyerRappel
<1>3. TypeOK'
  BY <1>1, <1>2 DEF TypeOK, tables
<1>4. ValTypee' /\ ClesConnues' /\ IntegriteReferentielle'
  BY <1>2 DEF ValTypee, ClesConnues, IntegriteReferentielle, Existe, tables
<1>5. VerrouLegitime' /\ ContenuDesTransactions'
  BY <1>2 DEF VerrouLegitime, ContenuDesTransactions, tables, Existe
<1> QED
  BY <1>3, <1>4, <1>5

LEMMA ArreterInv ==
  ASSUME NEW i \in Instances, IInv, Arreter(i) \/ EchouerPurge(i)
  PROVE  IInv'
<1> USE DEF Arreter, EchouerPurge
<1>1. purge' \in [Instances -> [phase : EtapesPurge, anciens : SUBSET Fiches]]
  BY DEF IInv, TypeOK, EtapesPurge
<1>2. req' \in [Requetes -> EtatRequete] /\ ValTypee'
  BY DEF IInv, TypeOK, ValTypee, tables
<1>3. i \in Acteurs
  BY DEF Acteurs
<1> QED
  BY <1>1, <1>2, <1>3, FermetureInv DEF Fermer

LEMMA InterrompreInv ==
  ASSUME NEW r \in Requetes, IInv, Interrompre(r)
  PROVE  IInv'
<1>1. req' \in [Requetes -> EtatRequete] /\ ValTypee'
  BY ReposTypes DEF IInv, TypeOK, ValTypee, Interrompre, Repondre, Libre, tables
<1>2. purge' \in [Instances -> [phase : EtapesPurge, anciens : SUBSET Fiches]]
  BY DEF IInv, TypeOK, Interrompre
<1>3. r \in Acteurs
  BY DEF Acteurs
<1> QED
  BY <1>1, <1>2, <1>3, FermetureInv DEF Interrompre, Fermer

LEMMA SaveGenerationInv ==
  ASSUME NEW b \in Baux, IInv, SaveGeneration(b)
  PROVE  IInv'
<1> USE DEF IInv, SaveGeneration
<1>1. TypeOK'
  BY DEF TypeOK
<1>2. ValTypee' /\ ClesConnues' /\ IntegriteReferentielle'
  BY DEF ValTypee, ClesConnues, IntegriteReferentielle, ReferenceValide, Existe
<1>3. VerrouLegitime' /\ ContenuDesTransactions'
  BY DEF VerrouLegitime, ContenuDesTransactions, Existe
<1> QED
  BY <1>1, <1>2, <1>3

LEMMA PasserJourInv ==
  ASSUME IInv, PasserJour
  PROVE  IInv'
<1> USE DEF IInv, PasserJour
<1>1. TypeOK'
  BY DEF TypeOK, tables
<1>2. ValTypee' /\ ClesConnues' /\ IntegriteReferentielle' /\ ContenuDesTransactions'
  BY DEF ValTypee, ClesConnues, IntegriteReferentielle, ContenuDesTransactions,
         Existe, tables
<1>3. VerrouLegitime'
  <2>1. \A f \in Fiches : Existe(f) /\ Expiree(fiches[f], jour)
                            => Expiree(fiches[f], jour + 1)
    BY ExpireeDurable DEF TypeOK, Existe
  <2>2. \A i \in Instances : \A f \in tx[i].fiches : f \in Fiches
    BY DEF TypeOK, Transaction, Acteurs
  <2>3. fiches' = fiches /\ tx' = tx /\ jour' = jour + 1
    BY DEF tables
  <2>4. \A i \in Instances : \A f \in tx'[i].fiches :
          Existe(f)' /\ Expiree(fiches'[f], jour')
    BY <2>1, <2>2, <2>3 DEF VerrouLegitime, Existe
  <2> QED
    BY <2>3, <2>4 DEF VerrouLegitime, Existe, Expiree
<1> QED
  BY <1>1, <1>2, <1>3

LEMMA NextInv == IInv /\ [Next]_vars => IInv'
<1> SUFFICES ASSUME IInv, [Next]_vars PROVE IInv'
  OBVIOUS
<1>1. ASSUME NEW r \in Requetes, DebutRequete(r) PROVE IInv'
  BY <1>1, DebutRequeteInv
<1>2. ASSUME NEW r \in Requetes, SuiteRequete(r) PROVE IInv'
  BY <1>2, ChargerBailInv, RelireInv, MettreAJourInv, InsererInv,
     InsererNouvelleInv, VerrouillerCandidatInv DEF SuiteRequete
<1>3. ASSUME NEW r \in Requetes, Interrompre(r) PROVE IInv'
  BY <1>3, InterrompreInv
<1>4. ASSUME NEW a \in Acteurs, SuiteTransaction(a) PROVE IInv'
  BY <1>4, ConstaterOrphelinsInv, ValiderInv, AnnulerInv DEF SuiteTransaction
<1>5. ASSUME NEW i \in Instances, Demarrer(i) \/ SuitePurge(i) \/ Arreter(i)
      PROVE  IInv'
  BY <1>5, InstanceInv, VerrouillerExpireesInv, ArreterInv DEF SuitePurge
<1>6. ASSUME NEW b \in Baux, SaveGeneration(b) PROVE IInv'
  BY <1>6, SaveGenerationInv
<1>7. CASE PasserJour
  BY <1>7, PasserJourInv
<1>8. CASE UNCHANGED vars
  BY <1>8 DEF vars, IInv, TypeOK, ValTypee, ClesConnues, IntegriteReferentielle,
     VerrouLegitime, ContenuDesTransactions, Existe
<1> QED
  BY <1>1, <1>2, <1>3, <1>4, <1>5, <1>6, <1>7, <1>8 DEF Next

\* In every reachable state the inductive invariant holds.
THEOREM Invariance == Spec => []IInv
BY InitInv, NextInv, PTL DEF Spec

\* The variables keep their types: a request carries a row, an update or
\* nothing, a transaction holds keys, whatever the interleaving.
THEOREM Typage == Spec => []TypeOK
<1>1. IInv => TypeOK
  BY DEF IInv
<1> QED
  BY <1>1, Invariance, PTL

\* The foreign keys hold at every moment: no tenant record and no generation
\* points at a lease that a purge or the deletion of a candidate removed.
THEOREM Integrite == Spec => []IntegriteReferentielle
<1>1. IInv => IntegriteReferentielle
  BY DEF IInv
<1> QED
  BY <1>1, Invariance, PTL

\* A deleting transaction holds, until its commit, rows that are still there
\* and still deletable, and that no other transaction holds.
THEOREM Verrous == Spec => []VerrouLegitime
<1>1. IInv => VerrouLegitime
  BY DEF IInv
<1> QED
  BY <1>1, Invariance, PTL

-----------------------------------------------------------------------------
(***************************************************************************)
(* The reminder.  Only a commit puts records in it: the rows the           *)
(* transaction holds, which are still there (VerrouLegitime).              *)
(***************************************************************************)
Annonces ==
  \A i \in Instances : \A f \in purge'[i].anciens \ purge[i].anciens :
    Existe(f) /\ ~ Existe(f)'

LEMMA ValiderAnnonce ==
  ASSUME IInv, NEW a \in Acteurs, Valider(a)
  PROVE  Annonces
<1> SUFFICES ASSUME NEW i \in Instances, NEW f \in purge'[i].anciens \ purge[i].anciens
             PROVE  Existe(f) /\ ~ Existe(f)'
  BY DEF Annonces
<1>1. Continuer(a, tx[a].fiches) /\ purge \in [Instances -> [phase : EtapesPurge, anciens : SUBSET Fiches]]
  BY DEF Valider, IInv, TypeOK
<1>2. a \in Instances /\ i = a /\ f \in tx[a].fiches
  BY <1>1 DEF Continuer
<1>3. f \in Fiches /\ Existe(f)
  BY <1>2 DEF IInv, TypeOK, Transaction, VerrouLegitime
<1>4. fiches'[f] = Absente
  BY <1>2, <1>3 DEF Valider
<1> QED
  BY <1>3, <1>4 DEF Existe

LEMMA PasAnnonce == IInv /\ [Next]_vars => Annonces
<1> SUFFICES ASSUME IInv, [Next]_vars PROVE Annonces
  OBVIOUS
<1>1. ASSUME NEW a \in Acteurs, Annuler(a) PROVE Annonces
  <2>1. purge' = purge \/ \E p : purge' = [purge EXCEPT ![a] = [phase |-> p, anciens |-> {}]]
    BY <1>1 DEF Annuler, Continuer
  <2> QED
    BY <2>1 DEF Annonces, IInv, TypeOK
<1>2. ASSUME NEW i \in Instances, Demarrer(i) \/ EchouerPurge(i) \/ EnvoyerRappel(i) \/ Arreter(i)
      PROVE  Annonces
  <2>1. \E p : purge' = [purge EXCEPT ![i] = [phase |-> p, anciens |-> {}]]
    BY <1>2 DEF Demarrer, EchouerPurge, EnvoyerRappel, Arreter
  <2> QED
    BY <2>1 DEF Annonces, IInv, TypeOK
<1>3. ASSUME NEW i \in Instances, VerrouillerExpirees(i) PROVE Annonces
  <2>1. \E p : purge' = [purge EXCEPT ![i] = [phase |-> p, anciens |-> purge[i].anciens]]
    <3>1. \E p : purge' = [purge EXCEPT ![i] = [purge[i] EXCEPT !.phase = p]]
      BY <1>3 DEF VerrouillerExpirees
    <3>2. \A p : [purge[i] EXCEPT !.phase = p] = [phase |-> p, anciens |-> purge[i].anciens]
      BY DEF IInv, TypeOK
    <3> QED
      BY <3>1, <3>2
  <2> QED
    BY <2>1 DEF Annonces, IInv, TypeOK
<1>4. ASSUME UNCHANGED purge PROVE Annonces
  BY <1>4 DEF Annonces
<1>5. ASSUME NEW r \in Requetes, DebutRequete(r) \/ SuiteRequete(r) \/ Interrompre(r)
      PROVE  UNCHANGED purge
  <2>1. CASE DebutRequete(r)
    BY <2>1 DEF DebutRequete, Charger, CreateLocataire, UpdateLocataire, RattacherBail,
       SignerBail, MarquerBailEnvoye, MarquerResiliationEnvoyee, MarquerSortie,
       ReintegrerLocataire, DefinirConservationProlongee, SupprimerCandidat
  <2>2. CASE SuiteRequete(r)
    BY <2>2 DEF SuiteRequete, ChargerBail, Relire, MettreAJour, Inserer, InsererNouvelle,
       VerrouillerCandidat
  <2>3. CASE Interrompre(r)
    BY <2>3 DEF Interrompre
  <2> QED
    BY <1>5, <2>1, <2>2, <2>3
<1>6. ASSUME NEW a \in Acteurs, ConstaterOrphelins(a) PROVE UNCHANGED purge
  BY <1>6 DEF ConstaterOrphelins
<1>7. ASSUME NEW b \in Baux, SaveGeneration(b) PROVE UNCHANGED purge
  BY <1>7 DEF SaveGeneration
<1>8. PasserJour \/ UNCHANGED vars => UNCHANGED purge
  BY DEF PasserJour, vars
<1> QED
  BY <1>1, <1>2, <1>3, <1>4, <1>5, <1>6, <1>7, <1>8, ValiderAnnonce
     DEF Next, SuiteTransaction, SuitePurge

\* A reminder only names records its own instance has just deleted: however many
\* instances start together, one of them names a record, and a purge that
\* failed names none.
THEOREM Rappels == Spec => RappelUnique
<1>1. IInv /\ [Next]_vars => [Annonces]_vars
  BY PasAnnonce
<1> QED
  BY <1>1, Invariance, PTL DEF Spec, RappelUnique, Annonces

-----------------------------------------------------------------------------
(***************************************************************************)
(* The refinement of Registre.  Its definitions on rows are those of this  *)
(* module; a step that leaves the tables and the day alone is a stutter,   *)
(* and each of the others is one operation of the registry.                *)
(***************************************************************************)
LEMMA MemesLignes ==
  /\ R!Ligne = Ligne
  /\ \A b, B : R!ReferenceValide(b, B) <=> ReferenceValide(b, B)
  /\ \A l, j : R!Expiree(l, j) <=> Expiree(l, j)
BY DEF R!Ligne, R!Etats, Ligne, Etats, R!ReferenceValide, ReferenceValide,
       R!Expiree, Expiree

LEMMA InitSimule == Init => R!InitRegistre
BY TableInitAssumption, MemesLignes DEF Init, R!InitRegistre

LEMMA EcritureSimule ==
  ASSUME IInv, NEW f \in Fiches, NEW l \in Ligne,
         fiches' = [fiches EXCEPT ![f] = l], ReferenceValide(l.bail, baux),
         UNCHANGED <<baux, generes, jour>>
  PROVE  R!NextRegistre
<1>1. fiches'[f] = l
  BY DEF IInv, TypeOK
<1>2. fiches' = [fiches EXCEPT ![f] = fiches'[f]]
  BY <1>1
<1>3. fiches'[f] \in R!Ligne /\ R!ReferenceValide(fiches'[f].bail, baux)
  BY <1>1, MemesLignes
<1>4. R!EcrireLigne(f)
  BY <1>2, <1>3 DEF R!EcrireLigne
<1> QED
  BY <1>4 DEF R!NextRegistre

LEMMA RequeteSimule ==
  ASSUME IInv, NEW r \in Requetes, SuiteRequete(r)
  PROVE  [R!NextRegistre]_(R!registreVars)
<1>1. CASE ChargerBail(r) \/ Relire(r) \/ VerrouillerCandidat(r)
  BY <1>1 DEF ChargerBail, Relire, VerrouillerCandidat, tables, R!registreVars
<1>2. CASE MettreAJour(r)
  <2> DEFINE f == req[r].fiche
             m == req[r].val
             l == Fusion(m, fiches[f])
  <2>1. f \in Fiches /\ m \in MiseAJour /\ UNCHANGED <<baux, generes, jour>>
    BY <1>2 DEF IInv, ValTypee, TypeOK, MettreAJour
  <2>2. CASE Existe(f) /\ (m.bail = Inchange \/ ReferenceValide(m.bail, baux))
    <3>1. fiches[f] \in Ligne /\ ReferenceValide(fiches[f].bail, baux)
      BY <2>1, <2>2 DEF IInv, TypeOK, Existe, IntegriteReferentielle
    <3>2. fiches' = [fiches EXCEPT ![f] = l]
      BY <1>2, <2>2 DEF MettreAJour
    <3> HIDE DEF f, m
    <3>3. l \in Ligne /\ ReferenceValide(l.bail, baux)
      BY <2>1, <2>2, <3>1, FusionTypee, FusionBail
    <3> HIDE DEF l
    <3> QED
      BY <2>1, <3>2, <3>3, EcritureSimule
  <2>3. CASE ~ (Existe(f) /\ (m.bail = Inchange \/ ReferenceValide(m.bail, baux)))
    BY <1>2, <2>3 DEF MettreAJour, R!registreVars
  <2> QED
    BY <2>2, <2>3
<1>3. CASE Inserer(r)
  <2> DEFINE f == req[r].fiche
             l == req[r].val
  <2>1. f \in Fiches /\ l \in Ligne /\ UNCHANGED <<baux, generes, jour>>
    BY <1>3 DEF IInv, ValTypee, TypeOK, Inserer
  <2>2. CASE ~ Existe(f) /\ ReferenceValide(l.bail, baux)
    <3>1. fiches' = [fiches EXCEPT ![f] = l]
      BY <1>3, <2>2 DEF Inserer
    <3> HIDE DEF f, l
    <3> QED
      BY <2>1, <2>2, <3>1, EcritureSimule
  <2>3. CASE ~ (~ Existe(f) /\ ReferenceValide(l.bail, baux))
    BY <1>3, <2>3 DEF Inserer, R!registreVars
  <2> QED
    BY <2>2, <2>3
<1>4. ASSUME NEW f \in Fiches, InsererNouvelle(r, f)
      PROVE  [R!NextRegistre]_(R!registreVars)
  <2> DEFINE l == req[r].val
  <2>1. l \in Ligne /\ UNCHANGED <<baux, generes, jour>>
    BY <1>4 DEF IInv, ValTypee, InsererNouvelle
  <2>2. CASE ReferenceValide(l.bail, baux)
    <3>1. fiches' = [fiches EXCEPT ![f] = l]
      BY <1>4, <2>2 DEF InsererNouvelle
    <3> HIDE DEF l
    <3> QED
      BY <2>1, <2>2, <3>1, EcritureSimule
  <2>3. CASE ~ ReferenceValide(l.bail, baux)
    BY <1>4, <2>3 DEF InsererNouvelle, R!registreVars
  <2> QED
    BY <2>2, <2>3
<1> QED
  BY <1>1, <1>2, <1>3, <1>4 DEF SuiteRequete

LEMMA ValiderSimule ==
  ASSUME IInv, NEW a \in Acteurs, Valider(a)
  PROVE  R!NextRegistre
<1> DEFINE F == tx[a].fiches
           B == tx[a].baux
<1>1. F \in SUBSET Fiches /\ B \in SUBSET Baux
  BY DEF IInv, TypeOK, Transaction
<1>2. R!Effacables(F)
  <2>1. CASE a \in Instances
    BY <2>1, MemesLignes DEF IInv, VerrouLegitime, Existe, R!Effacables
  <2>2. CASE a \in Requetes /\ F = {}
    BY <2>2 DEF R!Effacables
  <2>3. CASE a \in Requetes /\ F # {}
    <3>1. PICK f \in F : TRUE
      BY <2>3
    <3>2. F = {f} /\ f \in Fiches
      BY <1>1, <2>3, <3>1 DEF IInv, ContenuDesTransactions
    <3>3. fiches[f] # Absente /\ fiches[f].etat = "candidat"
      BY <2>3, <3>1 DEF IInv, VerrouLegitime, Existe
    <3> QED
      BY <3>2, <3>3 DEF R!Effacables
  <2> QED
    BY <2>1, <2>2, <2>3 DEF Acteurs
<1>3. B \subseteq {fiches[f].bail : f \in F}
  BY DEF IInv, ContenuDesTransactions
<1>4. \A f \in Fiches \ F : fiches[f] # Absente => fiches[f].bail \notin B
  BY DEF Valider, SansReference, Existe
<1>5. R!Effacer(F, B)
  BY <1>2, <1>3, <1>4 DEF Valider, R!Effacer
<1> HIDE DEF F, B
<1> QED
  BY <1>1, <1>5 DEF R!NextRegistre

LEMMA PasSimule == IInv /\ [Next]_vars => [R!NextRegistre]_(R!registreVars)
<1> SUFFICES ASSUME IInv, [Next]_vars PROVE [R!NextRegistre]_(R!registreVars)
  OBVIOUS
<1> USE DEF tables, R!registreVars
<1>1. ASSUME NEW r \in Requetes, DebutRequete(r)
      PROVE  UNCHANGED R!registreVars
  BY <1>1 DEF DebutRequete, Charger, CreateLocataire, UpdateLocataire, RattacherBail,
     SignerBail, MarquerBailEnvoye, MarquerResiliationEnvoyee, MarquerSortie,
     ReintegrerLocataire, DefinirConservationProlongee, SupprimerCandidat
<1>2. ASSUME NEW r \in Requetes, SuiteRequete(r)
      PROVE  [R!NextRegistre]_(R!registreVars)
  BY <1>2, RequeteSimule
<1>3. ASSUME NEW r \in Requetes, Interrompre(r)
      PROVE  UNCHANGED R!registreVars
  BY <1>3 DEF Interrompre
<1>4. ASSUME NEW a \in Acteurs, SuiteTransaction(a)
      PROVE  [R!NextRegistre]_(R!registreVars)
  BY <1>4, ValiderSimule DEF SuiteTransaction, ConstaterOrphelins, Annuler
<1>5. ASSUME NEW i \in Instances, Demarrer(i) \/ SuitePurge(i) \/ Arreter(i)
      PROVE  UNCHANGED R!registreVars
  BY <1>5 DEF Demarrer, SuitePurge, VerrouillerExpirees, EchouerPurge, EnvoyerRappel,
     Arreter
<1>6. ASSUME NEW b \in Baux, SaveGeneration(b)
      PROVE  R!NextRegistre
  BY <1>6 DEF IInv, ClesConnues, SaveGeneration, R!PublierBail, R!NextRegistre
<1>7. CASE PasserJour
  BY <1>7 DEF PasserJour, R!PasserJour, R!NextRegistre
<1>8. CASE UNCHANGED vars
  BY <1>8 DEF vars
<1> QED
  BY <1>1, <1>2, <1>3, <1>4, <1>5, <1>6, <1>7, <1>8 DEF Next

\* The handlers, the deleting transactions and the instances, in every
\* interleaving, implement the registry: only unsigned candidates and expired,
\* unprotected tenants are deleted, a lease only with its last record.
THEOREM Raffinement == Spec => RespecteRegistre
BY InitSimule, Invariance, PasSimule, PTL DEF Spec, RespecteRegistre, R!SpecRegistre

-----------------------------------------------------------------------------
(***************************************************************************)
(* One edit of a record at a time: what a handler decided on its first    *)
(* read still fits the row it writes, or the row is gone.                  *)
(***************************************************************************)
Paire(l) == l.etat = "sorti" <=> l.sortie # Nul

MemesFaits(l, m) ==
  /\ m.etat = l.etat /\ m.sortie = l.sortie /\ m.conservation = l.conservation
  /\ m.bailEnvoye = l.bailEnvoye /\ m.congeEnvoye = l.congeEnvoye

\* What the handler op may make of row l.
Transition(op, l, m) ==
  /\ Paire(m)
  /\ m.etat = "candidat" => l.etat = "candidat"
  /\ l.etat = "candidat" => m.etat # "sorti"
  /\ op = "modifier" => MemesFaits(l, m)

Dessein(r) ==
  LET f == req[r].fiche IN
  /\ req[r].phase \in {"relecture", "maj", "insertion"} => req[r].op # "creer"
  /\ req[r].phase = "creation" => req[r].op = "creer"
  /\ req[r].phase \in {"bail", "creation", "relecture", "insertion"} =>
       /\ Paire(req[r].val)
       /\ req[r].op # "creer" =>
            f \in Fiches /\ (Existe(f) => Transition(req[r].op, fiches[f], req[r].val))
  /\ req[r].phase = "maj" =>
       f \in Fiches /\ (Existe(f) =>
         Transition(req[r].op, fiches[f], Fusion(req[r].val, fiches[f])))

Desseins == \A r \in Requetes : Dessein(r)

\* A handler that has read a record it is going to save.
EnEdition(r) ==
  req[r].phase \in {"bail", "relecture", "maj", "insertion"} /\ req[r].op # "creer"

\* The owner does not edit a record in two places at once; creations, deletions
\* and edits of other records go on meanwhile.  With one request at a time it
\* always holds.
UneEditionParFiche ==
  \A r, s \in Requetes :
    EnEdition(r) /\ EnEdition(s) /\ req[r].fiche = req[s].fiche => r = s

\* The columns that differ, merged into the row, give the entity back.
LEMMA FusionDifference ==
  ASSUME NEW e \in Ligne, NEW l \in Ligne, NEW op, Transition(op, l, e)
  PROVE  Transition(op, l, Fusion(Difference(e, l), l))
<1> DEFINE m == Fusion(Difference(e, l), l)
<1>1. MemesFaits(e, m)
  BY ValeursAssumption DEF MemesFaits, Fusion, Difference, Colonne, Garde, Ligne
<1> QED
  BY <1>1 DEF Transition, MemesFaits, Paire

\* Rows that stay as they are or go.
LEMMA RestentOuPartent ==
  ASSUME NEW r \in Requetes, Dessein(r), PaireEtatSortie,
         \A f \in Fiches : fiches'[f] = fiches[f] \/ fiches'[f] = Absente,
         req'[r] = req[r] \/ req'[r] = Libre
  PROVE  /\ Dessein(r)' /\ PaireEtatSortie'
         /\ \A f \in Fiches : Existe(f) /\ Existe(f)' => fiches'[f] = fiches[f]
<1>1. PaireEtatSortie' /\ \A f \in Fiches : Existe(f) /\ Existe(f)' => fiches'[f] = fiches[f]
  BY DEF PaireEtatSortie, Existe
<1>2. CASE req'[r] = Libre
  BY <1>1, <1>2 DEF Dessein, Libre
<1>3. CASE req'[r] = req[r]
  BY <1>1, <1>3 DEF Dessein, Existe, Transition, Paire, MemesFaits, Fusion, Garde
<1> QED
  BY <1>1, <1>2, <1>3

LEMMA DebutSeul ==
  ASSUME IInv, NEW r \in Requetes, PaireEtatSortie, DebutRequete(r)
  PROVE  Dessein(r)' /\ UNCHANGED fiches
<1>0. req \in [Requetes -> EtatRequete]
  BY DEF IInv, TypeOK
<1>1. ASSUME NEW b \in Baux, NEW i \in Identites, CreateLocataire(r, b, i)
      PROVE  Dessein(r)' /\ UNCHANGED fiches
  BY <1>0, <1>1 DEF CreateLocataire, Dessein, Naissance, Paire, tables
<1>2. ASSUME NEW op \in ToutesOperations \ {"creer"}, NEW f \in Fiches, NEW admise,
             NEW phase \in {"bail", "relecture", "suppression"}, NEW entite,
             Charger(r, op, f, admise, phase, entite),
             phase # "suppression" /\ admise /\ fiches[f] \in Ligne /\ Paire(fiches[f]) =>
               Transition(op, fiches[f], entite)
      PROVE  Dessein(r)' /\ UNCHANGED fiches
  <2>1. /\ req'[r] = [phase |-> phase, op |-> op, fiche |-> f, val |-> entite]
        /\ fiches' = fiches /\ admise /\ Existe(f)
    BY <1>0, <1>2 DEF Charger, tables
  <2>2. fiches[f] \in Ligne /\ Paire(fiches[f])
    BY <2>1 DEF IInv, TypeOK, Existe, PaireEtatSortie, Paire
  <2>3. phase # "suppression" => Transition(op, fiches[f], entite)
    BY <1>2, <2>1, <2>2
  <2> QED
    BY <2>1, <2>3 DEF Dessein, Existe, Transition, Paire, MemesFaits
<1> USE DEF Ligne, Transition, Paire, MemesFaits, ToutesOperations
<1>3. ASSUME NEW f \in Fiches, NEW i \in Identites,
             \/ UpdateLocataire(r, f, i)
             \/ \E b \in Baux \cup {Nul} : RattacherBail(r, f, i, b)
      PROVE  Dessein(r)' /\ UNCHANGED fiches
  BY <1>2, <1>3 DEF UpdateLocataire, RattacherBail
<1>4. ASSUME NEW f \in Fiches, SignerBail(r, f)
      PROVE  Dessein(r)' /\ UNCHANGED fiches
  BY <1>2, <1>4 DEF SignerBail
<1>5. ASSUME NEW f \in Fiches, MarquerBailEnvoye(r, f) \/ MarquerResiliationEnvoyee(r, f)
      PROVE  Dessein(r)' /\ UNCHANGED fiches
  BY <1>2, <1>5 DEF MarquerBailEnvoye, MarquerResiliationEnvoyee
<1>6. ASSUME NEW f \in Fiches, NEW d \in Dates, MarquerSortie(r, f, d)
      PROVE  Dessein(r)' /\ UNCHANGED fiches
  BY <1>2, <1>6, ValeursAssumption DEF MarquerSortie
<1>7. ASSUME NEW f \in Fiches, ReintegrerLocataire(r, f)
      PROVE  Dessein(r)' /\ UNCHANGED fiches
  BY <1>2, <1>7 DEF ReintegrerLocataire
<1>8. ASSUME NEW f \in Fiches, NEW p \in BOOLEAN, DefinirConservationProlongee(r, f, p)
      PROVE  Dessein(r)' /\ UNCHANGED fiches
  BY <1>2, <1>8 DEF DefinirConservationProlongee
<1>9. ASSUME NEW f \in Fiches, SupprimerCandidat(r, f)
      PROVE  Dessein(r)' /\ UNCHANGED fiches
  BY <1>2, <1>9 DEF SupprimerCandidat
<1> QED
  BY <1>1, <1>3, <1>4, <1>5, <1>6, <1>7, <1>8, <1>9 DEF DebutRequete

LEMMA SuiteSeule ==
  ASSUME IInv, NEW r \in Requetes, Dessein(r), PaireEtatSortie, SuiteRequete(r)
  PROVE  /\ Dessein(r)' /\ PaireEtatSortie'
         /\ \A f \in Fiches : Existe(f) /\ Existe(f)' =>
              fiches'[f] = fiches[f] \/ Transition(req[r].op, fiches[f], fiches'[f])
<1>0. req \in [Requetes -> EtatRequete] /\ fiches \in [Fiches -> Ligne \cup {Absente}]
  BY DEF IInv, TypeOK
<1>1. CASE ChargerBail(r) \/ VerrouillerCandidat(r)
  <2>1. fiches' = fiches
    BY <1>1 DEF ChargerBail, VerrouillerCandidat, tables
  <2>2. \/ req'[r] = Libre
        \/ req'[r] = [req[r] EXCEPT !.phase = "transaction"]
        \/ req[r].op = "creer" /\ req'[r] = [req[r] EXCEPT !.phase = "creation"]
           /\ req[r].phase = "bail"
        \/ req[r].op # "creer" /\ req'[r] = [req[r] EXCEPT !.phase = "relecture"]
           /\ req[r].phase = "bail"
    BY <1>0, <1>1 DEF ChargerBail, VerrouillerCandidat, Repondre, Avancer
  <2>3. req[r] \in EtatRequete
    BY <1>0
  <2>4. Dessein(r)'
    BY <2>1, <2>2, <2>3
       DEF Dessein, Libre, EtatRequete, Existe, Transition, Paire, MemesFaits, Fusion, Garde
  <2> QED
    BY <2>1, <2>4 DEF PaireEtatSortie, Existe
<1>2. CASE Relire(r)
  <2> DEFINE f == req[r].fiche
             e == req[r].val
  <2>1. /\ req[r].phase = "relecture" /\ fiches' = fiches
        /\ e \in Ligne /\ f \in Fiches /\ req[r].op # "creer" /\ req[r] \in EtatRequete
    BY <1>0, <1>2 DEF Relire, tables, IInv, ValTypee, Dessein
  <2>2. CASE Existe(f)
    <3>1. req'[r] = [phase |-> "maj", op |-> req[r].op, fiche |-> f,
                     val |-> Difference(e, fiches[f])]
      BY <1>0, <1>2, <2>2 DEF Relire
    <3>2. fiches[f] \in Ligne /\ Transition(req[r].op, fiches[f], e)
      BY <1>0, <2>1, <2>2 DEF Dessein, Existe
    <3>3. Transition(req[r].op, fiches[f], Fusion(Difference(e, fiches[f]), fiches[f]))
      BY <2>1, <3>2, FusionDifference
    <3> HIDE DEF f, e
    <3>4. Dessein(r)'
      BY <2>1, <3>1, <3>3
         DEF Dessein, Existe, Transition, Paire, MemesFaits, Fusion, Garde
    <3> QED
      BY <2>1, <3>4 DEF PaireEtatSortie, Existe
  <2>3. CASE ~ Existe(f)
    <3>1. req'[r] = [req[r] EXCEPT !.phase = "insertion"]
      BY <1>0, <1>2, <2>3 DEF Relire
    <3>2. /\ req'[r].phase = "insertion" /\ req'[r].op = req[r].op
          /\ req'[r].fiche = f /\ req'[r].val = e
      BY <2>1, <3>1 DEF EtatRequete
    <3>3. Dessein(r)'
      BY <2>1, <2>3, <3>2
         DEF Dessein, Existe, Transition, Paire, MemesFaits, Fusion, Garde
    <3> QED
      BY <2>1, <3>3 DEF PaireEtatSortie, Existe
  <2> QED
    BY <2>2, <2>3
<1>3. CASE MettreAJour(r) \/ Inserer(r) \/ \E f \in Fiches : InsererNouvelle(r, f)
  <2>1. req'[r] = Libre
    BY <1>0, <1>3 DEF MettreAJour, Inserer, InsererNouvelle, Repondre
  <2>2. Dessein(r)'
    BY <2>1 DEF Dessein, Libre
  <2>3. ASSUME NEW f \in Fiches
        PROVE  \/ fiches'[f] = fiches[f]
               \/ Existe(f) /\ Transition(req[r].op, fiches[f], fiches'[f])
               \/ ~ Existe(f) /\ Paire(fiches'[f])
    <3>1. CASE MettreAJour(r)
      BY <1>0, <3>1 DEF MettreAJour, Dessein
    <3>2. CASE Inserer(r)
      BY <1>0, <3>2 DEF Inserer, Dessein
    <3>3. ASSUME NEW g \in Fiches, InsererNouvelle(r, g)
          PROVE  fiches'[f] = fiches[f] \/ (~ Existe(f) /\ Paire(fiches'[f]))
      <4>1. req[r].phase = "creation" /\ ~ Existe(g)
        BY <3>3 DEF InsererNouvelle, IInv, ClesConnues
      <4>2. Paire(req[r].val)
        BY <4>1 DEF Dessein
      <4>3. fiches' = [fiches EXCEPT ![g] = req[r].val] \/ fiches' = fiches
        BY <3>3 DEF InsererNouvelle
      <4>4. CASE f = g /\ fiches' = [fiches EXCEPT ![g] = req[r].val]
        <5>1. fiches'[f] = req[r].val
          BY <1>0, <4>4
        <5>2. Paire(fiches'[f])
          BY <4>2, <5>1 DEF Paire
        <5> QED
          BY <4>1, <4>4, <5>2
      <4>5. CASE f # g \/ fiches' = fiches
        BY <1>0, <4>3, <4>5
      <4> QED
        BY <4>3, <4>4, <4>5
    <3> QED
      BY <1>3, <3>1, <3>2, <3>3
  <2>4. PaireEtatSortie'
    BY <2>3 DEF PaireEtatSortie, Existe, Transition, Paire
  <2> QED
    BY <2>2, <2>3, <2>4
<1> QED
  BY <1>1, <1>2, <1>3 DEF SuiteRequete

\* Another request writes none of the rows this one is going to save.
LEMMA AutreRequete ==
  ASSUME IInv, NEW r \in Requetes, NEW s \in Requetes, r # s,
         Dessein(r), Dessein(s), UneEditionParFiche, DebutRequete(s) \/ SuiteRequete(s)
  PROVE  req'[r] = req[r] /\ Dessein(r)'
<1>0. req \in [Requetes -> EtatRequete] /\ fiches \in [Fiches -> Ligne \cup {Absente}]
  BY DEF IInv, TypeOK
<1>1. req'[r] = req[r]
  BY <1>0 DEF DebutRequete, CreateLocataire, UpdateLocataire, RattacherBail, SignerBail,
       MarquerBailEnvoye, MarquerResiliationEnvoyee, MarquerSortie, ReintegrerLocataire,
       DefinirConservationProlongee, SupprimerCandidat, Charger, SuiteRequete, ChargerBail,
       Relire, MettreAJour, Inserer, InsererNouvelle, VerrouillerCandidat, Repondre, Avancer
<1>2. ASSUME EnEdition(r)
      PROVE  fiches'[req[r].fiche] = fiches[req[r].fiche]
  <2> DEFINE f == req[r].fiche
  <2>1. CASE \/ DebutRequete(s)
             \/ ChargerBail(s) \/ Relire(s) \/ VerrouillerCandidat(s)
    BY <2>1 DEF DebutRequete, CreateLocataire, UpdateLocataire, RattacherBail, SignerBail,
         MarquerBailEnvoye, MarquerResiliationEnvoyee, MarquerSortie, ReintegrerLocataire,
         DefinirConservationProlongee, SupprimerCandidat, Charger, ChargerBail, Relire,
         VerrouillerCandidat, tables
  <2>2. CASE MettreAJour(s) \/ Inserer(s)
    <3>1. EnEdition(s)
      BY <2>2 DEF MettreAJour, Inserer, EnEdition, Dessein
    <3>2. req[s].fiche # f
      BY <1>2, <3>1 DEF UneEditionParFiche
    <3>3. CASE MettreAJour(s)
      BY <1>0, <3>2, <3>3 DEF MettreAJour
    <3>4. CASE Inserer(s)
      BY <1>0, <3>2, <3>4 DEF Inserer
    <3> QED
      BY <2>2, <3>3, <3>4
  <2>3. ASSUME NEW g \in Fiches, InsererNouvelle(s, g)
        PROVE  fiches'[f] = fiches[f]
    <3>1. f \in ids /\ f \in Fiches
      BY <1>2 DEF EnEdition, IInv, ValTypee, TypeOK
    <3>2. g # f /\ (fiches' = [fiches EXCEPT ![g] = req[s].val] \/ fiches' = fiches)
      BY <2>3, <3>1 DEF InsererNouvelle
    <3> QED
      BY <1>0, <3>1, <3>2
  <2> QED
    BY <2>1, <2>2, <2>3 DEF SuiteRequete
<1>3. CASE EnEdition(r)
  BY <1>1, <1>2, <1>3
     DEF EnEdition, Dessein, Existe, Transition, Paire, MemesFaits, Fusion, Garde
<1>4. CASE ~ EnEdition(r)
  BY <1>1, <1>4 DEF EnEdition, Dessein, Paire
<1> QED
  BY <1>1, <1>3, <1>4

\* A step changes rows only as the request that takes it may.
AuteurDuPas(s) ==
  /\ \A r \in Requetes : r # s => req'[r] = req[r]
  /\ \A f \in Fiches : Existe(f) /\ Existe(f)' =>
       fiches'[f] = fiches[f] \/ Transition(req[s].op, fiches[f], fiches'[f])

\* The step of a request.
LEMMA PasRequete ==
  ASSUME IInv, Desseins, PaireEtatSortie, UneEditionParFiche,
         NEW s \in Requetes, DebutRequete(s) \/ SuiteRequete(s)
  PROVE  Desseins' /\ PaireEtatSortie' /\ AuteurDuPas(s)
<1>1. Dessein(s)
  BY DEF Desseins
<1>2. CASE DebutRequete(s)
  <2>1. Dessein(s)' /\ fiches' = fiches
    BY <1>2, DebutSeul
  <2>2. \A r \in Requetes : r # s => req'[r] = req[r] /\ Dessein(r)'
    BY <1>2, AutreRequete DEF Desseins
  <2> QED
    BY <2>1, <2>2 DEF Desseins, PaireEtatSortie, Existe, AuteurDuPas
<1>3. CASE SuiteRequete(s)
  <2>1. /\ Dessein(s)' /\ PaireEtatSortie'
        /\ \A f \in Fiches : Existe(f) /\ Existe(f)' =>
             fiches'[f] = fiches[f] \/ Transition(req[s].op, fiches[f], fiches'[f])
    BY <1>1, <1>3, SuiteSeule
  <2>2. \A r \in Requetes : r # s => req'[r] = req[r] /\ Dessein(r)'
    BY <1>3, AutreRequete DEF Desseins
  <2> QED
    BY <2>1, <2>2 DEF Desseins, AuteurDuPas
<1> QED
  BY <1>2, <1>3

\* Every other step leaves the rows or removes some, and starts no request.
LEMMA PasAutre ==
  ASSUME IInv, [Next]_vars, ~ \E s \in Requetes : DebutRequete(s) \/ SuiteRequete(s)
  PROVE  /\ \A f \in Fiches : fiches'[f] = fiches[f] \/ fiches'[f] = Absente
         /\ \A r \in Requetes : req'[r] = req[r] \/ req'[r] = Libre
<1>0. req \in [Requetes -> EtatRequete] /\ fiches \in [Fiches -> Ligne \cup {Absente}]
  BY DEF IInv, TypeOK
<1>1. ASSUME NEW s \in Requetes, Interrompre(s)
      PROVE  fiches' = fiches /\ \A r \in Requetes : req'[r] = req[r] \/ req'[r] = Libre
  BY <1>0, <1>1 DEF Interrompre, Repondre, tables
<1>2. ASSUME NEW a \in Acteurs, SuiteTransaction(a)
      PROVE  /\ \A f \in Fiches : fiches'[f] = fiches[f] \/ fiches'[f] = Absente
             /\ \A r \in Requetes : req'[r] = req[r] \/ req'[r] = Libre
  <2>1. Valider(a) \/ fiches' = fiches
    BY <1>2 DEF SuiteTransaction, ConstaterOrphelins, Annuler, tables
  <2>2. req' = req \/ Repondre(a)
    BY <1>2 DEF SuiteTransaction, ConstaterOrphelins, Valider, Annuler, Continuer
  <2>3. \A r \in Requetes : req'[r] = req[r] \/ req'[r] = Libre
    BY <1>0, <2>2 DEF Repondre
  <2> QED
    BY <2>1, <2>3 DEF Valider
<1>3. CASE \/ \E i \in Instances : Demarrer(i) \/ SuitePurge(i) \/ Arreter(i)
           \/ \E b \in Baux : SaveGeneration(b)
           \/ PasserJour
           \/ UNCHANGED vars
  BY <1>3 DEF Demarrer, SuitePurge, VerrouillerExpirees, EchouerPurge, EnvoyerRappel, Arreter,
              SaveGeneration, PasserJour, tables, vars
<1> QED
  BY <1>1, <1>2, <1>3 DEF Next

\* What the rows and the requests go through in any step.
LEMMA PasEdition ==
  ASSUME IInv, [Next]_vars, Desseins, PaireEtatSortie, UneEditionParFiche
  PROVE  /\ Desseins' /\ PaireEtatSortie'
         /\ \/ \A f \in Fiches : Existe(f) /\ Existe(f)' => fiches'[f] = fiches[f]
            \/ \E s \in Requetes : AuteurDuPas(s)
<1>1. CASE \E s \in Requetes : DebutRequete(s) \/ SuiteRequete(s)
  BY <1>1, PasRequete
<1>2. CASE ~ \E s \in Requetes : DebutRequete(s) \/ SuiteRequete(s)
  <2>1. /\ \A f \in Fiches : fiches'[f] = fiches[f] \/ fiches'[f] = Absente
        /\ \A r \in Requetes : req'[r] = req[r] \/ req'[r] = Libre
    BY <1>2, PasAutre
  <2>2. /\ PaireEtatSortie'
        /\ \A f \in Fiches : Existe(f) /\ Existe(f)' => fiches'[f] = fiches[f]
    BY <2>1 DEF PaireEtatSortie, Existe
  <2>3. \A r \in Requetes : Dessein(r)'
    BY <2>1, RestentOuPartent DEF Desseins
  <2> QED
    BY <2>2, <2>3 DEF Desseins
<1> QED
  BY <1>1, <1>2

\* The invariant of the three theorems that follow.
LEMMA Edition ==
  ASSUME \A f \in Fiches : FichesInit[f] # Absente => Paire(FichesInit[f])
  PROVE  Spec /\ []UneEditionParFiche => [](IInv /\ Desseins /\ PaireEtatSortie)
<1>1. Init => IInv /\ Desseins /\ PaireEtatSortie
  BY InitInv DEF Init, Desseins, Dessein, Libre, PaireEtatSortie, Existe, Paire
<1>2. IInv /\ Desseins /\ PaireEtatSortie /\ UneEditionParFiche /\ [Next]_vars
        => (IInv /\ Desseins /\ PaireEtatSortie)'
  BY PasEdition, NextInv
<1> QED
  BY <1>1, <1>2, PTL DEF Spec

\* As long as no record is edited in two places at once, a date of departure and
\* the state "sorti" come and go together, whatever the other requests and the
\* purges do between the statements of a handler.
THEOREM EtatEtSortie ==
  ASSUME \A f \in Fiches : FichesInit[f] # Absente => Paire(FichesInit[f])
  PROVE  Spec /\ []UneEditionParFiche => []PaireEtatSortie
BY Edition, PTL

\* What one step may make of the state of a record.
VieGardee ==
  \A f \in Fiches : Existe(f) /\ Existe(f)' =>
    /\ fiches'[f].etat = "candidat" => fiches[f].etat = "candidat"
    /\ fiches[f].etat = "candidat" => fiches'[f].etat # "sorti"

\* As long as no record is edited in two places at once nobody becomes a
\* candidate again, and no candidate has left.
THEOREM Cycle ==
  ASSUME \A f \in Fiches : FichesInit[f] # Absente => Paire(FichesInit[f])
  PROVE  Spec /\ []UneEditionParFiche => CycleDeVie
<1>1. ASSUME IInv, Desseins, PaireEtatSortie, UneEditionParFiche, [Next]_vars
      PROVE  VieGardee
  <2>1. \/ \A f \in Fiches : Existe(f) /\ Existe(f)' => fiches'[f] = fiches[f]
        \/ \E s \in Requetes : AuteurDuPas(s)
    BY <1>1, PasEdition
  <2> QED
    BY <1>1, <2>1 DEF VieGardee, AuteurDuPas, Transition, PaireEtatSortie
<1>2. IInv /\ Desseins /\ PaireEtatSortie /\ UneEditionParFiche /\ [Next]_vars
        => [VieGardee]_vars
  BY <1>1
<1>3. Spec /\ []UneEditionParFiche => [][VieGardee]_vars
  BY <1>2, Edition, PTL DEF Spec
<1>4. ([][VieGardee]_vars) => CycleDeVie
  BY PTL DEF CycleDeVie, VieGardee
<1> QED
  BY <1>3, <1>4, PTL

\* What one step of the edit modal leaves as it was.
FaitsGardes ==
  \A r \in Requetes : req[r].op = "modifier" /\ req'[r] # req[r] =>
    \A f \in Fiches : Existe(f) /\ Existe(f)' =>
      /\ fiches'[f].etat = fiches[f].etat
      /\ fiches'[f].sortie = fiches[f].sortie
      /\ fiches'[f].conservation = fiches[f].conservation
      /\ fiches'[f].bailEnvoye = fiches[f].bailEnvoye
      /\ fiches'[f].congeEnvoye = fiches[f].congeEnvoye

\* As long as no record is edited in two places at once, the edit modal never
\* overwrites a recorded fact.
THEOREM Modale ==
  ASSUME \A f \in Fiches : FichesInit[f] # Absente => Paire(FichesInit[f])
  PROVE  Spec /\ []UneEditionParFiche => FaitsHorsModale
<1>1. ASSUME IInv, Desseins, PaireEtatSortie, UneEditionParFiche, [Next]_vars
      PROVE  FaitsGardes
  <2>1. \/ \A f \in Fiches : Existe(f) /\ Existe(f)' => fiches'[f] = fiches[f]
        \/ \E s \in Requetes : AuteurDuPas(s)
    BY <1>1, PasEdition
  <2>2. ASSUME NEW s \in Requetes, AuteurDuPas(s)
        PROVE  FaitsGardes
    BY <2>2 DEF AuteurDuPas, FaitsGardes, Transition, MemesFaits
  <2> QED
    BY <2>1, <2>2 DEF FaitsGardes
<1>2. IInv /\ Desseins /\ PaireEtatSortie /\ UneEditionParFiche /\ [Next]_vars
        => [FaitsGardes]_vars
  BY <1>1
<1>3. Spec /\ []UneEditionParFiche => [][FaitsGardes]_vars
  BY <1>2, Edition, PTL DEF Spec
<1>4. ([][FaitsGardes]_vars) => FaitsHorsModale
  BY PTL DEF FaitsHorsModale, FaitsGardes
<1> QED
  BY <1>3, <1>4, PTL

-----------------------------------------------------------------------------
(***************************************************************************)
(* The lease of a record.  Where the edit modal is not used, every entity  *)
(* on its way to the table has the lease of its row: of the row as it is,  *)
(* or as it was before a purge took it.                                    *)
(***************************************************************************)
Entites == {"relecture", "insertion"}

BailFige ==
  /\ \A r \in Requetes :
       /\ req[r].phase = "bail" => req[r].op = "creer"
       /\ req[r].phase = "maj" => req[r].val.bail = Inchange
       /\ req[r].phase \in Entites /\ Existe(req[r].fiche) =>
            fiches[req[r].fiche].bail = req[r].val.bail
  /\ \A r, s \in Requetes :
       /\ req[r].phase \in Entites
       /\ req[s].phase \in Entites
       /\ req[r].fiche = req[s].fiche
       => req[r].val.bail = req[s].val.bail

\* A record that stays keeps its lease.
BauxFixes ==
  \A f \in Fiches : Existe(f) /\ Existe(f)' => fiches'[f].bail = fiches[f].bail

\* Request r goes on with e; the others find the lease they knew, if the row
\* is there.
LEMMA FigeRequete ==
  ASSUME BailFige, NEW r \in Requetes, NEW e, req \in [Requetes -> EtatRequete],
         req' = [req EXCEPT ![r] = e],
         e.phase = "bail" => e.op = "creer",
         e.phase = "maj" => e.val.bail = Inchange,
         e.phase \in Entites =>
           /\ fiches'[e.fiche] # Absente => fiches'[e.fiche].bail = e.val.bail
           /\ \A s \in Requetes \ {r} :
                req[s].phase \in Entites /\ req[s].fiche = e.fiche => req[s].val.bail = e.val.bail,
         \A s \in Requetes \ {r} : req[s].phase \in Entites /\ fiches'[req[s].fiche] # Absente =>
           fiches'[req[s].fiche].bail = req[s].val.bail
  PROVE  BailFige'
<1>1. req'[r] = e /\ \A s \in Requetes \ {r} : req'[s] = req[s]
  OBVIOUS
<1> HIDE DEF Entites
<1>2. ASSUME NEW s \in Requetes
      PROVE  /\ req'[s].phase = "bail" => req'[s].op = "creer"
             /\ req'[s].phase = "maj" => req'[s].val.bail = Inchange
             /\ req'[s].phase \in Entites /\ fiches'[req'[s].fiche] # Absente =>
                  fiches'[req'[s].fiche].bail = req'[s].val.bail
  <2>1. CASE s = r
    BY <1>1, <2>1 DEF Existe
  <2>2. CASE s # r
    BY <1>1, <2>2 DEF BailFige, Existe
  <2> QED
    BY <2>1, <2>2
<1>3. ASSUME NEW s \in Requetes, NEW t \in Requetes,
             req'[s].phase \in Entites, req'[t].phase \in Entites, req'[s].fiche = req'[t].fiche
      PROVE  req'[s].val.bail = req'[t].val.bail
  BY <1>1, <1>3 DEF BailFige
<1> QED
  BY <1>2, <1>3 DEF BailFige, Existe, Entites

\* Rows that stay as they are or go, requests that wait or answer.
LEMMA FigeCalme ==
  ASSUME BailFige, IInv,
         \A f \in Fiches : fiches'[f] = fiches[f] \/ fiches'[f] = Absente,
         \A r \in Requetes : req'[r] = req[r] \/ req'[r] = Libre
  PROVE  BailFige' /\ BauxFixes
<1>1. BauxFixes
  BY DEF BauxFixes, Existe
<1>2. \A r \in Requetes : req[r].phase \in Entites => req[r].fiche \in Fiches
  BY DEF IInv, ValTypee, TypeOK, Entites
<1>3. \A r \in Requetes : req'[r].phase \in Entites \cup {"bail", "maj"} => req'[r] = req[r]
  BY DEF Libre, Entites
<1> QED
  BY <1>1, <1>2, <1>3 DEF BailFige, Existe

LEMMA FigeDebut ==
  ASSUME "modifier" \notin Operations, IInv, BailFige, NEW r \in Requetes, DebutRequete(r)
  PROVE  BailFige' /\ BauxFixes
<1>0. req \in [Requetes -> EtatRequete] /\ fiches \in [Fiches -> Ligne \cup {Absente}]
  BY DEF IInv, TypeOK
<1>1. ASSUME NEW b \in Baux, NEW i \in Identites, CreateLocataire(r, b, i)
      PROVE  BailFige' /\ BauxFixes
  <2> DEFINE e == [phase |-> "bail", op |-> "creer", fiche |-> Nul, val |-> Naissance(b, i)]
  <2>1. req' = [req EXCEPT ![r] = e] /\ fiches' = fiches
    BY <1>1 DEF CreateLocataire, tables
  <2>2. e.phase = "bail" /\ e.op = "creer" /\ e.phase \notin Entites
    BY DEF Entites
  <2> HIDE DEF e
  <2>3. BailFige'
    BY <1>0, <2>1, <2>2, FigeRequete DEF BailFige, Existe
  <2> QED
    BY <2>1, <2>3 DEF BauxFixes
<1>2. ASSUME NEW op, NEW f \in Fiches, NEW admise, NEW phase \in {"relecture", "suppression"},
             NEW entite, fiches[f] \in Ligne => entite.bail = fiches[f].bail,
             Charger(r, op, f, admise, phase, entite)
      PROVE  BailFige' /\ BauxFixes
  <2> DEFINE e == [phase |-> phase, op |-> op, fiche |-> f, val |-> entite]
  <2>1. req' = [req EXCEPT ![r] = e] /\ fiches' = fiches /\ Existe(f)
    BY <1>2 DEF Charger, tables
  <2>2. /\ e.phase = phase /\ e.fiche = f /\ e.val.bail = fiches[f].bail
        /\ e.phase # "bail" /\ e.phase # "maj"
    BY <1>0, <1>2, <2>1 DEF Existe
  <2> HIDE DEF e
  <2>3. BailFige'
    BY <1>0, <2>1, <2>2, FigeRequete DEF BailFige, Existe
  <2> QED
    BY <2>1, <2>3 DEF BauxFixes
<1> USE DEF Ligne
<1>3. ASSUME NEW f \in Fiches,
             \/ \E i \in Identites : UpdateLocataire(r, f, i)
             \/ \E i \in Identites, b \in Baux \cup {Nul} : RattacherBail(r, f, i, b)
      PROVE  FALSE
  BY <1>3 DEF UpdateLocataire, RattacherBail, Charger
<1>4. ASSUME NEW f \in Fiches,
             SignerBail(r, f) \/ MarquerBailEnvoye(r, f) \/ MarquerResiliationEnvoyee(r, f)
      PROVE  BailFige' /\ BauxFixes
  BY <1>2, <1>4 DEF SignerBail, MarquerBailEnvoye, MarquerResiliationEnvoyee
<1>5. ASSUME NEW f \in Fiches, NEW d \in Dates, MarquerSortie(r, f, d)
      PROVE  BailFige' /\ BauxFixes
  BY <1>2, <1>5 DEF MarquerSortie
<1>6. ASSUME NEW f \in Fiches, ReintegrerLocataire(r, f)
      PROVE  BailFige' /\ BauxFixes
  BY <1>2, <1>6 DEF ReintegrerLocataire
<1>7. ASSUME NEW f \in Fiches, NEW p \in BOOLEAN, DefinirConservationProlongee(r, f, p)
      PROVE  BailFige' /\ BauxFixes
  BY <1>2, <1>7 DEF DefinirConservationProlongee
<1>8. ASSUME NEW f \in Fiches, SupprimerCandidat(r, f)
      PROVE  BailFige' /\ BauxFixes
  BY <1>2, <1>8 DEF SupprimerCandidat
<1> QED
  BY <1>1, <1>3, <1>4, <1>5, <1>6, <1>7, <1>8 DEF DebutRequete

LEMMA FigeSuite ==
  ASSUME IInv, BailFige, NEW r \in Requetes, SuiteRequete(r)
  PROVE  BailFige' /\ BauxFixes
<1>0. req \in [Requetes -> EtatRequete] /\ fiches \in [Fiches -> Ligne \cup {Absente}]
  BY DEF IInv, TypeOK
<1>1. CASE ChargerBail(r) \/ VerrouillerCandidat(r)
  <2>1. fiches' = fiches
    BY <1>1 DEF ChargerBail, VerrouillerCandidat, tables
  <2>2. \/ req' = [req EXCEPT ![r] = Libre]
        \/ req' = [req EXCEPT ![r] = [req[r] EXCEPT !.phase = "transaction"]]
        \/ req' = [req EXCEPT ![r] = [req[r] EXCEPT !.phase = "creation"]]
    BY <1>1 DEF ChargerBail, VerrouillerCandidat, Repondre, Avancer, BailFige
  <2>3. PICK e : req' = [req EXCEPT ![r] = e] /\ e.phase \in {"libre", "transaction", "creation"}
    <3>1. req[r] \in EtatRequete
      BY <1>0
    <3> DEFINE E(p) == [req[r] EXCEPT !.phase = p]
    <3>2. E("transaction").phase = "transaction" /\ E("creation").phase = "creation"
          /\ Libre.phase = "libre"
      BY <3>1 DEF EtatRequete, Libre
    <3>3. \/ req' = [req EXCEPT ![r] = Libre]
          \/ req' = [req EXCEPT ![r] = E("transaction")]
          \/ req' = [req EXCEPT ![r] = E("creation")]
      BY <2>2
    <3> HIDE DEF E
    <3> QED
      BY <3>2, <3>3
  <2>4. BailFige'
    BY <1>0, <2>1, <2>3, FigeRequete DEF BailFige, Existe, Entites
  <2> QED
    BY <2>1, <2>4 DEF BauxFixes
<1>2. CASE Relire(r)
  <2> DEFINE f == req[r].fiche
             v == req[r].val
  <2>1. /\ req[r].phase \in Entites /\ fiches' = fiches
        /\ v \in Ligne /\ f \in Fiches /\ req[r] \in EtatRequete
    BY <1>0, <1>2 DEF Relire, tables, IInv, ValTypee, TypeOK, Entites
  <2>2. CASE Existe(f)
    <3> DEFINE e == [phase |-> "maj", op |-> req[r].op, fiche |-> f,
                     val |-> Difference(v, fiches[f])]
    <3>1. req' = [req EXCEPT ![r] = e]
      BY <1>2, <2>2 DEF Relire
    <3>2. e.phase = "maj" /\ e.phase \notin Entites /\ e.val.bail = Inchange
      BY <2>1, <2>2 DEF BailFige, Difference, Colonne, Entites
    <3> HIDE DEF e, f, v
    <3>3. BailFige'
      BY <1>0, <2>1, <3>1, <3>2, FigeRequete DEF BailFige, Existe
    <3> QED
      BY <2>1, <3>3 DEF BauxFixes
  <2>3. CASE ~ Existe(f)
    <3> DEFINE e == [req[r] EXCEPT !.phase = "insertion"]
    <3>1. req' = [req EXCEPT ![r] = e]
      BY <1>2, <2>3 DEF Relire
    <3>2. e.phase = "insertion" /\ e.fiche = f /\ e.val = v /\ fiches'[f] = Absente
      BY <2>1, <2>3 DEF EtatRequete, Existe
    <3> HIDE DEF e
    <3>3. BailFige'
      BY <1>0, <2>1, <2>3, <3>1, <3>2, FigeRequete DEF BailFige, Existe
    <3> QED
      BY <2>1, <3>3 DEF BauxFixes
  <2> QED
    BY <2>2, <2>3
<1>3. CASE MettreAJour(r) \/ Inserer(r) \/ \E f \in Fiches : InsererNouvelle(r, f)
  <2>1. req' = [req EXCEPT ![r] = Libre]
    BY <1>3 DEF MettreAJour, Inserer, InsererNouvelle, Repondre
  <2>2. Libre.phase = "libre" /\ "libre" \notin Entites \cup {"bail", "maj"}
    BY DEF Libre, Entites
  <2>3. BauxFixes /\ \A s \in Requetes \ {r} :
          req[s].phase \in Entites /\ fiches'[req[s].fiche] # Absente =>
            fiches'[req[s].fiche].bail = req[s].val.bail
    <3>0. \A s \in Requetes : req[s].phase \in Entites => req[s].fiche \in ids /\ req[s].fiche \in Fiches
      BY DEF IInv, ValTypee, TypeOK, Entites
    <3>1. CASE MettreAJour(r)
      <4> DEFINE f == req[r].fiche
                 m == req[r].val
      <4>1. /\ m.bail = Inchange
            /\ \/ fiches' = fiches
               \/ Existe(f) /\ fiches' = [fiches EXCEPT ![f] = Fusion(m, fiches[f])]
        BY <3>1 DEF MettreAJour, BailFige
      <4>2. Fusion(m, fiches[f]).bail = fiches[f].bail
        BY <4>1 DEF Fusion, Garde
      <4> HIDE DEF f, m
      <4>3. \A g \in Fiches : fiches'[g] # Absente =>
              fiches[g] # Absente /\ fiches'[g].bail = fiches[g].bail
        BY <1>0, <4>1, <4>2 DEF Existe
      <4> QED
        BY <3>0, <4>3 DEF BauxFixes, BailFige, Existe
    <3>2. CASE Inserer(r)
      <4> DEFINE f == req[r].fiche
      <4>1. /\ req[r].phase \in Entites
            /\ \/ fiches' = fiches
               \/ ~ Existe(f) /\ fiches' = [fiches EXCEPT ![f] = req[r].val]
        BY <3>2 DEF Inserer, Entites
      <4>2. \A g \in Fiches :
              \/ fiches'[g] = fiches[g]
              \/ g = f /\ fiches'[g] = req[r].val /\ fiches[g] = Absente
        BY <1>0, <4>1 DEF Existe
      <4> QED
        BY <3>0, <4>1, <4>2 DEF BauxFixes, BailFige, Existe
    <3>3. ASSUME NEW f \in Fiches, InsererNouvelle(r, f)
          PROVE  BauxFixes /\ \A s \in Requetes \ {r} :
                   req[s].phase \in Entites /\ fiches'[req[s].fiche] # Absente =>
                     fiches'[req[s].fiche].bail = req[s].val.bail
      <4>1. /\ f \notin ids /\ ~ Existe(f)
            /\ fiches' = fiches \/ fiches' = [fiches EXCEPT ![f] = req[r].val]
        BY <3>3 DEF InsererNouvelle, IInv, ClesConnues
      <4>2. \A g \in Fiches \ {f} : fiches'[g] = fiches[g]
        BY <1>0, <4>1
      <4> QED
        BY <3>0, <4>1, <4>2 DEF BauxFixes, BailFige, Existe
    <3> QED
      BY <1>3, <3>1, <3>2, <3>3
  <2>4. BailFige'
    BY <1>0, <2>1, <2>2, <2>3, FigeRequete
  <2> QED
    BY <2>3, <2>4
<1> QED
  BY <1>1, <1>2, <1>3 DEF SuiteRequete

\* The steps that are not of a request: rows stay as they are or go.
LEMMA ResteCalme ==
  ASSUME IInv,
         \/ \E r \in Requetes : Interrompre(r)
         \/ \E a \in Acteurs : SuiteTransaction(a)
         \/ \E i \in Instances : Demarrer(i) \/ SuitePurge(i) \/ Arreter(i)
         \/ \E b \in Baux : SaveGeneration(b)
         \/ PasserJour
         \/ UNCHANGED vars
  PROVE  /\ \A f \in Fiches : fiches'[f] = fiches[f] \/ fiches'[f] = Absente
         /\ \A r \in Requetes : req'[r] = req[r] \/ req'[r] = Libre
<1>0. req \in [Requetes -> EtatRequete]
  BY DEF IInv, TypeOK
<1>1. ASSUME NEW r \in Requetes, Interrompre(r)
      PROVE  fiches' = fiches /\ \A q \in Requetes : req'[q] = req[q] \/ req'[q] = Libre
  BY <1>0, <1>1 DEF Interrompre, Repondre, tables
<1>2. ASSUME NEW a \in Acteurs, SuiteTransaction(a)
      PROVE  /\ \A f \in Fiches : fiches'[f] = fiches[f] \/ fiches'[f] = Absente
             /\ \A r \in Requetes : req'[r] = req[r] \/ req'[r] = Libre
  <2>1. Valider(a) \/ fiches' = fiches
    BY <1>2 DEF SuiteTransaction, ConstaterOrphelins, Annuler, tables
  <2>2. req' = req \/ Repondre(a)
    BY <1>2 DEF SuiteTransaction, ConstaterOrphelins, Valider, Annuler, Continuer
  <2> QED
    BY <1>0, <2>1, <2>2 DEF Valider, Repondre
<1>3. CASE \/ \E i \in Instances : Demarrer(i) \/ SuitePurge(i) \/ Arreter(i)
           \/ \E b \in Baux : SaveGeneration(b)
           \/ PasserJour
           \/ UNCHANGED vars
  BY <1>3 DEF Demarrer, SuitePurge, VerrouillerExpirees, EchouerPurge, EnvoyerRappel, Arreter,
              SaveGeneration, PasserJour, tables, vars
<1> QED
  BY <1>1, <1>2, <1>3

LEMMA FigePas ==
  ASSUME "modifier" \notin Operations, IInv, BailFige, [Next]_vars
  PROVE  BailFige' /\ BauxFixes
<1>1. ASSUME NEW r \in Requetes, DebutRequete(r) \/ SuiteRequete(r)
      PROVE  BailFige' /\ BauxFixes
  BY <1>1, FigeDebut, FigeSuite
<1>2. CASE \/ \E r \in Requetes : Interrompre(r)
           \/ \E a \in Acteurs : SuiteTransaction(a)
           \/ \E i \in Instances : Demarrer(i) \/ SuitePurge(i) \/ Arreter(i)
           \/ \E b \in Baux : SaveGeneration(b)
           \/ PasserJour
           \/ UNCHANGED vars
  BY <1>2, ResteCalme, FigeCalme
<1> QED
  BY <1>1, <1>2 DEF Next

\* Nothing but the edit modal moves a record to another lease: a signature, a
\* letter, a departure, a return, a protection, and the entity that a handler
\* inserts again over a purge, leave it the lease it had.
THEOREM BailDeLaFiche ==
  ASSUME "modifier" \notin Operations
  PROVE  Spec => [][BauxFixes]_vars
<1>1. Init => BailFige
  BY DEF Init, BailFige, Libre, Entites
<1>2. IInv /\ BailFige /\ [Next]_vars => BailFige' /\ BauxFixes
  BY FigePas
<1> QED
  BY <1>1, <1>2, Invariance, PTL DEF Spec

-----------------------------------------------------------------------------
(***************************************************************************)
(* A deletion takes the lease along.  Between the search for the orphans   *)
(* and the commit, a lease that is kept needs a record that keeps it: a    *)
(* second deletion or an edit could take it away.  The theorem is about    *)
(* the cases without: the purge, by any number of instances, where no      *)
(* candidate is deleted and no lease edited; and a single actor.           *)
(***************************************************************************)
PurgesSeules == "modifier" \notin Operations /\ "supprimer" \notin Operations

ActeurUnique == \A a, b \in Acteurs : a = b

\* A request with a transaction does nothing else; a purge holds rows.
Occupees ==
  /\ \A r \in Requetes : tx[r].etape # "aucune" => req[r].phase = "transaction"
  /\ \A a \in Acteurs : tx[a].etape # "aucune" => tx[a].fiches # {}
  /\ PurgesSeules => \A r \in Requetes : req[r].phase \notin {"suppression", "transaction"}

UneSeule ==
  \A a, b \in Acteurs : tx[a].etape # "aucune" /\ tx[b].etape # "aucune" => a = b

\* The lease of a row that is being deleted goes, or a row that stays has it.
Temoins ==
  \A a \in Acteurs : tx[a].etape = "orphelins" =>
    \A f \in tx[a].fiches :
      \/ fiches[f].bail \in tx[a].baux \cup {Nul}
      \/ \E g \in Fiches \ tx[a].fiches : Existe(g) /\ fiches[g].bail = fiches[f].bail

TInv == IInv /\ Occupees /\ UneSeule /\ Temoins /\ (PurgesSeules => BailFige)

\* Only its own actor changes a transaction.
LEMMA TransactionsTenues ==
  ASSUME IInv, NEW a \in Acteurs, NEW t, tx' = [tx EXCEPT ![a] = t]
  PROVE  tx'[a] = t /\ \A b \in Acteurs \ {a} : tx'[b] = tx[b]
BY DEF IInv, TypeOK

LEMMA TransactionsOuvertes ==
  ASSUME IInv, NEW a \in Acteurs, NEW F, Ouvrir(a, F)
  PROVE  tx'[a].fiches = F /\ \A b \in Acteurs \ {a} : tx'[b] = tx[b]
<1> DEFINE t == [etape |-> "verrou", fiches |-> F, baux |-> {}]
<1>1. tx' = [tx EXCEPT ![a] = t] /\ t.fiches = F
  BY DEF Ouvrir
<1> HIDE DEF t
<1> QED
  BY <1>1, TransactionsTenues

\* A step that opens no transaction, and moves no request with one.
LEMMA OccupeesCalmes ==
  ASSUME IInv, Occupees, UneSeule,
         \A a \in Acteurs : tx'[a] = AucuneTransaction
           \/ (tx'[a].fiches = tx[a].fiches /\ tx[a].etape # "aucune")
           \/ tx'[a] = tx[a],
         \A r \in Requetes :
           \/ req'[r].phase = req[r].phase
           \/ tx'[r].etape = "aucune" /\ req'[r].phase \notin {"suppression", "transaction"}
  PROVE  Occupees' /\ UneSeule'
<1>1. \A a \in Acteurs : tx'[a].etape # "aucune" =>
        tx[a].etape # "aucune" /\ tx'[a].fiches = tx[a].fiches
  BY DEF AucuneTransaction
<1>2. UneSeule'
  BY <1>1 DEF UneSeule
<1>3. Occupees'
  BY <1>1 DEF Occupees, Acteurs
<1> QED
  BY <1>2, <1>3

LEMMA OccupeesPas ==
  ASSUME PurgesSeules \/ ActeurUnique, IInv, Occupees, UneSeule, [Next]_vars
  PROVE  Occupees' /\ UneSeule'
<1>0. /\ req \in [Requetes -> EtatRequete]
      /\ \A r \in Requetes : r \in Acteurs /\ r \notin Instances
      /\ \A i \in Instances : i \in Acteurs /\ i \notin Requetes
  BY TableInitAssumption DEF IInv, TypeOK, Acteurs
<1>1. ASSUME NEW r \in Requetes, DebutRequete(r)
      PROVE  Occupees' /\ UneSeule'
  <2> DEFINE Debut == \E e : /\ req[r].phase = "libre" /\ req' = [req EXCEPT ![r] = e]
                             /\ PurgesSeules => e.phase \notin {"suppression", "transaction"}
                             /\ UNCHANGED tx
  <2>1. Debut
    <3>1. ASSUME NEW e, req[r].phase = "libre", req' = [req EXCEPT ![r] = e], UNCHANGED tx,
                 PurgesSeules => e.phase \notin {"suppression", "transaction"}
          PROVE  Debut
      BY <3>1
    <3> HIDE DEF Debut
    <3>2. ASSUME NEW op, NEW f \in Fiches, NEW admise, NEW phase, NEW entite,
                 Charger(r, op, f, admise, phase, entite),
                 phase \in {"relecture", "bail"} \/ op = "supprimer"
          PROVE  Debut
      BY <3>1, <3>2 DEF Charger, PurgesSeules
    <3>3. ASSUME NEW b \in Baux, NEW i \in Identites, CreateLocataire(r, b, i)
          PROVE  Debut
      BY <3>1, <3>3 DEF CreateLocataire
    <3>4. ASSUME NEW f \in Fiches, NEW i \in Identites,
                 UpdateLocataire(r, f, i) \/ \E b \in Baux \cup {Nul} : RattacherBail(r, f, i, b)
          PROVE  Debut
      BY <3>2, <3>4 DEF UpdateLocataire, RattacherBail
    <3>5. ASSUME NEW f \in Fiches,
                 \/ SignerBail(r, f)
                 \/ MarquerBailEnvoye(r, f)
                 \/ MarquerResiliationEnvoyee(r, f)
          PROVE  Debut
      BY <3>2, <3>5 DEF SignerBail, MarquerBailEnvoye, MarquerResiliationEnvoyee
    <3>6. ASSUME NEW f \in Fiches,
                 \/ \E d \in Dates : MarquerSortie(r, f, d)
                 \/ ReintegrerLocataire(r, f)
                 \/ \E p \in BOOLEAN : DefinirConservationProlongee(r, f, p)
                 \/ SupprimerCandidat(r, f)
          PROVE  Debut
      BY <3>2, <3>6 DEF MarquerSortie, ReintegrerLocataire, DefinirConservationProlongee,
                        SupprimerCandidat
    <3> QED
      BY <1>1, <3>3, <3>4, <3>5, <3>6 DEF DebutRequete
  <2> PICK e : /\ req[r].phase = "libre" /\ req' = [req EXCEPT ![r] = e]
               /\ PurgesSeules => e.phase \notin {"suppression", "transaction"}
               /\ UNCHANGED tx
    BY <2>1
  <2> HIDE DEF Debut
  <2>2. tx[r].etape = "aucune" /\ req'[r] = e
        /\ \A s \in Requetes \ {r} : req'[s] = req[s]
    <3>1. tx[r] \in Transaction
      BY <1>0 DEF IInv, TypeOK
    <3> QED
      BY <1>0, <3>1 DEF Occupees
  <2>3. UneSeule'
    BY DEF UneSeule
  <2>4. Occupees'
    BY <2>2 DEF Occupees
  <2> QED
    BY <2>3, <2>4
<1>2. ASSUME NEW r \in Requetes, VerrouillerCandidat(r)
      PROVE  Occupees' /\ UneSeule'
  <2>1. req[r].phase = "suppression" /\ ~ PurgesSeules
    BY <1>2 DEF VerrouillerCandidat, Occupees
  <2>2. ActeurUnique
    BY <2>1
  <2>3. UneSeule' /\ \A s \in Requetes : s = r
    BY <1>0, <2>2 DEF UneSeule, ActeurUnique
  <2>4. CASE UNCHANGED tx /\ Repondre(r)
    <3>1. tx[r].etape = "aucune" /\ req'[r] = Libre
      BY <1>0, <2>1, <2>4 DEF Occupees, Repondre
    <3> QED
      BY <2>1, <2>3, <2>4, <3>1 DEF Occupees
  <2>5. CASE Ouvrir(r, {req[r].fiche}) /\ Avancer(r, "transaction")
    <3>1. tx'[r].fiches = {req[r].fiche} /\ \A a \in Acteurs : a = r
      BY <1>0, <2>2, <2>5, TransactionsOuvertes DEF ActeurUnique
    <3>2. req'[r].phase = "transaction"
      BY <1>0, <2>5 DEF Avancer, EtatRequete
    <3> QED
      BY <2>1, <2>3, <3>1, <3>2 DEF Occupees
  <2> QED
    BY <1>2, <2>4, <2>5 DEF VerrouillerCandidat
<1>3. ASSUME NEW r \in Requetes,
             \/ ChargerBail(r) \/ Relire(r) \/ MettreAJour(r) \/ Inserer(r)
             \/ \E f \in Fiches : InsererNouvelle(r, f)
      PROVE  Occupees' /\ UneSeule'
  <2>1. /\ UNCHANGED tx
        /\ req[r].phase \in {"bail", "relecture", "maj", "insertion", "creation"}
    BY <1>3 DEF ChargerBail, Relire, MettreAJour, Inserer, InsererNouvelle
  <2>2. req'[r].phase \in {"libre", "relecture", "creation", "maj", "insertion"}
        /\ \A s \in Requetes \ {r} : req'[s] = req[s]
    <3>1. req[r] \in EtatRequete
      BY <1>0
    <3>2. CASE ChargerBail(r)
      BY <1>0, <3>1, <3>2 DEF ChargerBail, Avancer, Repondre, Libre, EtatRequete
    <3>3. CASE Relire(r)
      BY <1>0, <3>1, <3>3 DEF Relire, EtatRequete
    <3>4. CASE ~ ChargerBail(r) /\ ~ Relire(r)
      BY <1>0, <1>3, <3>4 DEF MettreAJour, Inserer, InsererNouvelle, Repondre, Libre
    <3> QED
      BY <3>2, <3>3, <3>4
  <2>3. tx[r].etape = "aucune"
    BY <1>0, <2>1 DEF Occupees
  <2> QED
    BY <2>1, <2>2, <2>3, OccupeesCalmes
<1>4. ASSUME NEW i \in Instances, VerrouillerExpirees(i)
      PROVE  Occupees' /\ UneSeule'
  <2> DEFINE F == {f \in Fiches : Existe(f) /\ Expiree(fiches[f], jour)}
  <2>1. req' = req
    BY <1>4 DEF VerrouillerExpirees
  <2>2. CASE F = {}
    <3>1. UNCHANGED tx
      BY <1>4, <2>2 DEF VerrouillerExpirees
    <3> QED
      BY <2>1, <3>1 DEF Occupees, UneSeule
  <2>3. CASE F # {}
    <3>1. Ouvrir(i, F) /\ \A f \in F : ~ Verrouillee(f)
      BY <1>4, <2>3 DEF VerrouillerExpirees
    <3>2. ASSUME NEW a \in Acteurs, tx[a].etape # "aucune"
          PROVE  a = i
      <4>1. CASE ActeurUnique
        BY <1>0, <4>1 DEF ActeurUnique
      <4>2. CASE PurgesSeules
        <5>1. a \in Instances
          BY <3>2, <4>2 DEF Occupees, Acteurs
        <5>2. PICK f \in tx[a].fiches : TRUE
          BY <3>2 DEF Occupees
        <5>3. f \in F
          BY <5>1, <5>2 DEF IInv, TypeOK, Transaction, VerrouLegitime
        <5> QED
          BY <3>1, <5>2, <5>3 DEF Verrouillee
      <4> QED
        BY <4>1, <4>2
    <3> HIDE DEF F
    <3>3. tx'[i].fiches = F /\ \A a \in Acteurs \ {i} : tx'[a] = tx[a]
      BY <1>0, <3>1, TransactionsOuvertes
    <3>4. UneSeule'
      BY <3>2, <3>3 DEF UneSeule
    <3>5. Occupees'
      BY <1>0, <2>1, <2>3, <3>3 DEF Occupees
    <3> QED
      BY <3>4, <3>5
  <2> QED
    BY <2>2, <2>3
<1>5. ASSUME NEW a \in Acteurs, SuiteTransaction(a)
      PROVE  Occupees' /\ UneSeule'
  <2>1. \A c \in Acteurs :
          \/ tx'[c] = AucuneTransaction
          \/ tx'[c].fiches = tx[c].fiches /\ tx[c].etape # "aucune"
          \/ tx'[c] = tx[c]
    BY <1>5, TransactionsTenues
       DEF SuiteTransaction, ConstaterOrphelins, Valider, Annuler, Fermer
  <2>2. \A r \in Requetes :
          \/ req'[r].phase = req[r].phase
          \/ tx'[r].etape = "aucune" /\ req'[r].phase \notin {"suppression", "transaction"}
    <3>1. CASE req' = req
      BY <3>1
    <3>2. CASE req' # req
      <4>1. Repondre(a) /\ Fermer(a)
        BY <1>5, <3>2 DEF SuiteTransaction, ConstaterOrphelins, Valider, Annuler, Continuer
      <4>2. tx'[a] = AucuneTransaction
        BY <4>1, TransactionsTenues DEF Fermer
      <4> QED
        BY <1>0, <4>1, <4>2 DEF Repondre, Libre, AucuneTransaction
    <3> QED
      BY <3>1, <3>2
  <2> QED
    BY <2>1, <2>2, OccupeesCalmes
<1>6. ASSUME NEW i \in Instances,
             Demarrer(i) \/ EchouerPurge(i) \/ EnvoyerRappel(i) \/ Arreter(i)
      PROVE  Occupees' /\ UneSeule'
  <2>1. req' = req /\ (UNCHANGED tx \/ Fermer(i))
    BY <1>6 DEF Demarrer, EchouerPurge, EnvoyerRappel, Arreter
  <2>2. \A c \in Acteurs : tx'[c] = AucuneTransaction \/ tx'[c] = tx[c]
    BY <1>0, <2>1, TransactionsTenues DEF Fermer
  <2> QED
    BY <2>1, <2>2, OccupeesCalmes
<1>7. ASSUME NEW r \in Requetes, Interrompre(r)
      PROVE  Occupees' /\ UneSeule'
  <2>1. Repondre(r) /\ Fermer(r)
    BY <1>7 DEF Interrompre
  <2>2. tx'[r] = AucuneTransaction /\ \A c \in Acteurs \ {r} : tx'[c] = tx[c]
    BY <1>0, <2>1, TransactionsTenues DEF Fermer
  <2>3. req'[r] = Libre /\ \A s \in Requetes \ {r} : req'[s] = req[s]
    BY <1>0, <2>1 DEF Repondre
  <2> QED
    BY <2>2, <2>3, OccupeesCalmes DEF Libre, AucuneTransaction
<1>8. CASE (\E b \in Baux : SaveGeneration(b)) \/ PasserJour \/ UNCHANGED vars
  <2>1. UNCHANGED <<tx, req>>
    BY <1>8 DEF SaveGeneration, PasserJour, vars
  <2> QED
    BY <2>1 DEF Occupees, UneSeule
<1> QED
  BY <1>1, <1>2, <1>3, <1>4, <1>5, <1>6, <1>7, <1>8
     DEF Next, SuiteRequete, SuitePurge

LEMMA TemoinsGardes ==
  ASSUME IInv, Temoins,
         \A a \in Acteurs : tx'[a].etape = "orphelins" =>
           /\ tx'[a] = tx[a]
           /\ \A g \in Fiches : Existe(g) =>
                fiches'[g] # Absente /\ fiches'[g].bail = fiches[g].bail
  PROVE  Temoins'
<1> SUFFICES ASSUME NEW a \in Acteurs, tx'[a].etape = "orphelins", NEW f \in tx'[a].fiches
             PROVE  \/ fiches'[f].bail \in tx'[a].baux \cup {Nul}
                    \/ \E g \in Fiches \ tx'[a].fiches :
                         fiches'[g] # Absente /\ fiches'[g].bail = fiches'[f].bail
  BY DEF Temoins, Existe
<1>1. tx'[a] = tx[a] /\ f \in Fiches /\ Existe(f)
  BY DEF IInv, TypeOK, Transaction, VerrouLegitime, Acteurs
<1>2. fiches'[f].bail = fiches[f].bail
  BY <1>1
<1>3. CASE fiches[f].bail \in tx[a].baux \cup {Nul}
  BY <1>1, <1>2, <1>3
<1>4. CASE fiches[f].bail \notin tx[a].baux \cup {Nul}
  <2>1. PICK g \in Fiches \ tx[a].fiches : Existe(g) /\ fiches[g].bail = fiches[f].bail
    BY <1>1, <1>4 DEF Temoins
  <2> QED
    BY <1>1, <1>2, <2>1
<1> QED
  BY <1>3, <1>4

\* No statement of a request removes a row: only a commit does.
LEMMA LignesRestent ==
  ASSUME IInv, NEW r \in Requetes, SuiteRequete(r)
  PROVE  \A g \in Fiches : Existe(g) => fiches'[g] # Absente
<1>0. fiches \in [Fiches -> Ligne \cup {Absente}] /\ \A l \in Ligne : l # Absente
  BY TableInitAssumption DEF IInv, TypeOK
<1>1. CASE ChargerBail(r) \/ Relire(r) \/ VerrouillerCandidat(r)
  BY <1>1 DEF ChargerBail, Relire, VerrouillerCandidat, tables, Existe
<1>2. CASE MettreAJour(r)
  <2>1. req[r].val \in MiseAJour
    BY <1>2 DEF MettreAJour, IInv, ValTypee
  <2>2. \A g \in Fiches : Existe(g) => Fusion(req[r].val, fiches[g]) # Absente
    BY <1>0, <2>1, FusionTypee DEF Existe
  <2> QED
    BY <1>0, <1>2, <2>2 DEF MettreAJour, Existe
<1>3. CASE Inserer(r) \/ \E f \in Fiches : InsererNouvelle(r, f)
  <2>1. req[r].val # Absente
    BY <1>0, <1>3 DEF Inserer, InsererNouvelle, IInv, ValTypee
  <2>2. fiches' = fiches \/ \E f \in Fiches : fiches' = [fiches EXCEPT ![f] = req[r].val]
    BY <1>3 DEF Inserer, InsererNouvelle, IInv, ValTypee, TypeOK
  <2> QED
    BY <1>0, <2>1, <2>2 DEF Existe
<1> QED
  BY <1>1, <1>2, <1>3 DEF SuiteRequete

LEMMA TemoinsPas ==
  ASSUME PurgesSeules \/ ActeurUnique, TInv, [Next]_vars
  PROVE  Temoins'
<1> USE DEF TInv
<1>0. /\ req \in [Requetes -> EtatRequete] /\ fiches \in [Fiches -> Ligne \cup {Absente}]
      /\ \A r \in Requetes : r \in Acteurs
      /\ \A i \in Instances : i \in Acteurs
  BY DEF IInv, TypeOK, Acteurs
<1>1. ASSUME UNCHANGED fiches,
             \A a \in Acteurs : tx'[a] = tx[a] \/ tx'[a].etape # "orphelins"
      PROVE  Temoins'
  BY <1>1, TemoinsGardes DEF Existe
<1>2. ASSUME NEW r \in Requetes, SuiteRequete(r)
      PROVE  Temoins'
  <2>1. req[r].phase # "transaction" /\ tx[r].etape = "aucune"
    BY <1>2 DEF SuiteRequete, ChargerBail, Relire, MettreAJour, Inserer, InsererNouvelle,
                VerrouillerCandidat, Occupees
  <2>2. CASE VerrouillerCandidat(r)
    <3>1. fiches' = fiches /\ (UNCHANGED tx \/ Ouvrir(r, {req[r].fiche}))
      BY <2>2 DEF VerrouillerCandidat, tables
    <3>2. \A a \in Acteurs : tx'[a] = tx[a] \/ tx'[a].etape # "orphelins"
      <4> DEFINE t == [etape |-> "verrou", fiches |-> {req[r].fiche}, baux |-> {}]
      <4>1. UNCHANGED tx \/ (tx' = [tx EXCEPT ![r] = t] /\ t.etape = "verrou")
        BY <3>1 DEF Ouvrir
      <4> HIDE DEF t
      <4> QED
        BY <1>0, <4>1, TransactionsTenues
    <3> QED
      BY <1>1, <3>1, <3>2
  <2>3. CASE ~ VerrouillerCandidat(r)
    <3>1. UNCHANGED tx
      BY <1>2, <2>3 DEF SuiteRequete, ChargerBail, Relire, MettreAJour, Inserer, InsererNouvelle
    <3>2. CASE ActeurUnique
      BY <1>0, <2>1, <3>1, <3>2 DEF ActeurUnique, Temoins
    <3>3. CASE PurgesSeules
      <4>1. BauxFixes
        BY <1>2, <3>3, FigeSuite
      <4>2. \A g \in Fiches : Existe(g) => fiches'[g] # Absente
        BY <1>2, LignesRestent
      <4>3. \A g \in Fiches : Existe(g) =>
              fiches'[g] # Absente /\ fiches'[g].bail = fiches[g].bail
        BY <4>1, <4>2 DEF BauxFixes, Existe
      <4> QED
        BY <3>1, <4>3, TemoinsGardes
    <3> QED
      BY <3>2, <3>3
  <2> QED
    BY <2>2, <2>3
<1>3. ASSUME NEW a \in Acteurs, ConstaterOrphelins(a)
      PROVE  Temoins'
  <2> DEFINE F == tx[a].fiches
             t == [etape |-> "orphelins", fiches |-> F, baux |-> Orphelins(F)]
  <2>1. tx' = [tx EXCEPT ![a] = t] /\ t.fiches = F /\ t.baux = Orphelins(F) /\ fiches' = fiches
    BY <1>3 DEF ConstaterOrphelins, tables
  <2>2. \A f \in F : f \in Fiches /\ Existe(f) /\ fiches[f].bail \in baux \cup {Nul}
    BY DEF IInv, TypeOK, Transaction, VerrouLegitime, Acteurs, IntegriteReferentielle,
           ReferenceValide
  <2> HIDE DEF F, t
  <2>3. \A f \in F : \/ fiches[f].bail \in Orphelins(F) \cup {Nul}
                     \/ \E g \in Fiches \ F : Existe(g) /\ fiches[g].bail = fiches[f].bail
    BY <2>2 DEF Orphelins
  <2>4. tx'[a] = t /\ \A b \in Acteurs \ {a} : tx'[b] = tx[b]
    BY <2>1, TransactionsTenues
  <2> QED
    BY <2>1, <2>3, <2>4 DEF Temoins, Existe
<1>4. ASSUME NEW a \in Acteurs, Valider(a)
      PROVE  Temoins'
  <2>1. tx'[a] = AucuneTransaction /\ \A b \in Acteurs \ {a} : tx'[b] = tx[b]
    BY <1>4, TransactionsTenues DEF Valider, Fermer
  <2>2. tx[a].etape = "orphelins"
    BY <1>4 DEF Valider
  <2>3. \A b \in Acteurs : tx'[b].etape # "orphelins"
    BY <2>1, <2>2 DEF UneSeule, AucuneTransaction
  <2> QED
    BY <2>3 DEF Temoins
<1>5. ASSUME NEW a \in Acteurs, Annuler(a)
      PROVE  Temoins'
  <2>1. fiches' = fiches /\ Fermer(a)
    BY <1>5 DEF Annuler, tables
  <2>2. \A b \in Acteurs : tx'[b] = tx[b] \/ tx'[b].etape # "orphelins"
    BY <2>1, TransactionsTenues DEF Fermer, AucuneTransaction
  <2> QED
    BY <1>1, <2>1, <2>2
<1>6. ASSUME NEW i \in Instances, Demarrer(i) \/ SuitePurge(i) \/ Arreter(i)
      PROVE  Temoins'
  <2>1. fiches' = fiches /\ (UNCHANGED tx \/ Fermer(i) \/ \E F : Ouvrir(i, F))
    BY <1>6 DEF Demarrer, SuitePurge, VerrouillerExpirees, EchouerPurge, EnvoyerRappel, Arreter,
                tables
  <2>2. \A b \in Acteurs : tx'[b] = tx[b] \/ tx'[b].etape # "orphelins"
    <3>1. CASE UNCHANGED tx
      BY <3>1
    <3>2. CASE Fermer(i)
      BY <1>0, <3>2, TransactionsTenues DEF Fermer, AucuneTransaction
    <3>3. CASE \E F : Ouvrir(i, F)
      <4>1. PICK F : Ouvrir(i, F)
        BY <3>3
      <4> DEFINE t == [etape |-> "verrou", fiches |-> F, baux |-> {}]
      <4>2. tx' = [tx EXCEPT ![i] = t] /\ t.etape = "verrou"
        BY <4>1 DEF Ouvrir
      <4> HIDE DEF t
      <4> QED
        BY <1>0, <4>2, TransactionsTenues
    <3> QED
      BY <2>1, <3>1, <3>2, <3>3
  <2> QED
    BY <1>1, <2>1, <2>2
<1>7. ASSUME NEW r \in Requetes, Interrompre(r)
      PROVE  Temoins'
  <2>1. fiches' = fiches /\ Fermer(r)
    BY <1>7 DEF Interrompre, tables
  <2>2. \A b \in Acteurs : tx'[b] = tx[b] \/ tx'[b].etape # "orphelins"
    BY <1>0, <2>1, TransactionsTenues DEF Fermer, AucuneTransaction
  <2> QED
    BY <1>1, <2>1, <2>2
<1>8. ASSUME NEW r \in Requetes, DebutRequete(r)
      PROVE  Temoins'
  <2>1. UNCHANGED <<fiches, tx>>
    BY <1>8 DEF DebutRequete, Charger, CreateLocataire, UpdateLocataire, RattacherBail,
       SignerBail, MarquerBailEnvoye, MarquerResiliationEnvoyee, MarquerSortie,
       ReintegrerLocataire, DefinirConservationProlongee, SupprimerCandidat, tables
  <2> QED
    BY <1>1, <2>1
<1>9. CASE (\E b \in Baux : SaveGeneration(b)) \/ PasserJour \/ UNCHANGED vars
  <2>1. UNCHANGED <<fiches, tx>>
    BY <1>9 DEF SaveGeneration, PasserJour, vars, tables
  <2> QED
    BY <1>1, <2>1
<1> QED
  BY <1>2, <1>3, <1>4, <1>5, <1>6, <1>7, <1>8, <1>9 DEF Next, SuiteTransaction

\* The record leaves, and its lease and generation with it, or a record has it.
BailsEmportes ==
  \A f \in Fiches :
    Existe(f) /\ ~ Existe(f)' /\ fiches[f].bail \in baux' \cup generes' =>
      \E g \in Fiches : Existe(g)' /\ fiches'[g].bail = fiches[f].bail

LEMMA PasEmporte ==
  ASSUME TInv, [Next]_vars
  PROVE  BailsEmportes
<1> USE DEF TInv
<1>1. ASSUME NEW a \in Acteurs, Valider(a)
      PROVE  BailsEmportes
  <2> SUFFICES ASSUME NEW f \in Fiches, Existe(f), ~ Existe(f)',
                      fiches[f].bail \in baux' \cup generes'
               PROVE  \E g \in Fiches : Existe(g)' /\ fiches'[g].bail = fiches[f].bail
    BY DEF BailsEmportes
  <2>1. /\ tx[a].etape = "orphelins"
        /\ fiches' = [g \in Fiches |-> IF g \in tx[a].fiches THEN Absente ELSE fiches[g]]
        /\ baux' = baux \ tx[a].baux /\ generes' = generes \ tx[a].baux
    BY <1>1 DEF Valider
  <2>2. f \in tx[a].fiches
    BY <2>1 DEF Existe
  <2>3. fiches[f].bail \notin tx[a].baux /\ fiches[f].bail # Nul
    BY <2>1, DonneesAssumption DEF IInv, TypeOK
  <2>4. PICK g \in Fiches \ tx[a].fiches : Existe(g) /\ fiches[g].bail = fiches[f].bail
    BY <2>1, <2>2, <2>3 DEF Temoins
  <2> QED
    BY <2>1, <2>4 DEF Existe
<1>2. ASSUME \A f \in Fiches : Existe(f) => Existe(f)'
      PROVE  BailsEmportes
  BY <1>2 DEF BailsEmportes
<1>3. ASSUME NEW r \in Requetes, SuiteRequete(r)
      PROVE  \A f \in Fiches : Existe(f) => Existe(f)'
  BY <1>3, LignesRestent DEF Existe
<1>4. CASE \/ \E r \in Requetes : DebutRequete(r) \/ Interrompre(r)
           \/ \E a \in Acteurs : ConstaterOrphelins(a) \/ Annuler(a)
           \/ \E i \in Instances : Demarrer(i) \/ SuitePurge(i) \/ Arreter(i)
           \/ \E b \in Baux : SaveGeneration(b)
           \/ PasserJour
           \/ UNCHANGED vars
  <2>1. CASE \E r \in Requetes : DebutRequete(r)
    <3>1. ASSUME NEW r \in Requetes, DebutRequete(r)
          PROVE  UNCHANGED tables
      BY <3>1 DEF DebutRequete, Charger, CreateLocataire, UpdateLocataire, RattacherBail,
         SignerBail, MarquerBailEnvoye, MarquerResiliationEnvoyee, MarquerSortie,
         ReintegrerLocataire, DefinirConservationProlongee, SupprimerCandidat
    <3> QED
      BY <1>2, <2>1, <3>1 DEF Existe, tables
  <2>2. CASE ~ \E r \in Requetes : DebutRequete(r)
    <3>1. UNCHANGED fiches
      BY <1>4, <2>2 DEF Interrompre, ConstaterOrphelins, Annuler, Demarrer, SuitePurge,
         VerrouillerExpirees, EchouerPurge, EnvoyerRappel, Arreter, SaveGeneration, PasserJour,
         vars, tables
    <3> QED
      BY <1>2, <3>1 DEF Existe
  <2> QED
    BY <2>1, <2>2
<1> QED
  BY <1>1, <1>2, <1>3, <1>4 DEF Next, SuiteTransaction

\* A deleted record takes its lease and its generation along, unless a record
\* that stays refers to the lease: for any number of instances that purge while
\* records are created, signed, marked and protected, and for every handler
\* where one actor works at a time.  Two deletions of candidates that share a
\* lease, a purge beside one of them, an edit of the lease in between: each is
\* enough to leave a lease behind.
THEOREM LeBailPart ==
  ASSUME PurgesSeules \/ ActeurUnique
  PROVE  Spec => BailEmporte
<1>1. Init => TInv
  BY InitInv DEF Init, TInv, Occupees, UneSeule, Temoins, BailFige, Libre, AucuneTransaction,
     Entites, Acteurs
<1>2. TInv /\ [Next]_vars => TInv' /\ BailsEmportes
  <2>1. ASSUME TInv, [Next]_vars
        PROVE  PurgesSeules => BailFige'
    BY <2>1, FigePas DEF TInv, PurgesSeules
  <2>2. ASSUME TInv, [Next]_vars
        PROVE  IInv' /\ Occupees' /\ UneSeule'
    BY <2>2, NextInv, OccupeesPas DEF TInv
  <2> QED
    BY <2>1, <2>2, TemoinsPas, PasEmporte DEF TInv, PurgesSeules
<1>3. Spec => [][BailsEmportes]_vars
  BY <1>1, <1>2, PTL DEF Spec
<1>4. ([][BailsEmportes]_vars) => BailEmporte
  BY PTL DEF BailEmporte, BailsEmportes
<1> QED
  BY <1>3, <1>4, PTL
=============================================================================
