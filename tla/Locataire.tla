------------------------------ MODULE Locataire ------------------------------
(***************************************************************************)
(* The life of the tenant records: the handlers of LocataireService, each  *)
(* a sequence of SQL statements that other handlers interleave with; the   *)
(* deletion of a candidate and the GDPR purge, which share one transaction *)
(* body; the start-up of the instances that run the purge and its          *)
(* reminder.  PostgreSQL runs every statement at READ COMMITTED.           *)
(***************************************************************************)
EXTENDS Fiche

CONSTANTS
  Requetes,     \* HTTP requests in progress at the same time
  Instances,    \* processes of the API that start and stop
  Operations,   \* the handlers this instance of the model exercises
  FichesInit,   \* the table "locataire" at the start
  BauxInit,     \* the leases present at the start
  GeneresInit,  \* those a generation refers to
  JourMax       \* bound: the last day

ToutesOperations ==
  {"creer", "modifier", "signer", "bail", "resiliation", "sortie",
   "reintegrer", "conservation", "supprimer"}

ASSUME TableInitAssumption ==
  /\ Operations \subseteq ToutesOperations
  /\ Requetes \cap Instances = {}
  /\ BauxInit \subseteq Baux
  /\ GeneresInit \subseteq BauxInit
  /\ Absente \notin Ligne
  /\ FichesInit \in [Fiches -> Ligne \cup {Absente}]
  /\ \A f \in Fiches :
       FichesInit[f] # Absente => ReferenceValide(FichesInit[f].bail, BauxInit)
  /\ JourMax \in Nat

VARIABLES
  fiches,    \* the table "locataire"
  baux,      \* the keys present in "result_form"
  generes,   \* the leases a row of "generation" refers to
  jour,      \* CURRENT_DATE
  ids,       \* keys the sequence of "locataire" has handed out
  bauxIds,   \* keys the sequence of "result_form" has handed out
  req,       \* where each request is
  tx,        \* the deleting transaction each actor has open
  purge      \* where each instance is in its start-up

tables == <<fiches, baux, generes, ids, bauxIds>>
vars == <<fiches, baux, generes, jour, ids, bauxIds, req, tx, purge>>

Acteurs == Requetes \cup Instances

Phases == {"libre", "bail", "relecture", "maj", "insertion", "creation",
           "suppression", "transaction"}
EtapesPurge == {"arretee", "purge", "transaction", "rappel", "prete"}

EtatRequete ==
  [phase : Phases, op : Operations \cup {"aucune"}, fiche : Fiches \cup {Nul},
   val : Ligne \cup MiseAJour \cup {Nul}]

Transaction ==
  [etape : {"aucune", "verrou", "orphelins"}, fiches : SUBSET Fiches,
   baux : SUBSET Baux]

TypeOK ==
  /\ fiches \in [Fiches -> Ligne \cup {Absente}]
  /\ baux \in SUBSET Baux
  /\ generes \in SUBSET Baux
  /\ jour \in Nat
  /\ ids \in SUBSET Fiches
  /\ bauxIds \in SUBSET Baux
  /\ req \in [Requetes -> EtatRequete]
  /\ tx \in [Acteurs -> Transaction]
  /\ purge \in [Instances -> [phase : EtapesPurge, anciens : SUBSET Fiches]]

-----------------------------------------------------------------------------
Existe(f) == fiches[f] # Absente

\* FOR UPDATE: a row belongs to the open transaction that selected it.
Verrouillee(f) == \E a \in Acteurs : f \in tx[a].fiches

AucuneTransaction == [etape |-> "aucune", fiches |-> {}, baux |-> {}]

Libre == [phase |-> "libre", op |-> "aucune", fiche |-> Nul, val |-> Nul]

\* The request answers, with a result or with an error.
Repondre(r) == req' = [req EXCEPT ![r] = Libre]

Avancer(r, phase) == req' = [req EXCEPT ![r].phase = phase]

Init ==
  /\ fiches = FichesInit
  /\ baux = BauxInit
  /\ generes = GeneresInit
  /\ jour = 0
  /\ ids = {f \in Fiches : FichesInit[f] # Absente}
  /\ bauxIds = BauxInit
  /\ req = [r \in Requetes |-> Libre]
  /\ tx = [a \in Acteurs |-> AucuneTransaction]
  /\ purge = [i \in Instances |-> [phase |-> "arretee", anciens |-> {}]]

-----------------------------------------------------------------------------
(***************************************************************************)
(* The handlers.  All but the creation start with getLocataireById.  An    *)
(* unknown key is answered 404, a row the guard refuses 400, a malformed   *)
(* body 400, all without a change of state: only a request that goes on    *)
(* is a step.  Its entity, already changed in memory, waits for the next   *)
(* statement.                                                              *)
(***************************************************************************)
Charger(r, op, f, admise, phase, entite) ==
  /\ op \in Operations
  /\ req[r].phase = "libre"
  /\ Existe(f)
  /\ admise
  /\ req' = [req EXCEPT ![r] = [phase |-> phase, op |-> op, fiche |-> f,
                                val |-> entite]]
  /\ UNCHANGED <<tables, jour, tx, purge>>

CreateLocataire(r, b, i) ==
  /\ "creer" \in Operations
  /\ req[r].phase = "libre"
  /\ req' = [req EXCEPT ![r] = [phase |-> "bail", op |-> "creer", fiche |-> Nul,
                                val |-> Naissance(b, i)]]
  /\ UNCHANGED <<tables, jour, tx, purge>>

\* Mutant: the modal saves a record built from its form alone.
UpdateLocataireParCreation(r, f, i) ==
  Charger(r, "modifier", f, TRUE, "relecture", Naissance(fiches[f].bail, i))

\* The edit modal; an absent resultFormId leaves the lease alone.
UpdateLocataire(r, f, i) ==
  Charger(r, "modifier", f, TRUE, "relecture", [fiches[f] EXCEPT !.identite = i])

\* The edit modal with a resultFormId: null detaches, a key is read first.
RattacherBail(r, f, i, b) ==
  Charger(r, "modifier", f, TRUE, IF b = Nul THEN "relecture" ELSE "bail",
          [fiches[f] EXCEPT !.identite = i, !.bail = b])

SignerBail(r, f) ==
  Charger(r, "signer", f, fiches[f].etat = "candidat", "relecture",
          [fiches[f] EXCEPT !.etat = "locataire"])

MarquerBailEnvoye(r, f) ==
  Charger(r, "bail", f, TRUE, "relecture", [fiches[f] EXCEPT !.bailEnvoye = TRUE])

MarquerResiliationEnvoyee(r, f) ==
  Charger(r, "resiliation", f, TRUE, "relecture",
          [fiches[f] EXCEPT !.congeEnvoye = TRUE])

\* Mutant: a candidate may be marked as gone.
MarquerSortieSansGarde(r, f, d) ==
  Charger(r, "sortie", f, TRUE, "relecture",
          [fiches[f] EXCEPT !.sortie = d, !.etat = "sorti"])

MarquerSortie(r, f, d) ==
  Charger(r, "sortie", f, fiches[f].etat # "candidat", "relecture",
          [fiches[f] EXCEPT !.sortie = d, !.etat = "sorti"])

\* Mutant: the date of departure stays.
ReintegrerSansEffacerDate(r, f) ==
  Charger(r, "reintegrer", f, TRUE, "relecture",
          [fiches[f] EXCEPT !.etat = "locataire"])

ReintegrerLocataire(r, f) ==
  Charger(r, "reintegrer", f, TRUE, "relecture",
          [fiches[f] EXCEPT !.sortie = Nul, !.etat = "locataire"])

DefinirConservationProlongee(r, f, prolongee) ==
  Charger(r, "conservation", f, fiches[f].etat = "sorti", "relecture",
          [fiches[f] EXCEPT !.conservation = prolongee])

SupprimerCandidat(r, f) ==
  Charger(r, "supprimer", f, fiches[f].etat = "candidat", "suppression", fiches[f])

-----------------------------------------------------------------------------
(***************************************************************************)
(* The statements that follow the first read.                              *)
(***************************************************************************)
\* getResultForm: 404 for an unknown lease.
ChargerBail(r) ==
  /\ req[r].phase = "bail"
  /\ IF req[r].val.bail \in baux
       THEN Avancer(r, IF req[r].op = "creer" THEN "creation" ELSE "relecture")
       ELSE Repondre(r)
  /\ UNCHANGED <<tables, jour, tx, purge>>

\* save() reads the row again: an UPDATE of the difference, or, when the row
\* is gone, an INSERT of the whole entity under its old key.
Relire(r) ==
  LET f == req[r].fiche IN
  /\ req[r].phase = "relecture"
  /\ req' = [req EXCEPT ![r] =
       IF Existe(f)
         THEN [phase |-> "maj", op |-> @.op, fiche |-> f,
               val |-> Difference(@.val, fiches[f])]
         ELSE [@ EXCEPT !.phase = "insertion"]]
  /\ UNCHANGED <<tables, jour, tx, purge>>

\* Mutant: an UPDATE that the FOR UPDATE of a transaction does not stop.
MettreAJourSansVerrou(r) ==
  LET f == req[r].fiche
      maj == req[r].val
      reussit == Existe(f) /\ (maj.bail = Inchange \/ ReferenceValide(maj.bail, baux))
  IN
  /\ req[r].phase = "maj"
  /\ fiches' = IF reussit THEN [fiches EXCEPT ![f] = Fusion(maj, @)] ELSE fiches
  /\ Repondre(r)
  /\ UNCHANGED <<baux, generes, ids, bauxIds, jour, tx, purge>>

\* The UPDATE waits for the row's lock; on a row deleted meanwhile it touches
\* nothing and still succeeds; a lease that is gone violates the foreign key.
MettreAJour(r) ==
  LET f == req[r].fiche
      maj == req[r].val
      reussit == Existe(f) /\ (maj.bail = Inchange \/ ReferenceValide(maj.bail, baux))
  IN
  /\ req[r].phase = "maj"
  /\ ~ Verrouillee(f)
  /\ fiches' = IF reussit THEN [fiches EXCEPT ![f] = Fusion(maj, @)] ELSE fiches
  /\ Repondre(r)
  /\ UNCHANGED <<baux, generes, ids, bauxIds, jour, tx, purge>>

\* The INSERT fails on a key that is back or on a lease that is gone.
Inserer(r) ==
  LET f == req[r].fiche
      reussit == ~ Existe(f) /\ ReferenceValide(req[r].val.bail, baux)
  IN
  /\ req[r].phase = "insertion"
  /\ ~ Verrouillee(f)
  /\ fiches' = IF reussit THEN [fiches EXCEPT ![f] = req[r].val] ELSE fiches
  /\ Repondre(r)
  /\ UNCHANGED <<baux, generes, ids, bauxIds, jour, tx, purge>>

\* The INSERT of a new record takes a key from the sequence.
InsererNouvelle(r, f) ==
  /\ req[r].phase = "creation"
  /\ f \notin ids
  /\ IF ReferenceValide(req[r].val.bail, baux)
       THEN /\ fiches' = [fiches EXCEPT ![f] = req[r].val]
            /\ ids' = ids \cup {f}
       ELSE UNCHANGED <<fiches, ids>>
  /\ Repondre(r)
  /\ UNCHANGED <<baux, generes, bauxIds, jour, tx, purge>>

-----------------------------------------------------------------------------
(***************************************************************************)
(* The deleting transaction, shared by the purge and by the deletion of a  *)
(* candidate: lock and delete the rows, look for the leases nobody refers  *)
(* to any more, delete those with their generations, commit.  Until the    *)
(* commit the others still see the rows; the locks keep them from writing. *)
(***************************************************************************)
Ouvrir(a, F) == tx' = [tx EXCEPT ![a] = [etape |-> "verrou", fiches |-> F, baux |-> {}]]

Fermer(a) == tx' = [tx EXCEPT ![a] = AucuneTransaction]

\* The actor goes on after its transaction: the request answers, the
\* instance has a reminder to send when something was deleted.
Continuer(a, anciens) ==
  \/ /\ a \in Requetes
     /\ Repondre(a)
     /\ UNCHANGED purge
  \/ /\ a \in Instances
     /\ purge' = [purge EXCEPT ![a] =
                    [phase |-> IF anciens = {} THEN "prete" ELSE "rappel",
                     anciens |-> anciens]]
     /\ UNCHANGED req

\* Mutant: the state the handler read is trusted.
VerrouillerCandidatSansVerifier(r) ==
  LET f == req[r].fiche IN
  /\ req[r].phase = "suppression"
  /\ ~ Verrouillee(f)
  /\ IF Existe(f)
       THEN Ouvrir(r, {f}) /\ Avancer(r, "transaction")
       ELSE Repondre(r) /\ UNCHANGED tx
  /\ UNCHANGED <<tables, jour, purge>>

\* supprimerCandidat: the state is checked again on the locked row.
VerrouillerCandidat(r) ==
  LET f == req[r].fiche IN
  /\ req[r].phase = "suppression"
  /\ ~ Verrouillee(f)
  /\ IF Existe(f) /\ fiches[f].etat = "candidat"
       THEN Ouvrir(r, {f}) /\ Avancer(r, "transaction")
       ELSE Repondre(r) /\ UNCHANGED tx
  /\ UNCHANGED <<tables, jour, purge>>

\* purgerLocatairesSortis: all expired rows, once no other transaction holds one.
VerrouillerExpirees(i) ==
  LET F == {f \in Fiches : Existe(f) /\ Expiree(fiches[f], jour)} IN
  /\ purge[i].phase = "purge"
  /\ \A f \in F : ~ Verrouillee(f)
  /\ IF F = {}
       THEN /\ purge' = [purge EXCEPT ![i].phase = "prete"]
            /\ UNCHANGED tx
       ELSE /\ purge' = [purge EXCEPT ![i].phase = "transaction"]
            /\ Ouvrir(i, F)
  /\ UNCHANGED <<tables, jour, req>>

\* Mutants: every lease of the deleted rows, shared or not; the leases looked
\* for once the rows are gone; NULL kept among the keys.
OrphelinsPartages(F) == {b \in baux : \E f \in F : fiches[f].bail = b}
OrphelinsApres(F) ==
  {b \in baux : /\ \E f \in Fiches \ F : Existe(f) /\ fiches[f].bail = b
                /\ \A g \in Fiches \ F : Existe(g) => fiches[g].bail # b}
OrphelinsAvecNul(F) ==
  {b \in baux \cup {Nul} : /\ \E f \in F : fiches[f].bail = b
                          /\ \A g \in Fiches \ F : Existe(g) => fiches[g].bail # b}

\* A lease is an orphan when no row the transaction can see refers to it.
Orphelins(F) ==
  {b \in baux : /\ \E f \in F : fiches[f].bail = b
                /\ \A g \in Fiches \ F : Existe(g) => fiches[g].bail # b}

ConstaterOrphelins(a) ==
  /\ tx[a].etape = "verrou"
  /\ tx' = [tx EXCEPT ![a] = [etape |-> "orphelins", fiches |-> @.fiches,
                              baux |-> Orphelins(@.fiches)]]
  /\ UNCHANGED <<tables, jour, req, purge>>

\* Mutant: a table without the foreign key.
SansCleEtrangere(F, B) == TRUE

\* The DELETE of the leases passes the foreign key of "locataire".
SansReference(F, B) ==
  \A g \in Fiches \ F : Existe(g) => fiches[g].bail \notin B

Valider(a) ==
  /\ tx[a].etape = "orphelins"
  /\ SansReference(tx[a].fiches, tx[a].baux)
  /\ fiches' = [f \in Fiches |-> IF f \in tx[a].fiches THEN Absente ELSE fiches[f]]
  /\ generes' = generes \ tx[a].baux
  /\ baux' = baux \ tx[a].baux
  /\ Fermer(a)
  /\ Continuer(a, tx[a].fiches)
  /\ UNCHANGED <<jour, ids, bauxIds>>

\* A record created on the lease meanwhile: the foreign key refuses, rollback;
\* it waits as long as another transaction is deleting that record.
Annuler(a) ==
  /\ tx[a].etape = "orphelins"
  /\ \E g \in Fiches \ tx[a].fiches :
       Existe(g) /\ fiches[g].bail \in tx[a].baux /\ ~ Verrouillee(g)
  /\ Fermer(a)
  /\ Continuer(a, {})
  /\ UNCHANGED <<tables, jour>>

-----------------------------------------------------------------------------
(***************************************************************************)
(* An instance starts at each wake-up of the container, purges (with       *)
(* PURGE_LOCATAIRES=true), reminds the owner, and may be stopped at any    *)
(* point.                                                                  *)
(***************************************************************************)
Demarrer(i) ==
  /\ purge[i].phase = "arretee"
  /\ purge' = [purge EXCEPT ![i] = [phase |-> "purge", anciens |-> {}]]
  /\ UNCHANGED <<tables, jour, req, tx>>

\* The reminder is sent, or lost: no owner address, or the mail server
\* refuses, which is only a line in the log.
EnvoyerRappel(i) ==
  /\ purge[i].phase = "rappel"
  /\ purge' = [purge EXCEPT ![i] = [phase |-> "prete", anciens |-> {}]]
  /\ UNCHANGED <<tables, jour, req, tx>>

\* Mutant: a purge that was rolled back reminds all the same.
EchouerPurgeAvecRappel(i) ==
  /\ purge[i].phase \in {"purge", "transaction"}
  /\ purge' = [purge EXCEPT ![i] = [phase |-> "rappel", anciens |-> tx[i].fiches]]
  /\ Fermer(i)
  /\ UNCHANGED <<tables, jour, req>>

\* A statement of the purge fails: rollback, and a line in the log.
EchouerPurge(i) ==
  /\ purge[i].phase \in {"purge", "transaction"}
  /\ purge' = [purge EXCEPT ![i] = [phase |-> "prete", anciens |-> {}]]
  /\ Fermer(i)
  /\ UNCHANGED <<tables, jour, req>>

\* The host stops the container: an open transaction is rolled back.
Arreter(i) ==
  /\ purge[i].phase # "arretee"
  /\ purge' = [purge EXCEPT ![i] = [phase |-> "arretee", anciens |-> {}]]
  /\ Fermer(i)
  /\ UNCHANGED <<tables, jour, req>>

\* A statement fails or the process of the request stops.
Interrompre(r) ==
  /\ req[r].phase # "libre"
  /\ Repondre(r)
  /\ Fermer(r)
  /\ UNCHANGED <<tables, jour, purge>>

\* POST /generation: a new lease and the generation that refers to it.
SaveGeneration(b) ==
  /\ b \notin bauxIds
  /\ baux' = baux \cup {b}
  /\ generes' = generes \cup {b}
  /\ bauxIds' = bauxIds \cup {b}
  /\ UNCHANGED <<fiches, ids, jour, req, tx, purge>>

PasserJour ==
  /\ jour < JourMax
  /\ jour' = jour + 1
  /\ UNCHANGED <<tables, req, tx, purge>>

-----------------------------------------------------------------------------
DebutRequete(r) ==
  \/ \E b \in Baux, i \in Identites : CreateLocataire(r, b, i)
  \/ \E f \in Fiches :
       \/ \E i \in Identites : UpdateLocataire(r, f, i)
       \/ \E i \in Identites, b \in Baux \cup {Nul} : RattacherBail(r, f, i, b)
       \/ SignerBail(r, f)
       \/ MarquerBailEnvoye(r, f)
       \/ MarquerResiliationEnvoyee(r, f)
       \/ \E d \in Dates : MarquerSortie(r, f, d)
       \/ ReintegrerLocataire(r, f)
       \/ \E p \in BOOLEAN : DefinirConservationProlongee(r, f, p)
       \/ SupprimerCandidat(r, f)

SuiteRequete(r) ==
  \/ ChargerBail(r)
  \/ Relire(r)
  \/ MettreAJour(r)
  \/ Inserer(r)
  \/ \E f \in Fiches : InsererNouvelle(r, f)
  \/ VerrouillerCandidat(r)

SuiteTransaction(a) == ConstaterOrphelins(a) \/ Valider(a) \/ Annuler(a)

SuitePurge(i) ==
  VerrouillerExpirees(i) \/ EchouerPurge(i) \/ EnvoyerRappel(i)

Next ==
  \/ \E r \in Requetes : DebutRequete(r) \/ SuiteRequete(r) \/ Interrompre(r)
  \/ \E a \in Acteurs : SuiteTransaction(a)
  \/ \E i \in Instances : Demarrer(i) \/ SuitePurge(i) \/ Arreter(i)
  \/ \E b \in Baux : SaveGeneration(b)
  \/ PasserJour

Spec == Init /\ [][Next]_vars

\* The hosting: a stopped instance is woken up again, an idle one is put to
\* sleep; the purge, a matter of milliseconds at each start, is neither stopped
\* nor failing at every attempt for ever.
FairSpec ==
  /\ Spec
  /\ \A i \in Instances :
       /\ WF_vars(Demarrer(i))
       /\ SF_vars(VerrouillerExpirees(i))
       /\ SF_vars(ConstaterOrphelins(i))
       /\ SF_vars(Valider(i) \/ Annuler(i))
       /\ WF_vars(EnvoyerRappel(i))
       /\ WF_vars(purge[i].phase = "prete" /\ Arreter(i))

-----------------------------------------------------------------------------
(***************************************************************************)
(* Properties.                                                             *)
(***************************************************************************)

\* The foreign keys of "locataire" and "generation" hold at every moment,
\* whatever the deleting transactions and the other requests interleave.
IntegriteReferentielle ==
  /\ \A f \in Fiches : Existe(f) => ReferenceValide(fiches[f].bail, baux)
  /\ generes \subseteq baux

\* From its SELECT ... FOR UPDATE to its commit, a transaction holds rows that
\* are still there and still deletable, and that no other transaction holds:
\* a signature or a protection arriving meanwhile cannot slip in between.
VerrouLegitime ==
  /\ \A r \in Requetes : \A f \in tx[r].fiches :
       Existe(f) /\ fiches[f].etat = "candidat"
  /\ \A i \in Instances : \A f \in tx[i].fiches :
       Existe(f) /\ Expiree(fiches[f], jour)
  /\ \A a, b \in Acteurs : a # b => tx[a].fiches \cap tx[b].fiches = {}

\* The handlers, interleaved, stopped and restarted in any way, implement the
\* registry: only unsigned candidates and expired, unprotected tenants are
\* ever deleted, and a lease leaves only with its last record.
R == INSTANCE Registre
RespecteRegistre == R!SpecRegistre

\* The state and the date of departure of a record move together: a date if
\* and only if the tenant has left.
PaireEtatSortie ==
  \A f \in Fiches : Existe(f) =>
    (fiches[f].etat = "sorti" <=> fiches[f].sortie # Nul)

\* A record never becomes a candidate again, and a candidate never leaves a
\* flat he has not entered.
CycleDeVie ==
  [][\A f \in Fiches : Existe(f) /\ Existe(f)' =>
       /\ fiches'[f].etat = "candidat" => fiches[f].etat = "candidat"
       /\ fiches[f].etat = "candidat" => fiches'[f].etat # "sorti"]_vars

\* The edit modal never overwrites a recorded fact: the signature, the
\* departure, the protection, a letter that was sent.
FaitsHorsModale ==
  [][\A r \in Requetes : req[r].op = "modifier" /\ req'[r] # req[r] =>
       \A f \in Fiches : Existe(f) /\ Existe(f)' =>
         /\ fiches'[f].etat = fiches[f].etat
         /\ fiches'[f].sortie = fiches[f].sortie
         /\ fiches'[f].conservation = fiches[f].conservation
         /\ fiches'[f].bailEnvoye = fiches[f].bailEnvoye
         /\ fiches'[f].congeEnvoye = fiches[f].congeEnvoye]_vars

\* A deleted record takes its lease and its generation along, unless another
\* record still refers to the lease.
BailEmporte ==
  [][\A f \in Fiches :
       Existe(f) /\ ~ Existe(f)' /\ fiches[f].bail \in baux' \cup generes' =>
         \E g \in Fiches : Existe(g)' /\ fiches'[g].bail = fiches[f].bail]_vars

\* A reminder only names records that its own instance has just deleted: of
\* several instances that start together one names a record, and none does for
\* a purge that failed or was rolled back.
RappelUnique ==
  [][\A i \in Instances : \A f \in purge'[i].anciens \ purge[i].anciens :
       Existe(f) /\ ~ Existe(f)']_vars

\* Data past its retention period does not stay: an expired record is deleted,
\* or stops being expired.
ExpireeFinitEffacee ==
  \A f \in Fiches :
    (Existe(f) /\ Expiree(fiches[f], jour)) ~> ~ (Existe(f) /\ Expiree(fiches[f], jour))
=============================================================================
