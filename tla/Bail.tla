-------------------------------- MODULE Bail --------------------------------
(***************************************************************************)
(* The leases: drafts that are saved, taken up again and deleted, and the  *)
(* generations that turn a form into a lease handed to a tenant.  A lease  *)
(* is a draft as long as no generation refers to it: nothing else tells    *)
(* the two apart.  Each handler is a sequence of SQL statements that the   *)
(* others interleave with; the tenant records are there as far as they     *)
(* refer to a lease (Locataire has the rest of them).                      *)
(***************************************************************************)
EXTENDS Naturals

CONSTANTS
  Requetes,     \* HTTP requests in progress at the same time
  Baux,         \* primary keys of "result_form"
  Generations,  \* primary keys of "generation", drawn or sent by the client
  Fiches,       \* tenant records
  Valeurs,      \* values of a column of the form
  Absente,      \* no row with this key
  Nul,          \* SQL NULL
  Inchange      \* a column an UPDATE statement does not mention

\* Two columns stand for the form: one of those that are encrypted (name,
\* e-mail, address...) and one of the others (rents, dates, flat...).
Saisie == [nom : Valeurs, loyer : Valeurs]

ASSUME BailAssumption ==
  /\ Absente \notin Saisie \cup Baux
  /\ Nul \notin Saisie \cup Baux
  /\ Inchange \notin Valeurs
  /\ Absente # Nul

VARIABLES
  saisies,      \* the table "result_form"
  bauxIds,      \* keys its sequence has handed out
  generations,  \* the table "generation": the lease each row refers to
  fiches,       \* the lease each tenant record refers to
  req           \* where each request is

vars == <<saisies, bauxIds, generations, fiches, req>>

\* What an UPDATE of a draft carries.  A random IV makes an encrypted column
\* differ from what was read every time: it is always in the SET clause.
MiseAJour == [nom : Valeurs, loyer : Valeurs \cup {Inchange}]

Phases == {"libre", "verification", "relecture", "maj", "insertion", "suppression",
           "generation", "regeneration", "rattachement"}

EtatRequete ==
  [phase : Phases, cle : Baux \cup Generations \cup {Nul},
   val : Saisie \cup MiseAJour \cup {Nul}]

TypeOK ==
  /\ saisies \in [Baux -> Saisie \cup {Absente}]
  /\ bauxIds \in SUBSET Baux
  /\ generations \in [Generations -> Baux \cup {Nul, Absente}]
  /\ fiches \in [Fiches -> Baux \cup {Nul, Absente}]
  /\ req \in [Requetes -> EtatRequete]

-----------------------------------------------------------------------------
Existe(b) == saisies[b] # Absente

Genere(b) == \E g \in Generations : generations[g] = b

\* The foreign keys of "generation" and "locataire" on "result_form".
Reference(b) == Genere(b) \/ \E f \in Fiches : fiches[f] = b

Libre == [phase |-> "libre", cle |-> Nul, val |-> Nul]

Repondre(r) == req' = [req EXCEPT ![r] = Libre]

Attendre(r, phase, cle, val) ==
  req' = [req EXCEPT ![r] = [phase |-> phase, cle |-> cle, val |-> val]]

Init ==
  /\ saisies = [b \in Baux |-> Absente]
  /\ bauxIds = {}
  /\ generations = [g \in Generations |-> Absente]
  /\ fiches = [f \in Fiches |-> Absente]
  /\ req = [r \in Requetes |-> Libre]

-----------------------------------------------------------------------------
(***************************************************************************)
(* Drafts.                                                                 *)
(***************************************************************************)
CreerBrouillon(b, s) ==
  /\ b \notin bauxIds
  /\ saisies' = [saisies EXCEPT ![b] = s]
  /\ bauxIds' = bauxIds \cup {b}
  /\ UNCHANGED <<generations, fiches, req>>

\* The first read of PUT (s is the form that replaces the draft) and of
\* DELETE (s is Nul); an unknown key is answered 404.
LireBrouillon(r, b, s) ==
  /\ req[r].phase = "libre"
  /\ Existe(b)
  /\ Attendre(r, "verification", b, s)
  /\ UNCHANGED <<saisies, bauxIds, generations, fiches>>

\* 409 for a lease that was generated.
RefuserSiGenere(r) ==
  LET b == req[r].cle
      s == req[r].val
  IN
  /\ req[r].phase = "verification"
  /\ IF Genere(b) THEN Repondre(r)
     ELSE Attendre(r, IF s = Nul THEN "suppression" ELSE "relecture", b, s)
  /\ UNCHANGED <<saisies, bauxIds, generations, fiches>>

Colonne(voulue, relue) == IF voulue = relue THEN Inchange ELSE voulue

Garde(nouvelle, ancienne) == IF nouvelle = Inchange THEN ancienne ELSE nouvelle

\* Mutant: a column that was not in the SET clause is lost.
FusionSansGarde(maj, s) == maj

Fusion(maj, s) ==
  [nom |-> maj.nom, loyer |-> Garde(maj.loyer, s.loyer)]

\* save() reads the row again and keeps the columns that differ from this
\* read; when the row is gone, it is the whole form under its old key.
Relire(r) ==
  LET b == req[r].cle
      s == req[r].val
  IN
  /\ req[r].phase = "relecture"
  /\ IF Existe(b)
       THEN Attendre(r, "maj", b, [nom   |-> s.nom,
                                   loyer |-> Colonne(s.loyer, saisies[b].loyer)])
       ELSE Attendre(r, "insertion", b, s)
  /\ UNCHANGED <<saisies, bauxIds, generations, fiches>>

MettreAJour(r) ==
  LET b == req[r].cle IN
  /\ req[r].phase = "maj"
  /\ saisies' = IF Existe(b) THEN [saisies EXCEPT ![b] = Fusion(req[r].val, @)] ELSE saisies
  /\ Repondre(r)
  /\ UNCHANGED <<bauxIds, generations, fiches>>

Inserer(r) ==
  LET b == req[r].cle IN
  /\ req[r].phase = "insertion"
  /\ saisies' = IF Existe(b) THEN saisies ELSE [saisies EXCEPT ![b] = req[r].val]
  /\ Repondre(r)
  /\ UNCHANGED <<bauxIds, generations, fiches>>

\* Mutant: nothing in the database holds a lease that is referred to.
SupprimerBrouillonSansCle(r) ==
  /\ req[r].phase = "suppression"
  /\ saisies' = [saisies EXCEPT ![req[r].cle] = Absente]
  /\ Repondre(r)
  /\ UNCHANGED <<bauxIds, generations, fiches>>

\* The DELETE; a foreign key that refers to the row refuses it.
SupprimerBrouillon(r) ==
  LET b == req[r].cle IN
  /\ req[r].phase = "suppression"
  /\ saisies' = IF Reference(b) THEN saisies ELSE [saisies EXCEPT ![b] = Absente]
  /\ Repondre(r)
  /\ UNCHANGED <<bauxIds, generations, fiches>>

-----------------------------------------------------------------------------
(***************************************************************************)
(* Generations.  The form of the body becomes a new row of "result_form",  *)
(* even when it was typed in from a draft.  A client that sends the id of  *)
(* a generation gets that row updated.                                     *)
(***************************************************************************)
\* save() looks for the generation before its transaction.
SaveGeneration(r, g, s) ==
  /\ req[r].phase = "libre"
  /\ Attendre(r, IF generations[g] = Absente THEN "generation" ELSE "regeneration", g, s)
  /\ UNCHANGED <<saisies, bauxIds, generations, fiches>>

\* Mutant: the generation takes the row of the draft over.
EcrireGenerationSurBrouillon(r, b) ==
  LET g == req[r].cle IN
  /\ req[r].phase \in {"generation", "regeneration"}
  /\ req[r].val # Nul
  /\ Existe(b)
  /\ saisies' = [saisies EXCEPT ![b] = req[r].val]
  /\ generations' = [generations EXCEPT ![g] = b]
  /\ Repondre(r)
  /\ UNCHANGED <<bauxIds, fiches>>

\* The transaction: the new lease, then the INSERT of the generation, which
\* fails when the key was taken meanwhile, or its UPDATE, which may find
\* nothing to update any more.
EcrireGeneration(r, b) ==
  LET g == req[r].cle
      presente == generations[g] # Absente
  IN
  /\ req[r].phase \in {"generation", "regeneration"}
  /\ req[r].val # Nul
  /\ b \notin bauxIds
  /\ IF req[r].phase = "generation" /\ presente
       THEN UNCHANGED <<saisies, generations>>
       ELSE /\ saisies' = [saisies EXCEPT ![b] = req[r].val]
            /\ generations' = IF req[r].phase = "regeneration" /\ ~ presente
                                THEN generations
                                ELSE [generations EXCEPT ![g] = b]
  /\ bauxIds' = bauxIds \cup {b}
  /\ Repondre(r)
  /\ UNCHANGED fiches

\* A body without a form: the generation refers to nothing.
EcrireGenerationSeule(r) ==
  LET g == req[r].cle
      presente == generations[g] # Absente
  IN
  /\ req[r].phase \in {"generation", "regeneration"}
  /\ req[r].val = Nul
  /\ generations' = IF (req[r].phase = "regeneration") = presente
                      THEN [generations EXCEPT ![g] = Nul] ELSE generations
  /\ Repondre(r)
  /\ UNCHANGED <<saisies, bauxIds, fiches>>

-----------------------------------------------------------------------------
(***************************************************************************)
(* The tenant records, as far as they refer to a lease.                    *)
(***************************************************************************)
\* getResultForm of createLocataire and updateLocataire.
LireBail(r, b) ==
  /\ req[r].phase = "libre"
  /\ Existe(b)
  /\ Attendre(r, "rattachement", b, Nul)
  /\ UNCHANGED <<saisies, bauxIds, generations, fiches>>

\* The INSERT or UPDATE of the record; its foreign key wants the lease there.
Rattacher(r, f) ==
  LET b == req[r].cle IN
  /\ req[r].phase = "rattachement"
  /\ fiches' = IF Existe(b) THEN [fiches EXCEPT ![f] = b] ELSE fiches
  /\ Repondre(r)
  /\ UNCHANGED <<saisies, bauxIds, generations>>

Detacher(f) ==
  /\ fiches[f] \in Baux
  /\ fiches' = [fiches EXCEPT ![f] = Nul]
  /\ UNCHANGED <<saisies, bauxIds, generations, req>>

\* A deleting transaction: the record, and the lease with its generations when
\* no other record refers to it; two that overlap may both leave the lease.
Effacer(f, emporte) ==
  LET b == fiches[f]
      part == emporte /\ b \in Baux /\ \A h \in Fiches \ {f} : fiches[h] # b
  IN
  /\ b # Absente
  /\ fiches' = [fiches EXCEPT ![f] = Absente]
  /\ saisies' = IF part THEN [saisies EXCEPT ![b] = Absente] ELSE saisies
  /\ generations' = [g \in Generations |->
                       IF part /\ generations[g] = b THEN Absente ELSE generations[g]]
  /\ UNCHANGED <<bauxIds, req>>

\* A statement fails or the process of the request stops.
Interrompre(r) ==
  /\ req[r].phase # "libre"
  /\ Repondre(r)
  /\ UNCHANGED <<saisies, bauxIds, generations, fiches>>

-----------------------------------------------------------------------------
NextRequete(r) ==
  \/ \E b \in Baux :
       \/ \E s \in Saisie \cup {Nul} : LireBrouillon(r, b, s)
       \/ EcrireGeneration(r, b)
       \/ LireBail(r, b)
  \/ RefuserSiGenere(r)
  \/ Relire(r)
  \/ MettreAJour(r)
  \/ Inserer(r)
  \/ SupprimerBrouillon(r)
  \/ \E g \in Generations, s \in Saisie \cup {Nul} : SaveGeneration(r, g, s)
  \/ EcrireGenerationSeule(r)
  \/ \E f \in Fiches : Rattacher(r, f)
  \/ Interrompre(r)

Next ==
  \/ \E b \in Baux, s \in Saisie : CreerBrouillon(b, s)
  \/ \E r \in Requetes : NextRequete(r)
  \/ \E f \in Fiches : Detacher(f)
  \/ \E f \in Fiches, emporte \in BOOLEAN : Effacer(f, emporte)

Spec == Init /\ [][Next]_vars

-----------------------------------------------------------------------------
(***************************************************************************)
(* Properties.                                                             *)
(***************************************************************************)

\* Generations and records never refer to a lease that is not there.
ReferencesTenues ==
  /\ \A g \in Generations : generations[g] \in Baux => Existe(generations[g])
  /\ \A f \in Fiches : fiches[f] \in Baux => Existe(fiches[f])

\* A lease is generated once: the relation is OneToOne, though the table has
\* no unique constraint.
UneGenerationParBail ==
  \A g, h \in Generations :
    generations[g] = generations[h] /\ generations[g] \in Baux => g = h

\* A generated lease is the trace of what the tenant was handed: whatever
\* passed the check of refuserSiGenere earlier, nothing rewrites it, and it
\* only goes with its last record.
BailGenereFige ==
  [][\A b \in Baux : Genere(b) /\ saisies'[b] # saisies[b] =>
       /\ saisies'[b] = Absente
       /\ \E f \in Fiches : fiches[f] = b /\ fiches'[f] = Absente]_vars
=============================================================================
