# A TLA+ model of the rental back end

The program is the NestJS/PostgreSQL API of a landlord's application: tenant
records, leases and the documents drawn from them, flats and their rents, and
the access to all that. This directory holds its formal model, the instances
TLC checks and the theorems TLAPS proves. Line numbers of this file are those of
`src/src/`; `PROJECT.json` maps every definition to the lines it stands for.

Most of the code is short. What makes it hard is that there is hardly a lock in
it: a handler reads a row, waits, and writes it with TypeORM's `save()`, in
statements other handlers interleave with; the purge runs at the start of every
instance, and the host starts, stops and doubles instances as it likes.

## 1. The system

### Components

**Tenant records** (`locataire/locataire.service.ts`). State: the table
`locataire` — state (`candidat`, `locataire`, `sorti`), date of departure,
`conservation_prolongee`, the lease, the dates of two letters and what the edit
modal fills in. Operations: create, edit, attach or detach a lease, sign, mark a
letter as sent, mark a departure, reintegrate, protect from the purge, delete a
candidate. Every edit is a read (`getLocataireById`), a check, an optional read of
the lease, and a `save()`, which itself reads the row again and updates the
columns that differ from that second read, or inserts the whole entity when the
row has gone. Correct when: foreign keys hold, state and date agree, the life
cycle is respected, the modal overwrites no recorded fact.

**Purge** (`locataire/locataire-purge.ts`, `locataire-purge.service.ts`,
`purge-locataires.ts`). Tenants gone for longer than the retention period are
deleted with their lease and its generation, at every start of an instance where
`PURGE_LOCATAIRES=true` (the models have it on: off, there is nothing to check); the
owner gets one reminder by mail. The transaction body (SELECT … FOR UPDATE, DELETE
of the records, search for orphan leases, DELETE of those) is shared with the
deletion of a candidate. Correct when: nobody else is ever deleted, no lease is
lost or left behind, two instances do not do the work twice, an interrupted purge
leaves nothing half done and a later one finishes.

**Leases and generations** (`generation/`). State: the tables `result_form` and
`generation`. A row of `result_form` is a draft as long as no `generation` refers to it;
drafts are edited and deleted, a generation stores the form again as a new lease.
Correct when: a generated lease, the trace of what the tenant was handed, is
frozen, though the check (`refuserSiGenere`) and the write are apart.

**Flats: reference rents** (`appartement/appartement.service.ts`). Flats 1 and 4 are
one residence ("Filature") whose reference rents must stay aligned: a write to one
is repeated on the other, without a transaction. **Rooms and characteristics**
(`chambre/`, `caracteristique/`) are rows that belong to a flat; the deletion of a flat
deletes them first, in one transaction, while the routes that create, move and delete
them go on. Correct when: an edit leaves the residence aligned and writes nothing it
was not asked to, a flat leaves with all its rows or not at all. **Flats: rent index**
(`irl/irl.service.ts` and `applyLatestIrl`). Reading a flat fills its index with the
last value INSEE published, cached in memory for some hours, unless the owner typed
one. Correct when: a typed index is kept, an automatic one ends up current.

**Session** (`auth/`). One account: a password (refused as soon as a passkey is
registered), one digest of the accepted refresh token, one magic link, passkeys,
a table of failed attempts per address, two scripts run from a terminal. Correct
when: a link opens one session, attempts are bounded, locks end, no session is
left that nobody holds. Several tabs of a browser share its cookies, and nothing
in the server orders their calls (the single-flight of `doc-authentification.md:359-364` is
one tab's `/auth/refresh`).

**Encryption** (`common/encryption.ts`, `database/chiffrer-donnees.ts`). Personal
columns go through a TypeORM transformer that writes with the current key and reads
with the current one, then the previous one. A script encrypts what is in clear or under the
previous key, in one transaction; the owner changes the key on the host, runs the
script, drops the previous key. Correct when: every value opens with the keys the host has, a
committed script leaves nothing behind, and no change of key alters a text.

**Documents** (`documents/`) and **mail** (`mail/`). Letters are converted to PDF by LibreOffice, one at a
time: `DocumentsService` chains the conversions on one promise. A request of several
documents awaits them one after the other, then sends one mail. Correct when: conversions are served in
order and alone, a failed one harms nobody behind it, a letter leaves whole and at most once, every request ends.

**Landlords**, **database set-up**, **health and bootstrap**: see section 8.

### How they interact

- `LocataireService` reads a lease (`getResultForm`) before it refers to it; the
  foreign keys on `result_form` (migrations 1700000034000 and the baseline) are what
  stops a lease from being deleted between the two.
- The purge writes three tables of two components; `EcrireGeneration` creates leases
  while it runs.
- `appartement` calls `IrlService` in every read; the answer may take 15 seconds,
  and the rows are updated after it.
- The purge and the login links send their own mails; their failure is a step of `Locataire` and of `Session`.
- The documents and mail services share one SMTP configuration, which shows as missing only when a mail is composed, after
  the conversions it was to carry.
- Encryption shows in the others: a random IV makes an encrypted column differ at
  every `save()`, which is why those columns are always in the UPDATE.

### Hard behaviours

Two requests in any order of statements; a check that is stale when the write
comes; a row that has gone between the two; two instances starting together; a stop
in the middle of a transaction, or between two statements that have none; an answer
that arrives late or never. `PROJECT.json` lists them one by one under "hazards",
each at its line, with the properties that cover it.

## 2. The modules

| module | models | state |
|---|---|---|
| `Fiche` | rows of `locataire`, what one `save()` does to a row | – |
| `Locataire` | handlers of the records, deleting transactions, purge | the three tables, the day, key sequences, where each request, transaction and instance is, reminders sent |
| `Registre` | what the registry promises (abstract specification) | the three tables and the day |
| `LocataireProofs` | theorems about `Locataire` | – |
| `Bail` | drafts, generations, references of the records | `result_form`, `generation`, the reference of each record, requests |
| `BailProofs` | theorems about `Bail` | – |
| `Filature` | writes of the reference rents and their repetition on the twin | the two columns of each flat, requests |
| `Logement` | composes `Filature` with rooms, characteristics and the deletion of flats | + the flat each row refers to, key sequences, deletions |
| `LogementProofs` | theorems about `Logement` | – |
| `Irl` | rent index | three columns of each flat, cache, what INSEE has published, reads |
| `Session` | authentication | account row, passkeys, failures, cookies, links, requests, script |
| `SessionProofs` | theorems about `Session` | – |
| `Chiffrement` | encrypted columns, instances with their keys, the script, the owner | rows, keys of the host and of each instance, requests, the script and what it holds |
| `Carnet` | what encryption promises (abstract specification) | the texts, the copies the script holds |
| `ChiffrementProofs` | theorems about `Chiffrement` | – |
| `Documents` | conversions and mails | requests, promises, `this.file`, mails that left, SMTP configuration |
| `Guichet` | a queue with one clerk (abstract specification) | tickets drawn, called, being served |
| `DocumentsProofs` | theorems about `Documents` | – |
| `MCLocataire`, `MCBail`, `MCLogement`, `MCSession`, `MCChiffrement`, `MCDocuments` | small instances, symmetries | – |

Conventions. One action is one SQL statement (or a transaction whose statements
nobody can tell apart), because PostgreSQL at READ COMMITTED interleaves there.
A request is a record `[phase, key, value]`: the phase names the statement that comes
next and the value is the entity in memory, already changed. A refusal (400, 404, 409) that
changes nothing is not a step, or sends the request back to `Libre`. `Interrompre`
stops a request anywhere. A column is kept if some handler reads it to
decide, or if a property is about it; other columns are one abstract value.
`Inchange` marks a column that an UPDATE does not mention.

**Locataire.** `Charger` is `getLocataireById` followed by the guard and the change
in memory; `ChargerBail` is `getResultForm`; `Relire`, `MettreAJour` and `Inserer` are the statements of
`save()`; `Difference` and `Fusion` (in `Fiche`) its column-wise comparison.
`VerrouillerCandidat` and `VerrouillerExpirees` are the locked SELECTs,
`ConstaterOrphelins` the search for orphans, `Valider` the deletes and the commit, `Annuler` the
foreign key's refusal, `EchouerPurge` and `Arreter` failures and stops, all of which roll back.
A transaction's deletes become visible at `Valider`; until then a row it
holds is locked, and writers wait. `PurgeService` at start-up (with `PURGE_LOCATAIRES=true`, which is
off by default: the model is the configuration with it on) is `Demarrer` …
`EnvoyerRappel`. The command-line purge is an instance
that stops before its reminder; its dry run one that is rolled back.

**Bail.** `LireBrouillon`, `RefuserSiGenere`, then the statements of `save()` or the DELETE:
the check and the write are two steps. `SaveGeneration` is the lookup `save()` does
before its transaction, `EcrireGeneration` that transaction. `Effacer` is a deleting
transaction of `Locataire` as one step; its `emporte` is free to be false, which is how two that
overlap both leave the lease.

**Filature.** `Ecrire` is the UPDATE of the request's own flat, `LireJumeau` and
`AlignerJumeau` the two statements of `syncFilatureGroup` for each amount that is
repeated; `ChampRentRef` is the odd rule that a NULL `rentRef` goes to `rentRefMaj`.

**Logement.** `CreerEnfant`, `UpdateChambre` and `SupprimerEnfant` are the routes of rooms and characteristics,
one statement each as far as others can tell. `DeleteAppartement` is the check of the route; the transaction is
`SupprimerCaracteristiques`, `SupprimerChambres` (each takes the rows its DELETE finds and keeps them locked, `pris`) and
`TerminerSuppression`, the DELETE of the flat with the commit, or the foreign key's refusal (`Refuse`) when a row came after
the first two. `Abandonner` is every other failure. A room that was deleted can come back: `UpdateChambre` with a flat in
its body has loaded the room, and `save()` inserts it when it has gone. POST `/appartement` creates the row only; the
collections its body may carry are left out.

**Irl.** A quarter stands both for an index and for its label. A read loads
(`Charger`), waits (`RepondreInsee` computes the answer, `RecevoirIrl` stores it when it
arrives, `EchouerIrl` falls back on the cached value of when it began) and updates
row by row (`ApplyLatestIrl`).

**Session.** Time is relative: a token, a link and a failure are each represented by the time
they have left, and `Ecouler` takes one unit from all. This keeps the state finite
without bounding the clock, and it is what the code compares (`magic_link_expires_at`
against a limit, `created_at` against a window, `exp` against now). A refresh token is
its remaining time, since its payload is a constant subject and its dates: two signed in
the same second are the same token, as in the code. A browser has any number of
calls in progress, and receives their answers (`SetCookies`, `ClearCookies`) in any order. `ouvertures`, `soldes`,
`depassees` and `perdue` are history variables: `depassees` holds the answers that were on their way to
a browser when a session was written for it, `perdue` says that the session's answer was lost, or that one of those came after it
and replaced or cleared its cookie. `Operations` picks the handlers an instance exercises.

**Chiffrement.** A value is the number of the key that wrote it (0: in clear) and its text. The cipher is
authenticated, so that a value opens with that key and no other. `EtatValeur`, `Dechiffrer` and `Chiffrer` are the functions of the
transformer. An instance keeps the environment it was started with (`api`); `Charger` fails, and changes nothing, as soon as one
value of the row does not open; `Enregistrer` is `save()`, which writes every encrypted column again, under the
instance's current key. The script goes column by column: `LireColonne` is the SELECT, `RechiffrerValeur` one value of it
and its UPDATE by key, `ValiderReprise` the commit, `AnnulerReprise` the trial run and every failure. `ChangerCle` and `RetirerPrecedente`
are the owner, in the order "Changer de clé" of the repository's README documents: one change at a time, the script in
between, with all instances on the current key (the script shows the fingerprint for that comparison).

**Documents.** `conversions` is the list of promises `convertirEnPdf` made, `apres` what `this.file` was at that moment.
`LancerConversion` may run as soon as that promise has settled, either way; nothing else in the model (as in the code) makes it
a queue. `Continuer` is a handler that resumes after its `await`: it takes the PDF, then asks for
the next conversion, answers, or composes the mail; a rejected promise is a 500. `Envoyer` lets the server take the mail and the acknowledgement be
lost. `Redemarrer` loses everything in memory. A client that leaves, or a gateway that
answers 504 in its place (`doc-deploiement-backend.md:474-477`), changes nothing for a handler: there is no action for it.

## 3. The abstract specifications

`Registre` has four steps: a row is written whole while its lease exists; a set of rows
leaves, all of them expired and unprotected, or one unsigned candidate, with some of the
leases that only they referred to; a lease is published; a day passes. `Locataire` has some twenty-five actions,
locks, transactions, rollbacks and stops. `RespecteRegistre` says every behaviour of
`Locataire` is one of `Registre` (the mapping is the identity on the tables: what a request or a
transaction holds in memory is a stutter).

`Carnet` knows texts and no keys: a row is written or deleted, a script copies texts and puts copies back.
`Transparence` maps each row of `Chiffrement` to what a process started now would read in it, and the script's reads and uncommitted writes to
copies. So every change of key, every start, trial run and refused request is a stutter: nobody can see them in the texts. It
also bounds what the script can undo: it may overwrite an edit committed after its SELECT (`chiffrer-donnees.ts:71` updates by
key alone), but only with a text it has itself read in that place since it was started.

`Guichet` is a counter with one clerk: tickets are drawn, called in order, one at a time. `ServieEnFile` maps the promises of `Documents`
to tickets: the chain on `this.file` is such a queue, and a failed conversion is a served ticket.

TLC checks the three refinements and TLAPS proves them.

## 4. The runs

| run | question | expected |
|---|---|---|
| `locataire_concurrence` | two requests and one purging instance, on a shared lease: types, foreign keys, locks, refinement | holds |
| `locataire_sequentiel` | all handlers, one at a time, with the purge: state and date agree, life cycle, the modal overwrites nothing | holds |
| `locataire_purge` | two instances, two expired records on one lease, creations meanwhile: one reminder for one deletion, leases leave with the last record, everything expired is finally deleted | holds |
| `colocation_orpheline` | two candidates of one lease deleted at once | violated |
| `bail_cycle` | two requests on drafts, generations, records: references, one generation per lease, generated leases frozen | holds |
| `logement` | all writes of the rents, and a deletion among edits of rooms, cut short anywhere: alignment is restored, nothing else is written, a flat leaves whole | holds |
| `irl` | two overlapping reads, late answers, restarts, the owner typing: an automatic index always comes up to date again | holds |
| `irl_saisie_ecrasee` | the owner types while a read waits for INSEE | violated |
| `session` | two requests, from tabs of one or of two browsers, links, passkeys, logouts, answers lost or in another order: links are used once, spaced, no orphan session | holds |
| `verrou` | logins from two addresses with two passwords: failures bounded, locks end | holds |
| `chiffrement` | two instances and the script through two changes of key: everything stays readable, a committed script is complete, keys do not show | holds |
| `documents` | three requests, failing conversions and mails, stops: a queue, whole letters, every request ends | holds |

The two violated runs each check one sentence of the repository against what the
code does; `PROJECT.json` quotes the sentence under "findings". In short:

1. *A shared lease can be orphaned* (`locataire-purge.ts:116`). Two transactions that delete the last two records of
   a lease each see the other's record, and both leave the lease. It cannot
   happen between two purges (`locataire_purge`), because each locks all expired records.
2. *A typed index can be replaced* (`appartement.service.ts:216`). The UPDATE after the call to INSEE does not
   check `irl_manual` again.

A promise of the code that it keeps for one request at a time only: signature and letters are facts the edit form must
not be able to overwrite (`locataire.service.ts:170-171` and `207-209`). When an edit and a signature of one record overlap, it does:
the edit loads the record, the signature commits, `save()` reads again, finds that `etat` differs from its entity and writes `candidat`
back (`locataire.service.ts:163`). TLC shows it as soon as `locataire_sequentiel` has two requests; no run of its own is kept for it. The same
happens to the departure and the protection. That is why `PaireEtatSortie`, `FaitsHorsModale` and `CycleDeVie` are checked
for one request at a time, and proved as long as no record is edited in two places at once.

Steps the models contain, about which no property is stated because the code does not
promise anything:

- an earlier generation that is sent again is pointed to the new lease (`generation.service.ts:40`): the lease it
  referred to is a draft again, and editable. `BailGenereFige` is about the leases a generation refers to at the moment;
- a tenant whom the purge deletes while a handler has the record in memory comes back: `save()` inserts an entity whose row has
  gone (`locataire.service.ts:253`); so does a room;
- a draft can be attached to a record (`getResultForm` accepts any lease), and stays editable;
- an emptied `rentRef` is not repeated on the twin, an emptied `rentRefMaj` is;
- a refresh that overlaps a logout, or `auth:seed`, writes a new token after it: the session is open again;
- two tabs: a refresh passes its guard, a logout revokes, `issueTokens` writes the new digest, the answer of the refresh sets the
  cookie and that of the logout, which was sent first, clears it. The account accepts a token nobody holds until it expires, though no
  answer was lost. `AucuneSessionOrpheline` excludes exactly this (an answer that overtakes another to the same browser) and lost
  answers; without the first exception TLC finds the trace. Every other overlap of tabs is covered;
- two refresh tokens of the same second are identical, where
  `doc-authentification.md:103` expects a rotation to invalidate the earlier one;
- "un envoi par minute" (`doc-authentification.md:483`) holds as long as links are not used: consuming one clears the
  date the interval is measured from. `EnvoisEspaces` is stated for those.

## 5. Bounds, and why they are enough

Keys, names and values are model values; symmetry is declared only where they are interchangeable and the run has
no liveness property.

- *Locataire.* Two records and one lease are the smallest table on which a lease
  is shared and outlives one of its records. Two requests are enough for every pairwise race; a third would have to
  race with both, and a row is written by one statement. Departures are dated day 0 and the retention is one day, so that
  a record is expired from day 2; `JourMax` stops the calendar after that. `locataire_concurrence` exercises
  the four handlers that can collide with a deletion (edit with and without a lease, signature, protection, deletion);
  `locataire_sequentiel` all nine. `locataire_purge` needs four keys, two for the expired records and two for creations meanwhile.
- *Bail.* Two of everything: a draft and the lease generated from it, a generation and one that
  collides with it, two requests. Keys of leases are never handed out twice, so the run stops when
  they are used up and edits of what is there remain.
- *Logement.* One request that edits rents at a time: the alignment is not promised to two (the application
  has one account) and the values do end up swapped when two edits of the twins cross. Three flats: the twins and one outside. One amount
  and NULL are enough to tell aligned from misaligned and written from left alone. One deletion, one room, one
  characteristic: the rows race with the transaction one by one. Two deletions over two flats (371 604 states) and three flats with two
  amounts (4.1 million) were checked as well. Keys of rooms are never handed out twice.
- *Irl.* Two reads, one flat, two quarters: what overlaps is two fetches, each about one row at a time. `Charger` over
  all flats and over one coincide here; a read over two flats was checked as well, with one read.
- *Session.* Two requests, from one browser (two tabs) or from two; in `verrou` one browser at each of two addresses. At most two
  links are alive: a third would need three intervals within a link's life. Durations are a few units,
  chosen so that `DUREE_LIEN > MIN_INTERVAL + RetardMax`: a time that has run out is then never confused with one that is
  short. `RetardMax` bounds the time between `Date.now()` and the UPDATE.
- *Chiffrement.* One row with two columns (one in clear, one under the first key), two instances, three keys: two changes, so that
  the first key is forgotten while values may still depend on the second. Two columns are what the script goes through without coming back; two
  instances can have different environments. Two rows of one column were checked as well. `DerniereCle` bounds the changes.
- *Documents.* Three requests let two wait behind one; each may carry one or two documents, or be refused (empty, too many, not a Word
  document). `MaxDocuments` is 2 in place of 12.

`CHECK_DEADLOCK` is off in `documents` only: every request may be finished and the queue empty. No other run stops.

## 6. Fairness

Safety runs use `Spec`, which has none.

- `Locataire!FairSpec` (`ExpireeFinitEffacee`): a stopped instance is started again, an idle one is stopped — this
  is how the host (scale to zero) works, and the purge runs only at a start. The
  statements of the purge have strong fairness: they can be interrupted by a stop or a
  failure any number of times, but not at every attempt for ever; `Valider` and `Annuler` together, since
  which of them is possible depends on the other requests. No fairness is assumed of requests:
  an open deleting transaction of a request that never goes on is excluded by the run's operations (creations only).
- `Irl!SpecEquitable` (`IrlFinitAJour`): `Expirer` is the TTL, `EchouerIrl` the 15-second timeout (weak). For each flat, strong
  fairness of being read, of INSEE answering a read of it, of that answer arriving and of the row being written: the owner
  keeps looking, and INSEE is not down at every attempt. The property is `[]<>`: an automatic index that got old is current again at some later time.
- `Session!SpecTemps` (`VerrouTemporaire`): only that time passes. Requests may retry for ever.
- `Documents!SpecEquitable` (`TouteDemandeAboutit`): weak fairness of the service (a promise that can settle does; soffice ends) and of each handler
  (it resumes; the mail server answers or the connection times out). That soffice ends is an assumption: the code gives it no time limit
  (`documents.service.ts:63`). Nothing is assumed of stops.

## 7. What is proved

All proofs are for every value of the constants: any number of records, leases,
requests, instances, any retention.

**`LocataireProofs`** (from `DonneesAssumption`, `ValeursAssumption` and `TableInitAssumption`: dates are
numbers, NULL is neither a key nor a date, an absent column of an UPDATE is no value, the initial table obeys its
foreign keys, requests and instances are different things). The inductive invariant is `TypeOK`, `IntegriteReferentielle` and `VerrouLegitime` with three
more conjuncts: `ValTypee`, what a request carries in each phase (an update in `maj`, a whole row before it, the key of a record
that was once inserted); `ClesConnues`, a row has a key of its sequence, so that a new record never lands on a row
that is there or was reinserted; `ContenuDesTransactions`, the leases a transaction is about to delete are those of the rows it
holds, and a candidate's deletion holds one row. The argument for the locks: whoever
writes a row needs it unlocked, so nothing changes the state of a held row; a day passing only keeps it
expired. From it follow `Typage`, `Integrite`, `Verrous` and `Raffinement`
(`Spec => RespecteRegistre`, step by step: `MettreAJour`, `Inserer` and `InsererNouvelle` are
`EcrireLigne`, `Valider` is `Effacer` of the transaction's rows and leases, the rest stutters).

The properties of `locataire_sequentiel` are proved for any number of requests and purging instances, as long as no record is edited in two places at once
(`UneEditionParFiche`, a hypothesis on the behaviour, which holds by itself when there is one request): `EtatEtSortie`, `Cycle` and `Modale`. Without it they are false, as section 4 shows. The invariant adds
`Dessein`: what each request has pending (the entity, then the columns to update) is still a legal transition of the row as it is now. It holds because the others only delete
that row: it either is what the handler read or has gone, a new record never takes its key, and a row that was inserted again came from that very entity. `Rappels` (`RappelUnique`) needs no more than the main invariant: only a commit adds to a
reminder, and what it adds are rows the transaction holds, which `VerrouLegitime` keeps in the table until then.

`LeBailPart` proves `BailEmporte` where it holds, which is not everywhere: for any number of instances that purge beside every handler that
neither edits a lease nor deletes a candidate (`PurgesSeules`), and for all handlers when one actor works at a time (`ActeurUnique`). Outside, it is false:
two deletions of candidates are the run `colocation_orpheline`, one beside a purge is the same race, and an edit can move a record off its lease between
the search for orphans and the commit. The invariant `TInv` adds `UneSeule`, that one transaction is open at a time (a purge holds *all* expired records, so
a second one finds nothing or waits), and `Temoins`: a lease that a transaction has decided to keep still has a record that stays and refers to
it. The witness must keep its lease until the commit, and that is `BailFige`: every entity on its way to the table has the lease of its row, although `save()`
writes what it read long before. It is proved separately as `BailDeLaFiche`: without the edit modal, a record that stays keeps its lease.

**`BailProofs`** (from `BailAssumption`). Of `ReferencesTenues`, `UneGenerationParBail` and `BailGenereFige`
none is inductive. The invariant adds `RequetesTypees`, what a request carries in each phase, with the
key of a lease the sequence has handed out; `ClesConnues`, that a row has such a key; and `VerificationDurable`: *a lease that a request has checked (phases
`relecture`, `maj`, `insertion`, `suppression`) is not generated*. This is why the gap
between `refuserSiGenere` and the write does no harm: `EcrireGeneration` only ever refers to a
lease whose key the sequence has just drawn, and a request can only have checked a key that was handed out before. With it,
`Fige` (`Spec => BailGenereFige`) is immediate for each step.

**`LogementProofs`** (from `FilatureAssumption`, `LogementAssumption`). The invariant adds `EditionCoherente`, that what a request has still to repeat is among
what it wrote on its own flat, and `PrisesTenues`, that a row a deletion has taken stays where it was and has one taker. From it, for any number of
requests, flats and rows: `Typage`, `Suppression` (`SuppressionEntiere`: the foreign key refuses the commit as soon as a row came after the DELETEs) and
`Portee` (`PorteeDesEcritures`). `Residence` proves `AlignementDesMontants` as long as one request at a time edits
the residence (`UneEditionDeResidence`) and none of its flats is created again meanwhile (`RetourHorsEdition`), with any number of edits of the other flats: between the
UPDATE of its own flat and that of the twin, nobody else writes a rent of the two.

**`SessionProofs`** (from `SessionAssumption`), for any number of requests, browsers, links and any durations. Neither `LienUsageUnique` nor
`AucuneSessionOrpheline` is inductive. `LienCourant`: the one place for a link holds the last one drawn, unused, with its date; so a consumed link cannot be
matched again, and a new one is far enough from those that wait. `JetonDetenu` is stronger than what it serves: the browser of the request that
wrote the token *last* has its answer on the way, or has the token, and everything else that is on its way to it was sent before the
token was written (`depassees`): what is sent later is another session, or a logout, which revokes. Some browser holding an equal token would not do: a late answer could replace
it. When one of the earlier answers comes last, `perdue` says so. Nothing is assumed of how many calls a browser makes. `Usage`, `Espacement` and `Jetons` follow.

`Bornes` (`EchecsBornes`, for a finite set of requests) rests on counting *places*, not rows: `EchecsTenus` bounds, for each address and for all, the rows plus the
attempts that passed `assertNotLocked` and have not been settled. Rows alone are not bounded inductively; of places, only a check that passes adds one, and it passes below
the limit, while `RegisterFailure` turns the place of an attempt into a row. By the same lemma `VerrouNonProlonge`: while an address is locked (or the table full) its places only
go down, which is the safety part of `VerrouTemporaire`. `EchecsComptes` says the count misses nothing: a failure is a new row of its address and of the table. That needs
`RangsSuivis`, the failures of an address and a moment being numbered without a gap, so that two at once are two rows.

**`IrlProofs`** (from `IrlAssumption`), for any number of flats, reads and quarters. The invariant adds `LecturesTenues`: nothing a read carries is later than what INSEE has
published, one that fills has a value, and an answer is no older than the value the read would have fallen back on; and `Couples`: a row never pairs the value
of one quarter with the label of another, nor shows one that is not published (theorem `CouplesTenus`). From it `Typage`, `RienDEfface` (`LectureNEffacePas`: outages, late answers and
restarts never empty a row) and `Saisie` (`SaisieGardee`), whose hypothesis delimits the second finding: only a read that loaded the flat before it was frozen
can replace what was typed.

**`ChiffrementProofs`** (from `ChiffrementAssumption`), for any number of rows, columns, instances and keys. `ToujoursLisible` needs to know that nobody writes under a
forgotten key: `InstancesConnues` says an instance writes with the current or the previous key, and, from the start of a script to the next
change of key, with the current one. `RepriseComplete` needs to know what the script leaves behind it although it reads each column once:
`Avancement` says that the columns it has passed will be under the current key at its commit, and that a value it has not
come to is as it was read or was written under the current key since. `EcritesAJour` and `ScriptDuHote` say what the open transaction holds.
`Raffinement` is `Transparence`, step by step.

**`DocumentsProofs`** (from `DocumentsAssumption`), for any number of requests and documents. `Chaine`: every conversion is chained on the one before it
and `this.file` is the last. `EnOrdre`: one that was started has only finished ones before it. These two make the queue (`UneALaFois`, `ServieEnFile`),
which nothing in the state counts. `Collecte`: what a handler has collected are the first documents of its request, converted, and
the next is the conversion it awaits; from it `MailFidele`. `SansBlocage` is the safety part of `TouteDemandeAboutit`, stated with the guards since `ENABLED` is out of
reach: a handler that awaits can go on, or a conversion that is not behind its own can be started or runs. It takes the first conversion that is not over; that there is one would need induction over the
queue, so `Tete` carries it along: when the head is over the next one, not yet started by `EnOrdre`, is the head.

Model-checked only: liveness (`ExpireeFinitEffacee`, `IrlFinitAJour`, `VerrouTemporaire`, `TouteDemandeAboutit`) and the fairness it needs, which this prover
does not handle; of the last two the safety parts are proved. Every invariant and every action property of the passing runs is the property of a theorem; `PaireEtatSortie`, `CycleDeVie`,
`FaitsHorsModale`, `AlignementDesMontants` and `BailEmporte` under the hypotheses named above, because the code does not promise them without.

## 8. What is not modelled

- *Passkeys*: challenges (a signed cookie, no state of the server), signatures and counters belong to a library; the model accepts a registered passkey.
  `doc-authentification.md:498` says failures of a passkey count in the throttle; the code of `passkeyLogin`, and its comment, do not count them, and the model follows the code.
- *Landlords*: independent rows with create, update, delete; the only rule is a foreign key, and no handler reads one to decide anything.
- *Database set-up, health, bootstrap*: configuration and a probe.
- The parsing of INSEE's SDMX answer, the composition of a mail and of a PDF, the throttling of the document routes (a library's).
- Everywhere: validation of bodies beyond what the models name, wording, layout, logging.

## 9. What could come next

- Two rent-editing requests with a lock on the residence, should the application get more than one account.
- A time limit on soffice would let `TouteDemandeAboutit` rest on the code and not on an assumption.
- A lock on the lease in the deleting transactions, and `irl_manual` in the WHERE of the UPDATE, would turn the two violated runs into passing ones.
