----------------------------- MODULE Chiffrement -----------------------------
(***************************************************************************)
(* The encrypted columns and their keys.  Handlers read and write them     *)
(* through a transformer, with the keys their process was started with; a  *)
(* script encrypts again, in one transaction, what is in clear or under    *)
(* the previous key, while the API goes on; the owner changes the key on   *)
(* the host, runs the script and drops the previous key, in the order of   *)
(* the README.                                                             *)
(* The cipher is authenticated: a value opens with the key that wrote it   *)
(* and with no other.  The tables of COLONNES_CHIFFREES are one here.      *)
(***************************************************************************)
EXTENDS Naturals

CONSTANTS
  Lignes,       \* rows
  NbColonnes,   \* the encrypted columns, in the order of COLONNES_CHIFFREES
  Textes,       \* what a column may say
  Instances,    \* processes of the API, with one request each
  DerniereCle,  \* bound: keys that are ever generated
  BaseInit,     \* the rows at the start
  Nul,          \* SQL NULL, an unset variable
  Absente,      \* no row with this key
  Arretee,      \* no environment: the process is not running
  Illisible     \* no key opens the value

Colonnes == 1 .. NbColonnes

\* Keys are numbered as they are generated; 0 is a value in clear.
Clair == 0
Cles == 1 .. DerniereCle

Valeur == [cle : Cles \cup {Clair}, texte : Textes]
Cellule == Valeur \cup {Nul}
Ligne == [Colonnes -> Cellule]
Contenu == [Colonnes -> Textes \cup {Nul}]

\* ENCRYPTION_KEY and ENCRYPTION_KEY_PREVIOUS.
Environnement == [courante : Cles, precedente : Cles \cup {Nul}]

ASSUME ChiffrementAssumption ==
  /\ NbColonnes \in Nat
  /\ DerniereCle \in Nat \ {0}
  /\ Nul \notin Valeur \cup Textes \cup Nat
  /\ Absente \notin Ligne \cup Contenu
  /\ Arretee \notin Environnement
  /\ Illisible \notin Textes \cup {Nul}
  /\ BaseInit \in [Lignes -> Ligne \cup {Absente}]
  /\ \A l \in Lignes : BaseInit[l] # Absente =>
       \A c \in Colonnes : BaseInit[l][c] # Nul => BaseInit[l][c].cle \in {Clair, 1}

VARIABLES
  base,     \* the rows, as the database has them
  hote,     \* the variables a process gets when it starts
  api,      \* those each instance was started with
  req,      \* where the request of each instance is
  script,   \* where chiffrer-donnees is
  reprise   \* the script was committed under the current key

vars == <<base, hote, api, req, script, reprise>>

\* lues is what remains of the column that was read, ecrites what the open
\* transaction has written (Nul: nothing).
Reprise ==
  [phase : {"libre", "lecture", "ecriture"}, executer : BOOLEAN,
   env : Environnement \cup {Nul}, colonne : Nat,
   lues : [Lignes -> Cellule], ecrites : [Lignes -> Ligne]]

TypeOK ==
  /\ base \in [Lignes -> Ligne \cup {Absente}]
  /\ hote \in Environnement
  /\ api \in [Instances -> Environnement \cup {Arretee}]
  /\ req \in [Instances -> [ligne : Lignes \cup {Nul}, entite : Contenu \cup {Nul}]]
  /\ script \in Reprise
  /\ reprise \in BOOLEAN

-----------------------------------------------------------------------------
(***************************************************************************)
(* common/encryption.ts and the transformer.                               *)
(***************************************************************************)
\* A value in clear is read as it is, NULL passes untouched.
EtatValeur(env, v) ==
  CASE v.cle = Clair          -> "clair"
    [] v.cle = env.courante   -> "courante"
    [] v.cle = env.precedente -> "precedente"
    [] OTHER                  -> "illisible"

\* Mutant: the previous key is never tried.
DechiffrerSansPrecedente(env, v) ==
  IF v = Nul THEN Nul
  ELSE IF EtatValeur(env, v) \in {"illisible", "precedente"} THEN Illisible ELSE v.texte

Dechiffrer(env, v) ==
  IF v = Nul THEN Nul
  ELSE IF EtatValeur(env, v) = "illisible" THEN Illisible ELSE v.texte

\* Mutant: the previous key goes on writing.
ChiffrerAvecPrecedente(env, t) ==
  IF t = Nul THEN Nul
  ELSE [cle |-> IF env.precedente = Nul THEN env.courante ELSE env.precedente, texte |-> t]

Chiffrer(env, t) == IF t = Nul THEN Nul ELSE [cle |-> env.courante, texte |-> t]

ChiffrerLigne(env, contenu) == [c \in Colonnes |-> Chiffrer(env, contenu[c])]

DechiffrerLigne(env, ligne) == [c \in Colonnes |-> Dechiffrer(env, ligne[c])]

\* Reading a row fails as a whole as soon as one of its values does not open.
SeLit(env, ligne) == \A c \in Colonnes : Dechiffrer(env, ligne[c]) # Illisible

-----------------------------------------------------------------------------
SansRequete == [ligne |-> Nul, entite |-> Nul]

RienLu == [l \in Lignes |-> Nul]
RienEcrit == [l \in Lignes |-> [c \in Colonnes |-> Nul]]

SansReprise ==
  [phase |-> "libre", executer |-> FALSE, env |-> Nul, colonne |-> 1,
   lues |-> RienLu, ecrites |-> RienEcrit]

Existe(l) == base[l] # Absente

\* A row the open transaction has updated is locked until its end.
Verrouillee(l) == \E c \in Colonnes : script.ecrites[l][c] # Nul

Init ==
  /\ base = BaseInit
  /\ hote = [courante |-> 1, precedente |-> Nul]
  /\ api = [i \in Instances |-> Arretee]
  /\ req = [i \in Instances |-> SansRequete]
  /\ script = SansReprise
  /\ reprise = FALSE

-----------------------------------------------------------------------------
(***************************************************************************)
(* The instances.  Each start takes the keys of the host; during a         *)
(* deployment the old instances go on with theirs.                         *)
(***************************************************************************)
Demarrer(i) ==
  /\ api[i] = Arretee
  /\ api' = [api EXCEPT ![i] = hote]
  /\ UNCHANGED <<base, hote, req, script, reprise>>

Arreter(i) ==
  /\ api[i] # Arretee
  /\ api' = [api EXCEPT ![i] = Arretee]
  /\ req' = [req EXCEPT ![i] = SansRequete]
  /\ UNCHANGED <<base, hote, script, reprise>>

\* Mutant: a value that does not open is handed on.
ChargerSansEchouer(i, l, c, t) ==
  /\ api[i] # Arretee
  /\ req[i] = SansRequete
  /\ Existe(l)
  /\ req' = [req EXCEPT ![i] =
       [ligne |-> l, entite |-> [DechiffrerLigne(api[i], base[l]) EXCEPT ![c] = t]]]
  /\ UNCHANGED <<base, hote, api, script, reprise>>

\* A handler loads a row and changes a column of its entity.  A value that
\* does not open is an error 500 and changes nothing.
Charger(i, l, c, t) ==
  /\ api[i] # Arretee
  /\ req[i] = SansRequete
  /\ Existe(l)
  /\ SeLit(api[i], base[l])
  /\ req' = [req EXCEPT ![i] =
       [ligne |-> l, entite |-> [DechiffrerLigne(api[i], base[l]) EXCEPT ![c] = t]]]
  /\ UNCHANGED <<base, hote, api, script, reprise>>

\* save(): the second read must succeed too; every encrypted column differs from
\* it (a random IV), so that the UPDATE writes them all.  A row that has gone is
\* inserted again.  The read and the write, apart in Locataire, are one step.
Enregistrer(i) ==
  LET l == req[i].ligne IN
  /\ req[i] # SansRequete
  /\ ~ Verrouillee(l)
  /\ base' = IF Existe(l) /\ ~ SeLit(api[i], base[l]) THEN base
             ELSE [base EXCEPT ![l] = ChiffrerLigne(api[i], req[i].entite)]
  /\ req' = [req EXCEPT ![i] = SansRequete]
  /\ UNCHANGED <<hote, api, script, reprise>>

Creer(i, l, contenu) ==
  /\ api[i] # Arretee
  /\ ~ Existe(l)
  /\ base' = [base EXCEPT ![l] = ChiffrerLigne(api[i], contenu)]
  /\ UNCHANGED <<hote, api, req, script, reprise>>

\* A DELETE reads no value.
Supprimer(l) ==
  /\ Existe(l)
  /\ ~ Verrouillee(l)
  /\ base' = [base EXCEPT ![l] = Absente]
  /\ UNCHANGED <<hote, api, req, script, reprise>>

-----------------------------------------------------------------------------
(***************************************************************************)
(* npm run chiffrer:donnees.                                               *)
(***************************************************************************)
\* The fingerprint it shows is that of every instance that runs; nothing
\* compares the previous key, which the terminal may not have.
LancerReprise(executer, precedente) ==
  /\ script.phase = "libre"
  /\ \A i \in Instances : api[i] # Arretee => api[i].courante = hote.courante
  /\ script' = [SansReprise EXCEPT
       !.phase = "lecture", !.executer = executer,
       !.env = [courante |-> hote.courante, precedente |-> precedente]]
  /\ UNCHANGED <<base, hote, api, req, reprise>>

\* The SELECT of a column, as it is committed at that moment.
LireColonne ==
  /\ script.phase = "lecture"
  /\ script.colonne \in Colonnes
  /\ script' = [script EXCEPT !.phase = "ecriture",
       !.lues = [l \in Lignes |-> IF Existe(l) THEN base[l][script.colonne] ELSE Nul]]
  /\ UNCHANGED <<base, hote, api, req, reprise>>

\* Mutant: a value that does not open is left as it is.
RechiffrerSansEchouer(l) ==
  LET v == script.lues[l]
      c == script.colonne
      ecrit == EtatValeur(script.env, v) \in {"clair", "precedente"} /\ Existe(l)
  IN
  /\ script.phase = "ecriture"
  /\ v # Nul
  /\ script' = [script EXCEPT
       !.lues = [script.lues EXCEPT ![l] = Nul],
       !.ecrites = IF ecrit
         THEN [script.ecrites EXCEPT ![l] =
                [script.ecrites[l] EXCEPT ![c] = Chiffrer(script.env, v.texte)]]
         ELSE script.ecrites]
  /\ UNCHANGED <<base, hote, api, req, reprise>>

\* One value that was read: nothing to do when it is under the current key,
\* else the UPDATE of the row by its key, which touches nothing when it is gone.
RechiffrerValeur(l) ==
  LET v == script.lues[l]
      c == script.colonne
      ecrit == EtatValeur(script.env, v) # "courante" /\ Existe(l)
  IN
  /\ script.phase = "ecriture"
  /\ v # Nul
  /\ EtatValeur(script.env, v) # "illisible"
  /\ script' = [script EXCEPT
       !.lues = [script.lues EXCEPT ![l] = Nul],
       !.ecrites = IF ecrit
         THEN [script.ecrites EXCEPT ![l] =
                [script.ecrites[l] EXCEPT ![c] = Chiffrer(script.env, v.texte)]]
         ELSE script.ecrites]
  /\ UNCHANGED <<base, hote, api, req, reprise>>

PasserColonne ==
  /\ script.phase = "ecriture"
  /\ script.lues = RienLu
  /\ script' = [script EXCEPT !.phase = "lecture", !.colonne = script.colonne + 1]
  /\ UNCHANGED <<base, hote, api, req, reprise>>

Termine == script.phase = "lecture" /\ script.colonne \notin Colonnes

ValiderReprise ==
  /\ Termine
  /\ script.executer
  /\ base' = [l \in Lignes |->
       IF Existe(l)
         THEN [c \in Colonnes |->
                IF script.ecrites[l][c] # Nul THEN script.ecrites[l][c] ELSE base[l][c]]
         ELSE Absente]
  /\ script' = SansReprise
  /\ reprise' = TRUE
  /\ UNCHANGED <<hote, api, req>>

\* The trial run ends with a ROLLBACK; so does a value that does not open, a
\* statement that fails, a terminal that is closed.
AnnulerReprise ==
  /\ script.phase # "libre"
  /\ script' = SansReprise
  /\ UNCHANGED <<base, hote, api, req, reprise>>

-----------------------------------------------------------------------------
(***************************************************************************)
(* The owner, at the console of the host: "Changer de clé" in README.md.   *)
(***************************************************************************)
\* 1. The old key becomes the previous one: there is room for one only.
ChangerCle ==
  /\ script.phase = "libre"
  /\ hote.precedente = Nul
  /\ hote.courante < DerniereCle
  /\ hote' = [courante |-> hote.courante + 1, precedente |-> hote.courante]
  /\ reprise' = FALSE
  /\ UNCHANGED <<base, api, req, script>>

\* 3. Once the script, step 2, was committed.
RetirerPrecedente ==
  /\ script.phase = "libre"
  /\ hote.precedente # Nul
  /\ reprise
  /\ hote' = [courante |-> hote.courante, precedente |-> Nul]
  /\ UNCHANGED <<base, api, req, script, reprise>>

-----------------------------------------------------------------------------
NextInstance(i) ==
  \/ Demarrer(i)
  \/ Arreter(i)
  \/ \E l \in Lignes, c \in Colonnes, t \in Textes \cup {Nul} : Charger(i, l, c, t)
  \/ Enregistrer(i)
  \/ \E l \in Lignes, contenu \in Contenu : Creer(i, l, contenu)

NextReprise ==
  \/ \E executer \in BOOLEAN, p \in {Nul, hote.precedente} : LancerReprise(executer, p)
  \/ LireColonne
  \/ \E l \in Lignes : RechiffrerValeur(l)
  \/ PasserColonne
  \/ ValiderReprise
  \/ AnnulerReprise

Next ==
  \/ \E i \in Instances : NextInstance(i)
  \/ \E l \in Lignes : Supprimer(l)
  \/ NextReprise
  \/ ChangerCle
  \/ RetirerPrecedente

Spec == Init /\ [][Next]_vars

-----------------------------------------------------------------------------
(***************************************************************************)
(* Properties.                                                             *)
(***************************************************************************)

\* Every value of the base opens with the keys the host has at that moment,
\* whatever instances with older keys wrote, wherever the script was stopped,
\* and through any number of changes of key.
ToujoursLisible == \A l \in Lignes : Existe(l) => SeLit(hote, base[l])

\* Once the script was committed nothing is left in clear or under an older
\* key, although the API wrote all along and the script reads each column once.
RepriseComplete ==
  reprise =>
    \A l \in Lignes, c \in Colonnes :
      Existe(l) /\ base[l][c] # Nul => base[l][c].cle = hote.courante

\* The texts as a process started now would read them.
Textuel ==
  [l \in Lignes |-> IF Existe(l) THEN DechiffrerLigne(hote, base[l]) ELSE Absente]

\* What the script holds: values it has read, and those it has written.
Copies ==
  {k \in Lignes \X Colonnes \X Textes :
     \/ /\ k[2] = script.colonne
        /\ script.lues[k[1]] # Nul
        /\ script.lues[k[1]].texte = k[3]
     \/ /\ script.ecrites[k[1]][k[2]] # Nul
        /\ script.ecrites[k[1]][k[2]].texte = k[3]}

C == INSTANCE Carnet WITH textes <- Textuel, copies <- Copies

\* Keys, instances and script are invisible to whoever reads and writes texts:
\* changing or dropping a key changes no text, and the script can at worst put
\* back a text it has read itself since it was started.
Transparence == C!SpecCarnet
=============================================================================
