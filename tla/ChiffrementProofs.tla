-------------------------- MODULE ChiffrementProofs --------------------------
(***************************************************************************)
(* For any number of rows, columns, instances and changes of key: every    *)
(* value opens with the keys of the host, a committed script leaves        *)
(* nothing behind, and keys and script implement Carnet.                   *)
(***************************************************************************)
EXTENDS Chiffrement, TLAPS

\* The value is NULL or was written under one of the keys K.
SousCles(v, K) == v = Nul \/ v.cle \in K

ClesLisibles(env) == {Clair, env.courante, env.precedente}

Texte(v) == IF v = Nul THEN Nul ELSE v.texte

BaseLisible ==
  \A l \in Lignes : Existe(l) =>
    \A c \in Colonnes : SousCles(base[l][c], ClesLisibles(hote))

\* An instance writes with a key the host still knows and, from the start of a
\* script to the next change of key, with the current one.
InstancesConnues ==
  \A i \in Instances : api[i] # Arretee =>
    /\ api[i].courante \in {hote.courante, hote.precedente}
    /\ script.phase # "libre" \/ reprise => api[i].courante = hote.courante

\* The script keeps the key of the host; one that is not running holds nothing.
ScriptDuHote ==
  /\ script.colonne # 0
  /\ script.phase = "libre" => script = SansReprise
  /\ script.phase # "libre" =>
       script.env \in Environnement /\ script.env.courante = hote.courante

\* What the script has written is under the current key, in rows it has locked.
EcritesAJour ==
  \A l \in Lignes, c \in Colonnes : script.ecrites[l][c] # Nul =>
    Existe(l) /\ script.ecrites[l][c].cle = hote.courante

AJour(l, c) ==
  script.ecrites[l][c] # Nul \/ SousCles(base[l][c], {hote.courante})

\* The columns the script has passed, and what it has passed of the present one,
\* will be under the current key at its commit; a value it has not come to yet
\* is as it was read, or was written under the current key since.
Avancement ==
  script.phase # "libre" =>
    \A l \in Lignes : Existe(l) => \A c \in Colonnes :
      /\ c < script.colonne => AJour(l, c)
      /\ script.phase = "ecriture" /\ c = script.colonne =>
           \/ AJour(l, c)
           \/ script.lues[l] # Nul /\ base[l][c] = script.lues[l]

\* A request under way has an entity to write, and its process runs.
RequetesServies ==
  \A i \in Instances : req[i] # SansRequete =>
    api[i] # Arretee /\ req[i].ligne \in Lignes /\ req[i].entite \in Contenu

IInv ==
  /\ TypeOK
  /\ RequetesServies
  /\ BaseLisible
  /\ InstancesConnues
  /\ ScriptDuHote
  /\ EcritesAJour
  /\ Avancement
  /\ RepriseComplete

-----------------------------------------------------------------------------
(***************************************************************************)
(* Values.                                                                 *)
(***************************************************************************)
LEMMA DechiffrerValeur ==
  ASSUME NEW env \in Environnement, NEW v \in Cellule
  PROVE  /\ Dechiffrer(env, v) # Illisible <=> SousCles(v, ClesLisibles(env))
         /\ Dechiffrer(env, v) # Illisible => Dechiffrer(env, v) = Texte(v)
         /\ Texte(v) \in Textes \cup {Nul}
<1>1. CASE v = Nul
  BY <1>1, ChiffrementAssumption DEF Dechiffrer, SousCles, Texte
<1>2. CASE v # Nul
  <2>1. v \in Valeur /\ v.texte \in Textes /\ v.texte # Illisible
    BY <1>2, ChiffrementAssumption DEF Cellule, Valeur
  <2>2. EtatValeur(env, v) # "illisible" <=> v.cle \in ClesLisibles(env)
    BY DEF EtatValeur, ClesLisibles
  <2> QED
    BY <1>2, <2>1, <2>2 DEF Dechiffrer, SousCles, Texte
<1> QED
  BY <1>1, <1>2

LEMMA LireLigne ==
  ASSUME NEW env \in Environnement, NEW ligne \in Ligne
  PROVE  /\ SeLit(env, ligne) <=> \A c \in Colonnes : SousCles(ligne[c], ClesLisibles(env))
         /\ SeLit(env, ligne) =>
              /\ DechiffrerLigne(env, ligne) = [c \in Colonnes |-> Texte(ligne[c])]
              /\ DechiffrerLigne(env, ligne) \in Contenu
<1>1. \A c \in Colonnes : ligne[c] \in Cellule
  BY DEF Ligne
<1> QED
  BY <1>1, DechiffrerValeur DEF SeLit, DechiffrerLigne, Contenu

LEMMA EcrireValeur ==
  ASSUME NEW env \in Environnement, NEW t \in Textes \cup {Nul}
  PROVE  /\ Chiffrer(env, t) \in Cellule
         /\ SousCles(Chiffrer(env, t), {env.courante})
         /\ Texte(Chiffrer(env, t)) = t
<1>1. CASE t = Nul
  BY <1>1 DEF Chiffrer, Cellule, SousCles, Texte
<1>2. CASE t # Nul
  <2>1. [cle |-> env.courante, texte |-> t] \in Valeur
    BY <1>2 DEF Valeur, Environnement
  <2>2. [cle |-> env.courante, texte |-> t] # Nul
    BY <2>1, ChiffrementAssumption
  <2> QED
    BY <1>2, <2>1, <2>2 DEF Chiffrer, Cellule, SousCles, Texte
<1> QED
  BY <1>1, <1>2

LEMMA EcrireLigne ==
  ASSUME NEW env \in Environnement, NEW contenu \in Contenu
  PROVE  /\ ChiffrerLigne(env, contenu) \in Ligne
         /\ \A c \in Colonnes :
              /\ SousCles(ChiffrerLigne(env, contenu)[c], {env.courante})
              /\ Texte(ChiffrerLigne(env, contenu)[c]) = contenu[c]
<1>1. \A c \in Colonnes : contenu[c] \in Textes \cup {Nul}
  BY DEF Contenu
<1> QED
  BY <1>1, EcrireValeur DEF ChiffrerLigne, Ligne

LEMMA ReposTypes ==
  /\ SansReprise \in Reprise
  /\ SansReprise.phase = "libre" /\ SansReprise.colonne # 0
  /\ \A l \in Lignes : SansReprise.lues[l] = Nul
  /\ \A l \in Lignes, c \in Colonnes : SansReprise.ecrites[l][c] = Nul
BY DEF SansReprise, Reprise, RienLu, RienEcrit, Cellule, Ligne

-----------------------------------------------------------------------------
(***************************************************************************)
(* The invariant.                                                          *)
(***************************************************************************)
LEMMA InitInv == Init => IInv
<1> SUFFICES ASSUME Init PROVE IInv
  OBVIOUS
<1> USE ChiffrementAssumption DEF Init
<1>1. TypeOK
  <2>1. hote \in Environnement
    BY DEF Environnement, Cles
  <2>2. script \in Reprise
    BY ReposTypes
  <2> QED
    BY <2>1, <2>2 DEF TypeOK, SansRequete
<1>2. BaseLisible
  BY DEF BaseLisible, Existe, SousCles, ClesLisibles
<1>3. InstancesConnues /\ RepriseComplete /\ RequetesServies
  BY DEF InstancesConnues, RepriseComplete, RequetesServies
<1>4. ScriptDuHote /\ EcritesAJour /\ Avancement
  BY ReposTypes DEF ScriptDuHote, EcritesAJour, Avancement
<1> QED
  BY <1>1, <1>2, <1>3, <1>4 DEF IInv

\* Nothing but instances and requests changes.
LEMMA InstanceInv ==
  ASSUME IInv, UNCHANGED <<base, hote, script, reprise>>,
         api' \in [Instances -> Environnement \cup {Arretee}],
         req' \in [Instances -> [ligne : Lignes \cup {Nul}, entite : Contenu \cup {Nul}]],
         RequetesServies',
         \A i \in Instances : api'[i] \in {api[i], hote, Arretee}
  PROVE  IInv'
<1> USE DEF IInv
<1>1. TypeOK'
  BY DEF TypeOK
<1>2. InstancesConnues'
  BY DEF InstancesConnues
<1>3. BaseLisible' /\ ScriptDuHote' /\ EcritesAJour' /\ Avancement' /\ RepriseComplete'
  BY DEF BaseLisible, ScriptDuHote, EcritesAJour, Avancement, RepriseComplete, Existe, AJour
<1> QED
  BY <1>1, <1>2, <1>3

LEMMA DemarrerInv ==
  ASSUME IInv, NEW i \in Instances, Demarrer(i) \/ Arreter(i)
  PROVE  IInv'
<1>1. api' \in [Instances -> Environnement \cup {Arretee}]
      /\ \A j \in Instances : api'[j] \in {api[j], hote, Arretee}
  BY DEF IInv, TypeOK, Demarrer, Arreter
<1>2. req' \in [Instances -> [ligne : Lignes \cup {Nul}, entite : Contenu \cup {Nul}]]
  BY DEF IInv, TypeOK, Demarrer, Arreter, SansRequete
<1>3. RequetesServies'
  <2>1. hote # Arretee
    BY ChiffrementAssumption DEF IInv, TypeOK
  <2> QED
    BY <2>1 DEF IInv, TypeOK, RequetesServies, Demarrer, Arreter
<1> QED
  BY <1>1, <1>2, <1>3, InstanceInv DEF Demarrer, Arreter

LEMMA ChargerInv ==
  ASSUME IInv, NEW i \in Instances, NEW l \in Lignes, NEW c \in Colonnes,
         NEW t \in Textes \cup {Nul}, Charger(i, l, c, t)
  PROVE  IInv'
<1>1. api[i] \in Environnement /\ base[l] \in Ligne
  BY DEF IInv, TypeOK, Charger, Existe
<1>2. DechiffrerLigne(api[i], base[l]) \in Contenu
  BY <1>1, LireLigne DEF Charger
<1>3. [DechiffrerLigne(api[i], base[l]) EXCEPT ![c] = t] \in Contenu
  BY <1>2 DEF Contenu
<1>4. /\ req' \in [Instances -> [ligne : Lignes \cup {Nul}, entite : Contenu \cup {Nul}]]
      /\ RequetesServies'
  BY <1>3 DEF IInv, TypeOK, Charger, RequetesServies
<1>5. api' = api /\ api \in [Instances -> Environnement \cup {Arretee}]
  BY DEF IInv, TypeOK, Charger
<1> QED
  BY <1>4, <1>5, InstanceInv DEF Charger

\* A row is written whole, under the key of an instance, while nobody holds it.
LEMMA LigneInv ==
  ASSUME IInv, NEW i \in Instances, NEW l \in Lignes, NEW contenu \in Contenu,
         api[i] # Arretee, ~ Verrouillee(l),
         base' = [base EXCEPT ![l] = ChiffrerLigne(api[i], contenu)],
         req' \in [Instances -> [ligne : Lignes \cup {Nul}, entite : Contenu \cup {Nul}]],
         RequetesServies',
         UNCHANGED <<hote, api, script, reprise>>
  PROVE  IInv'
<1> USE DEF IInv
<1> DEFINE n == ChiffrerLigne(api[i], contenu)
<1>1. api[i] \in Environnement
  BY DEF TypeOK
<1>2. n \in Ligne /\ \A c \in Colonnes : SousCles(n[c], {api[i].courante})
  BY <1>1, EcrireLigne
<1>3. base' = [base EXCEPT ![l] = n]
  OBVIOUS
<1> HIDE DEF n
<1>4. api[i].courante \in {hote.courante, hote.precedente}
      /\ (script.phase # "libre" \/ reprise => api[i].courante = hote.courante)
  BY DEF InstancesConnues
<1>5. \A k \in Lignes : base'[k] = IF k = l THEN n ELSE base[k]
  BY <1>3 DEF TypeOK
<1>6. n # Absente
  BY <1>2, ChiffrementAssumption
<1>7. TypeOK'
  BY <1>2, <1>3 DEF TypeOK
<1>8. BaseLisible'
  BY <1>2, <1>4, <1>5 DEF BaseLisible, SousCles, ClesLisibles, Existe
<1>9. InstancesConnues' /\ ScriptDuHote'
  BY DEF InstancesConnues, ScriptDuHote
<1>10. EcritesAJour'
  BY <1>5, <1>6 DEF EcritesAJour, Existe
<1>11. Avancement'
  BY <1>2, <1>4, <1>5 DEF Avancement, AJour, SousCles, Existe
<1>12. RepriseComplete'
  BY <1>2, <1>4, <1>5 DEF RepriseComplete, SousCles, Existe
<1> QED
  BY <1>7, <1>8, <1>9, <1>10, <1>11, <1>12

LEMMA EnregistrerInv ==
  ASSUME IInv, NEW i \in Instances, Enregistrer(i)
  PROVE  IInv'
<1>1. /\ req' \in [Instances -> [ligne : Lignes \cup {Nul}, entite : Contenu \cup {Nul}]]
      /\ RequetesServies'
  BY DEF IInv, TypeOK, RequetesServies, Enregistrer, SansRequete
<1>2. CASE Existe(req[i].ligne) /\ ~ SeLit(api[i], base[req[i].ligne])
  <2>1. UNCHANGED <<base, hote, api, script, reprise>>
    BY <1>2 DEF Enregistrer
  <2> QED
    BY <1>1, <2>1, InstanceInv DEF IInv, TypeOK
<1>3. CASE ~ (Existe(req[i].ligne) /\ ~ SeLit(api[i], base[req[i].ligne]))
  <2>1. /\ api[i] # Arretee /\ req[i].ligne \in Lignes /\ req[i].entite \in Contenu
        /\ ~ Verrouillee(req[i].ligne)
    BY DEF Enregistrer, IInv, RequetesServies
  <2>2. /\ base' = [base EXCEPT ![req[i].ligne] = ChiffrerLigne(api[i], req[i].entite)]
        /\ UNCHANGED <<hote, api, script, reprise>>
    BY <1>3 DEF Enregistrer
  <2> QED
    BY <1>1, <2>1, <2>2, LigneInv
<1> QED
  BY <1>2, <1>3

LEMMA CreerInv ==
  ASSUME IInv, NEW i \in Instances, NEW l \in Lignes, NEW contenu \in Contenu,
         Creer(i, l, contenu)
  PROVE  IInv'
<1>1. ~ Verrouillee(l)
  BY DEF IInv, EcritesAJour, Verrouillee, Creer
<1>2. /\ req' \in [Instances -> [ligne : Lignes \cup {Nul}, entite : Contenu \cup {Nul}]]
      /\ RequetesServies'
  BY DEF IInv, TypeOK, RequetesServies, Creer
<1> QED
  BY <1>1, <1>2, LigneInv DEF Creer

LEMMA SupprimerInv ==
  ASSUME IInv, NEW l \in Lignes, Supprimer(l)
  PROVE  IInv'
<1> USE DEF IInv
<1>1. \A k \in Lignes : base'[k] = IF k = l THEN Absente ELSE base[k]
  BY DEF TypeOK, Supprimer
<1>2. TypeOK'
  BY DEF TypeOK, Supprimer
<1>3. RequetesServies' /\ InstancesConnues' /\ ScriptDuHote'
  BY DEF RequetesServies, InstancesConnues, ScriptDuHote, Supprimer
<1>4. BaseLisible' /\ RepriseComplete'
  BY <1>1 DEF BaseLisible, RepriseComplete, Existe, Supprimer
<1>5. EcritesAJour'
  BY <1>1 DEF EcritesAJour, Existe, Verrouillee, Supprimer
<1>6. Avancement'
  <2>1. script' = script /\ hote' = hote
    BY DEF Supprimer
  <2>2. \A k \in Lignes : Existe(k)' => Existe(k) /\ base'[k] = base[k]
    BY <1>1 DEF Existe
  <2>3. \A k \in Lignes, c \in Colonnes : Existe(k)' /\ AJour(k, c) => AJour(k, c)'
    BY <2>1, <2>2 DEF AJour
  <2> QED
    BY <2>1, <2>2, <2>3 DEF Avancement
<1> QED
  BY <1>2, <1>3, <1>4, <1>5, <1>6

LEMMA LancerRepriseInv ==
  ASSUME IInv, NEW executer \in BOOLEAN, NEW p \in {Nul, hote.precedente},
         LancerReprise(executer, p)
  PROVE  IInv'
<1> USE DEF IInv, LancerReprise
<1>1. [courante |-> hote.courante, precedente |-> p] \in Environnement
  BY DEF TypeOK, Environnement
<1>2. /\ script' \in Reprise /\ script'.phase = "lecture" /\ script'.colonne = 1
      /\ script'.env \in Environnement /\ script'.env.courante = hote.courante
      /\ script'.ecrites = SansReprise.ecrites
  BY <1>1, ReposTypes DEF Reprise, SansReprise
<1>3. TypeOK'
  BY <1>2 DEF TypeOK
<1>4. RequetesServies' /\ InstancesConnues' /\ BaseLisible' /\ RepriseComplete'
  BY DEF RequetesServies, InstancesConnues, BaseLisible, RepriseComplete, Existe
<1>5. ScriptDuHote' /\ EcritesAJour'
  BY <1>2, ReposTypes DEF ScriptDuHote, EcritesAJour
<1>6. Avancement'
  BY <1>2 DEF Avancement, Colonnes
<1> QED
  BY <1>3, <1>4, <1>5, <1>6

LEMMA LireColonneInv ==
  ASSUME IInv, LireColonne
  PROVE  IInv'
<1> USE DEF IInv, LireColonne
<1> DEFINE lu == [l \in Lignes |-> IF Existe(l) THEN base[l][script.colonne] ELSE Nul]
<1>1. lu \in [Lignes -> Cellule]
  BY DEF TypeOK, Existe, Ligne, Cellule
<1>2. \A l \in Lignes : Existe(l) => lu[l] = base[l][script.colonne]
  OBVIOUS
<1>3. script' = [script EXCEPT !.phase = "ecriture", !.lues = lu]
  OBVIOUS
<1> HIDE DEF lu
<1>4. /\ script' \in Reprise /\ script'.phase = "ecriture" /\ script'.lues = lu
      /\ script'.colonne = script.colonne /\ script'.env = script.env
      /\ script'.ecrites = script.ecrites
  BY <1>1, <1>3 DEF TypeOK, Reprise
<1>5. TypeOK'
  BY <1>4 DEF TypeOK
<1>6. RequetesServies' /\ InstancesConnues' /\ BaseLisible' /\ RepriseComplete'
  BY DEF RequetesServies, InstancesConnues, BaseLisible, RepriseComplete, Existe
<1>7. ScriptDuHote' /\ EcritesAJour'
  BY <1>4 DEF ScriptDuHote, EcritesAJour, Existe
<1>8. Avancement'
  BY <1>2, <1>4 DEF Avancement, AJour, SousCles, Existe
<1> QED
  BY <1>5, <1>6, <1>7, <1>8

LEMMA RechiffrerValeurInv ==
  ASSUME IInv, NEW l \in Lignes, RechiffrerValeur(l)
  PROVE  IInv'
<1> USE DEF IInv
<1> DEFINE v == script.lues[l]
           c == script.colonne
           n == Chiffrer(script.env, v.texte)
           ecrit == EtatValeur(script.env, v) # "courante" /\ Existe(l)
<1>1. /\ v \in Valeur /\ v.texte \in Textes /\ v.cle \in Cles \cup {Clair}
      /\ script.env \in Environnement /\ script.env.courante = hote.courante
      /\ script.phase = "ecriture" /\ v # Nul
  BY DEF TypeOK, Reprise, Cellule, Valeur, RechiffrerValeur, ScriptDuHote
<1>2. n \in Cellule /\ n # Nul /\ n.cle = hote.courante
  <2>1. v.texte # Nul
    BY <1>1, ChiffrementAssumption
  <2>2. [cle |-> script.env.courante, texte |-> v.texte] \in Valeur
    BY <1>1 DEF Valeur, Environnement
  <2> QED
    BY <1>1, <2>1, <2>2, ChiffrementAssumption DEF Chiffrer, Cellule
<1>3. ~ ecrit /\ Existe(l) => v.cle = hote.courante
  BY <1>1 DEF EtatValeur
<1>4. script' = [script EXCEPT
        !.lues = [script.lues EXCEPT ![l] = Nul],
        !.ecrites = IF ecrit
          THEN [script.ecrites EXCEPT ![l] = [script.ecrites[l] EXCEPT ![c] = n]]
          ELSE script.ecrites]
  BY DEF RechiffrerValeur
<1>5. UNCHANGED <<base, hote, api, req, reprise>>
  BY DEF RechiffrerValeur
<1>6. ecrit => Existe(l)
  OBVIOUS
<1> HIDE DEF n, ecrit
<1>7. /\ script'.phase = "ecriture" /\ script'.colonne = script.colonne
      /\ script'.env = script.env
      /\ \A k \in Lignes : script'.lues[k] = IF k = l THEN Nul ELSE script.lues[k]
      /\ \A k \in Lignes, d \in Colonnes :
           script'.ecrites[k][d] = IF ecrit /\ k = l /\ d = c THEN n ELSE script.ecrites[k][d]
  BY <1>1, <1>4 DEF TypeOK, Reprise, Ligne
<1>8. TypeOK'
  <2>1. [script.lues EXCEPT ![l] = Nul] \in [Lignes -> Cellule]
    BY DEF TypeOK, Reprise, Cellule
  <2>2. [script.ecrites EXCEPT ![l] = [script.ecrites[l] EXCEPT ![c] = n]] \in [Lignes -> Ligne]
    BY <1>2 DEF TypeOK, Reprise, Ligne
  <2>3. script' \in Reprise
    BY <1>4, <2>1, <2>2 DEF TypeOK, Reprise
  <2> QED
    BY <1>5, <2>3 DEF TypeOK
<1>9. RequetesServies' /\ InstancesConnues' /\ BaseLisible' /\ RepriseComplete'
  BY <1>1, <1>5 DEF RequetesServies, InstancesConnues, BaseLisible, RepriseComplete, Existe
<1>10. ScriptDuHote'
  BY <1>1, <1>5, <1>7 DEF ScriptDuHote
<1>11. EcritesAJour'
  BY <1>2, <1>5, <1>6, <1>7 DEF EcritesAJour, Existe
<1>12. Avancement'
  <2> SUFFICES ASSUME NEW k \in Lignes, Existe(k), NEW d \in Colonnes
               PROVE  /\ d < c => AJour(k, d)'
                      /\ d = c => \/ AJour(k, d)'
                                  \/ script'.lues[k] # Nul /\ base[k][d] = script'.lues[k]
    BY <1>5, <1>7 DEF Avancement, Existe
  <2>1. AJour(k, d) => AJour(k, d)'
    BY <1>2, <1>5, <1>7 DEF AJour, SousCles
  <2>2. /\ d < c => AJour(k, d)
        /\ d = c => AJour(k, d) \/ (script.lues[k] # Nul /\ base[k][d] = script.lues[k])
    BY <1>1 DEF Avancement
  <2>3. CASE k # l \/ d # c
    BY <1>7, <2>1, <2>2, <2>3
  <2>4. CASE k = l /\ d = c /\ ecrit
    BY <1>2, <1>7, <2>4, <2>1, <2>2 DEF AJour
  <2>5. CASE k = l /\ d = c /\ ~ ecrit
    <3>1. v.cle = hote.courante
      BY <1>3, <2>5
    <3>2. base[k][d] = v => AJour(k, d)
      BY <3>1 DEF AJour, SousCles
    <3> QED
      BY <2>1, <2>2, <2>5, <3>2
  <2> QED
    BY <2>3, <2>4, <2>5
<1> QED
  BY <1>8, <1>9, <1>10, <1>11, <1>12

LEMMA PasserColonneInv ==
  ASSUME IInv, PasserColonne
  PROVE  IInv'
<1> USE DEF IInv, PasserColonne
<1>1. /\ script' \in Reprise /\ script'.phase = "lecture"
      /\ script.colonne \in Nat /\ script'.colonne = script.colonne + 1
      /\ script'.env = script.env /\ script'.ecrites = script.ecrites
  <2>1. script \in Reprise /\ script.colonne \in Nat /\ script.colonne + 1 \in Nat
    BY DEF TypeOK, Reprise
  <2>2. script' = [script EXCEPT !.phase = "lecture", !.colonne = script.colonne + 1]
    OBVIOUS
  <2> QED
    BY <2>1, <2>2 DEF Reprise
<1>2. TypeOK'
  BY <1>1 DEF TypeOK
<1>3. RequetesServies' /\ InstancesConnues' /\ BaseLisible' /\ RepriseComplete'
  BY DEF RequetesServies, InstancesConnues, BaseLisible, RepriseComplete, Existe
<1>4. ScriptDuHote' /\ EcritesAJour'
  BY <1>1 DEF ScriptDuHote, EcritesAJour, Existe
<1>5. \A l \in Lignes : script.lues[l] = Nul
  BY DEF RienLu
<1>6. \A l \in Lignes, c \in Colonnes : AJour(l, c)' <=> AJour(l, c)
  BY <1>1 DEF AJour
<1>7. \A c \in Colonnes : c < script.colonne + 1 => c < script.colonne \/ c = script.colonne
  BY <1>1, ChiffrementAssumption DEF Colonnes
<1>8. Avancement'
  BY <1>1, <1>5, <1>6, <1>7 DEF Avancement, Existe
<1> QED
  BY <1>2, <1>3, <1>4, <1>8

\* What a commit leaves in a cell.
LEMMA Valide ==
  ASSUME IInv, ValiderReprise, NEW l \in Lignes, NEW c \in Colonnes
  PROVE  /\ Existe(l)' <=> Existe(l)
         /\ Existe(l) =>
              /\ base'[l] \in Ligne
              /\ base'[l][c] = IF script.ecrites[l][c] # Nul
                                 THEN script.ecrites[l][c] ELSE base[l][c]
              /\ SousCles(base'[l][c], {hote.courante})
<1> USE DEF IInv, ValiderReprise
<1> DEFINE n == [d \in Colonnes |->
                   IF script.ecrites[l][d] # Nul THEN script.ecrites[l][d] ELSE base[l][d]]
<1>1. base'[l] = IF Existe(l) THEN n ELSE Absente
  OBVIOUS
<1>2. Existe(l) => n \in Ligne
  BY DEF TypeOK, Reprise, Existe, Ligne
<1>3. Existe(l) => n # Absente
  BY <1>2, ChiffrementAssumption
<1>4. c < script.colonne
  BY ChiffrementAssumption DEF Termine, Colonnes, ScriptDuHote, TypeOK, Reprise
<1>5. Existe(l) => AJour(l, c)
  BY <1>4 DEF Avancement, Termine
<1>6. n[c] = IF script.ecrites[l][c] # Nul THEN script.ecrites[l][c] ELSE base[l][c]
  OBVIOUS
<1> HIDE DEF n
<1>7. Existe(l) => SousCles(n[c], {hote.courante})
  BY <1>5, <1>6 DEF AJour, SousCles, EcritesAJour
<1> QED
  BY <1>1, <1>2, <1>3, <1>6, <1>7 DEF Existe

LEMMA ValiderRepriseInv ==
  ASSUME IInv, ValiderReprise
  PROVE  IInv'
<1> USE DEF IInv
<1>1. UNCHANGED <<hote, api, req>> /\ script' = SansReprise /\ reprise'
  BY DEF ValiderReprise
<1>2. script.phase # "libre"
  BY DEF ValiderReprise, Termine
<1>3. \A l \in Lignes, c \in Colonnes :
        Existe(l)' => SousCles(base'[l][c], {hote.courante})
  BY Valide
<1>4. TypeOK'
  <2>1. base' = [l \in Lignes |-> base'[l]]
    BY DEF ValiderReprise
  <2>2. \A l \in Lignes : base'[l] \in Ligne \cup {Absente}
    BY DEF ValiderReprise, TypeOK, Reprise, Existe, Ligne
  <2>3. base' \in [Lignes -> Ligne \cup {Absente}]
    BY <2>1, <2>2
  <2> QED
    BY <1>1, <2>3, ReposTypes DEF TypeOK, ValiderReprise
<1>5. RequetesServies' /\ InstancesConnues'
  BY <1>1, <1>2 DEF RequetesServies, InstancesConnues
<1>6. BaseLisible'
  BY <1>1, <1>3 DEF BaseLisible, SousCles, ClesLisibles
<1>7. RepriseComplete'
  BY <1>1, <1>3 DEF RepriseComplete, SousCles
<1>8. ScriptDuHote' /\ EcritesAJour' /\ Avancement'
  BY <1>1, ReposTypes DEF ScriptDuHote, EcritesAJour, Avancement, SansReprise
<1> QED
  BY <1>4, <1>5, <1>6, <1>7, <1>8

LEMMA AnnulerRepriseInv ==
  ASSUME IInv, AnnulerReprise
  PROVE  IInv'
<1> USE DEF IInv, AnnulerReprise
<1>1. TypeOK'
  BY ReposTypes DEF TypeOK
<1>2. RequetesServies' /\ InstancesConnues' /\ BaseLisible' /\ RepriseComplete'
  BY ReposTypes DEF RequetesServies, InstancesConnues, BaseLisible, RepriseComplete, Existe
<1>3. ScriptDuHote' /\ EcritesAJour' /\ Avancement'
  BY ReposTypes DEF ScriptDuHote, EcritesAJour, Avancement, SansReprise
<1> QED
  BY <1>1, <1>2, <1>3

\* The keys that are read stay readable: nothing is under a key that goes.
LEMMA ChangerCleInv ==
  ASSUME IInv, ChangerCle
  PROVE  IInv'
<1> USE DEF IInv, ChangerCle
<1>1. hote.courante \in Cles /\ hote' \in Environnement
  BY ChiffrementAssumption DEF TypeOK, Environnement, Cles
<1>2. TypeOK'
  BY <1>1 DEF TypeOK
<1>3. \A l \in Lignes, c \in Colonnes :
        Existe(l) /\ base[l][c] # Nul => base[l][c].cle # Nul
  BY ChiffrementAssumption DEF TypeOK, Existe, Ligne, Cellule, Valeur, Cles, Clair
<1>4. BaseLisible'
  BY <1>3 DEF BaseLisible, SousCles, ClesLisibles, Existe
<1>5. InstancesConnues'
  <2>1. \A i \in Instances : api[i] # Arretee => api[i].courante # Nul
    BY ChiffrementAssumption DEF TypeOK, Environnement, Cles
  <2> QED
    BY <2>1 DEF InstancesConnues
<1>6. RequetesServies' /\ RepriseComplete'
  BY DEF RequetesServies, RepriseComplete
<1>7. ScriptDuHote' /\ EcritesAJour' /\ Avancement'
  BY ReposTypes DEF ScriptDuHote, EcritesAJour, Avancement
<1> QED
  BY <1>2, <1>4, <1>5, <1>6, <1>7

LEMMA RetirerPrecedenteInv ==
  ASSUME IInv, RetirerPrecedente
  PROVE  IInv'
<1> USE DEF IInv, RetirerPrecedente
<1>1. TypeOK'
  BY DEF TypeOK, Environnement
<1>2. BaseLisible'
  BY DEF BaseLisible, RepriseComplete, SousCles, ClesLisibles, Existe
<1>3. InstancesConnues' /\ RequetesServies' /\ RepriseComplete'
  BY DEF InstancesConnues, RequetesServies, RepriseComplete, Existe
<1>4. ScriptDuHote' /\ EcritesAJour' /\ Avancement'
  BY ReposTypes DEF ScriptDuHote, EcritesAJour, Avancement
<1> QED
  BY <1>1, <1>2, <1>3, <1>4

LEMMA NextInv == IInv /\ [Next]_vars => IInv'
<1> SUFFICES ASSUME IInv, [Next]_vars PROVE IInv'
  OBVIOUS
<1>1. CASE UNCHANGED vars
  BY <1>1 DEF vars, IInv, TypeOK, RequetesServies, BaseLisible, InstancesConnues,
     ScriptDuHote, EcritesAJour, Avancement, RepriseComplete, Existe, AJour
<1>2. CASE \E i \in Instances : NextInstance(i)
  BY <1>2, DemarrerInv, ChargerInv, EnregistrerInv, CreerInv DEF NextInstance
<1>3. CASE \E l \in Lignes : Supprimer(l)
  BY <1>3, SupprimerInv
<1>4. CASE NextReprise
  BY <1>4, LancerRepriseInv, LireColonneInv, RechiffrerValeurInv, PasserColonneInv,
     ValiderRepriseInv, AnnulerRepriseInv DEF NextReprise
<1>5. CASE ChangerCle \/ RetirerPrecedente
  BY <1>5, ChangerCleInv, RetirerPrecedenteInv
<1> QED
  BY <1>1, <1>2, <1>3, <1>4, <1>5 DEF Next

\* The invariant holds in every state of every execution.
THEOREM Invariant == Spec => []IInv
<1> QED
  BY InitInv, NextInv, PTL DEF Spec

\* The typing invariant of the keys, the instances and the script.
THEOREM Typage == Spec => []TypeOK
<1> QED
  BY Invariant, PTL DEF IInv

\* No change of key, no stop of the script and no instance that still writes with
\* the older key ever leaves in the base a value the host's keys do not open.
THEOREM Lisible == Spec => []ToujoursLisible
<1>1. IInv => ToujoursLisible
  BY LireLigne DEF IInv, TypeOK, BaseLisible, ToujoursLisible, Existe
<1> QED
  BY <1>1, Invariant, PTL

\* A committed script leaves nothing in clear or under the previous key, whatever
\* is written while it goes from column to column.
THEOREM Complete == Spec => []RepriseComplete
<1> QED
  BY Invariant, PTL DEF IInv

-----------------------------------------------------------------------------
(***************************************************************************)
(* The refinement: what readers see is a Carnet.                           *)
(***************************************************************************)
TexteDesLignes ==
  /\ Textuel \in [Lignes -> Contenu \cup {Absente}]
  /\ \A l \in Lignes :
       /\ Textuel[l] = Absente <=> ~ Existe(l)
       /\ Existe(l) => Textuel[l] = [c \in Colonnes |-> Texte(base[l][c])]

LEMMA LireTout == IInv => TexteDesLignes
<1> SUFFICES ASSUME IInv PROVE TexteDesLignes
  OBVIOUS
<1>1. \A l \in Lignes : Existe(l) =>
        /\ DechiffrerLigne(hote, base[l]) = [c \in Colonnes |-> Texte(base[l][c])]
        /\ DechiffrerLigne(hote, base[l]) \in Contenu
  BY LireLigne DEF IInv, TypeOK, BaseLisible, Existe
<1> QED
  BY <1>1, ChiffrementAssumption DEF Textuel, TexteDesLignes

LEMMA LireToutDeuxFois == IInv /\ IInv' => TexteDesLignes /\ TexteDesLignes'
BY LireTout, PTL

LEMMA InitSimule == Init => C!InitCarnet
<1> SUFFICES ASSUME Init PROVE C!InitCarnet
  OBVIOUS
<1>1. IInv
  BY InitInv
<1>2. Textuel \in [Lignes -> Contenu \cup {Absente}]
  BY <1>1, LireTout DEF TexteDesLignes
<1>3. Copies = {}
  BY ReposTypes DEF Init, Copies
<1> QED
  BY <1>2, <1>3 DEF C!InitCarnet, C!Contenu, Contenu

\* One row changes, and the script has nothing to do with it.
LEMMA EcrireSimule ==
  ASSUME IInv, IInv', NEW l \in Lignes, script' = script,
         \A k \in Lignes \ {l} : base'[k] = base[k]
  PROVE  C!Ecrire(l)
<1>1. TexteDesLignes /\ TexteDesLignes'
  BY LireToutDeuxFois
<1>2. \A k \in Lignes \ {l} : Textuel'[k] = Textuel[k]
  BY <1>1 DEF TexteDesLignes, Existe
<1>3. Textuel' = [Textuel EXCEPT ![l] = Textuel'[l]]
  BY <1>1, <1>2 DEF TexteDesLignes
<1>4. Textuel'[l] \in Contenu \cup {Absente}
  BY <1>1 DEF TexteDesLignes
<1>5. Copies' = Copies
  BY DEF Copies
<1> QED
  BY <1>3, <1>4, <1>5 DEF C!Ecrire, C!Contenu, Contenu

\* No row changes: neither do the texts, even when the host's keys do.
LEMMA TextesInchanges ==
  ASSUME IInv, IInv', base' = base
  PROVE  Textuel' = Textuel
<1>1. TexteDesLignes /\ TexteDesLignes'
  BY LireToutDeuxFois
<1>2. \A k \in Lignes : Textuel'[k] = Textuel[k]
  BY <1>1 DEF TexteDesLignes, Existe
<1> QED
  BY <1>1, <1>2 DEF TexteDesLignes

LEMMA InstanceSimule ==
  ASSUME IInv, IInv', NEW i \in Instances, NextInstance(i)
  PROVE  [C!NextCarnet]_(C!carnetVars)
<1>1. CASE UNCHANGED <<base, script>>
  <2>1. Copies' = Copies
    BY <1>1 DEF Copies
  <2> QED
    BY <1>1, <2>1, TextesInchanges DEF C!carnetVars
<1>2. ASSUME ~ UNCHANGED <<base, script>>
      PROVE  \E l \in Lignes : C!Ecrire(l)
  <2>1. CASE Enregistrer(i)
    <3>1. req[i].ligne \in Lignes
      BY <2>1 DEF Enregistrer, IInv, RequetesServies
    <3>2. script' = script /\ \A k \in Lignes \ {req[i].ligne} : base'[k] = base[k]
      BY <2>1 DEF Enregistrer, IInv, TypeOK
    <3> QED
      BY <3>1, <3>2, EcrireSimule
  <2>2. CASE \E l \in Lignes, contenu \in Contenu : Creer(i, l, contenu)
    BY <2>2, EcrireSimule DEF Creer, IInv, TypeOK
  <2> QED
    BY <1>2, <2>1, <2>2 DEF NextInstance, Demarrer, Arreter, Charger
<1> QED
  BY <1>1, <1>2 DEF C!NextCarnet

LEMMA RepriseSimule ==
  ASSUME IInv, IInv', NextReprise
  PROVE  [C!NextCarnet]_(C!carnetVars)
<1>1. TexteDesLignes /\ TexteDesLignes'
  BY LireToutDeuxFois
<1>2. SUFFICES C!Copier \/ C!Remettre
  BY DEF C!NextCarnet
<1>3. CASE \/ \E executer \in BOOLEAN, p \in {Nul, hote.precedente} : LancerReprise(executer, p)
           \/ AnnulerReprise
  <2>1. /\ script'.lues = SansReprise.lues /\ script'.ecrites = SansReprise.ecrites
        /\ base' = base
    BY <1>3 DEF LancerReprise, AnnulerReprise, SansReprise
  <2>2. Copies' = {}
    BY <2>1, ReposTypes DEF Copies
  <2> QED
    BY <2>1, <2>2, TextesInchanges DEF C!Copier
<1>4. CASE LireColonne
  <2>1. base' = base /\ script'.ecrites = script.ecrites /\ script'.colonne = script.colonne
        /\ \A l \in Lignes :
             script'.lues[l] = IF Existe(l) THEN base[l][script.colonne] ELSE Nul
    BY <1>4 DEF LireColonne, IInv, TypeOK, Reprise
  <2>2. ASSUME NEW k \in Copies' \ Copies
        PROVE  Textuel[k[1]] # Absente /\ Textuel[k[1]][k[2]] = k[3]
    <3>1. /\ k[1] \in Lignes /\ k[2] \in Colonnes /\ k[2] = script.colonne
          /\ script'.lues[k[1]] # Nul /\ script'.lues[k[1]].texte = k[3]
      BY <2>1, <2>2 DEF Copies
    <3>2. Existe(k[1]) /\ base[k[1]][k[2]] # Nul /\ base[k[1]][k[2]].texte = k[3]
      BY <2>1, <3>1
    <3> QED
      BY <1>1, <3>1, <3>2 DEF TexteDesLignes, Texte
  <2> QED
    BY <2>1, <2>2, TextesInchanges DEF C!Copier
<1>5. ASSUME NEW l \in Lignes, RechiffrerValeur(l)
      PROVE  C!Copier
  <2>1. script'.colonne = script.colonne /\ base' = base
        /\ \A k \in Lignes : script'.lues[k] \in {Nul, script.lues[k]}
    BY <1>5 DEF RechiffrerValeur, IInv, TypeOK, Reprise
  <2>2. ASSUME NEW k \in Lignes, NEW c \in Colonnes, script'.ecrites[k][c] # Nul
        PROVE  \/ script'.ecrites[k][c] = script.ecrites[k][c]
               \/ /\ c = script.colonne /\ script.lues[k] # Nul
                  /\ script'.ecrites[k][c].texte = script.lues[k].texte
    <3>1. \/ script'.ecrites[k][c] = script.ecrites[k][c]
          \/ /\ k = l /\ c = script.colonne /\ script.lues[l] # Nul
             /\ script'.ecrites[k][c] = Chiffrer(script.env, script.lues[l].texte)
      BY <1>5 DEF RechiffrerValeur, IInv, TypeOK, Reprise, Ligne
    <3> QED
      BY <2>2, <3>1 DEF Chiffrer
  <2>3. Copies' \subseteq Copies
    <3> SUFFICES ASSUME NEW k \in Copies' PROVE k \in Copies
      OBVIOUS
    <3>1. k[1] \in Lignes /\ k[2] \in Colonnes /\ k \in Lignes \X Colonnes \X Textes
      BY DEF Copies
    <3> QED
      BY <2>1, <2>2, <3>1 DEF Copies
  <2> QED
    BY <2>1, <2>3, TextesInchanges DEF C!Copier
<1>6. CASE PasserColonne
  <2>1. base' = base /\ script'.ecrites = script.ecrites /\ script'.lues = script.lues
        /\ \A l \in Lignes : script.lues[l] = Nul
    BY <1>6 DEF PasserColonne, RienLu, IInv, TypeOK, Reprise
  <2>2. Copies' \subseteq Copies
    BY <2>1 DEF Copies
  <2> QED
    BY <2>1, <2>2, TextesInchanges DEF C!Copier
<1>7. CASE ValiderReprise
  <2>1. Copies' = {}
    BY <1>7, ReposTypes DEF Copies, ValiderReprise
  <2>2. ASSUME NEW l \in Lignes
        PROVE  /\ Textuel'[l] = Absente <=> Textuel[l] = Absente
               /\ Textuel[l] # Absente =>
                    \A c \in Colonnes :
                      Textuel'[l][c] = Textuel[l][c] \/ <<l, c, Textuel'[l][c]>> \in Copies
    <3>1. Existe(l)' <=> Existe(l)
      <4>1. base' \in [Lignes -> Ligne \cup {Absente}]
            /\ (Existe(l) => base'[l] \in Ligne) /\ (~ Existe(l) => base'[l] = Absente)
        BY <1>7 DEF ValiderReprise, IInv, TypeOK, Reprise, Existe, Ligne
      <4> QED
        BY <4>1, ChiffrementAssumption DEF Existe
    <3>2. ASSUME Existe(l), NEW c \in Colonnes
          PROVE  Textuel'[l][c] = Textuel[l][c] \/ <<l, c, Textuel'[l][c]>> \in Copies
      <4>1. base'[l][c] = IF script.ecrites[l][c] # Nul
                            THEN script.ecrites[l][c] ELSE base[l][c]
        BY <1>7, <3>2, Valide
      <4>2. Textuel'[l][c] = Texte(base'[l][c]) /\ Textuel[l][c] = Texte(base[l][c])
        BY <1>1, <3>1, <3>2 DEF TexteDesLignes
      <4>3. CASE script.ecrites[l][c] = Nul
        BY <4>1, <4>2, <4>3
      <4>4. CASE script.ecrites[l][c] # Nul
        <5>1. script.ecrites[l][c].texte \in Textes
          BY <4>4 DEF IInv, TypeOK, Reprise, Ligne, Cellule, Valeur
        <5>2. Textuel'[l][c] = script.ecrites[l][c].texte
          BY <4>1, <4>2, <4>4 DEF Texte
        <5> QED
          BY <4>4, <5>1, <5>2 DEF Copies
      <4> QED
        BY <4>3, <4>4
    <3> QED
      BY <1>1, <3>1, <3>2 DEF TexteDesLignes
  <2> QED
    BY <1>1, <2>1, <2>2 DEF C!Remettre, C!Contenu, Contenu, TexteDesLignes
<1> QED
  BY <1>3, <1>4, <1>5, <1>6, <1>7 DEF NextReprise

LEMMA EtapeSimule ==
  IInv /\ IInv' /\ [Next]_vars => [C!NextCarnet]_(C!carnetVars)
<1> SUFFICES ASSUME IInv, IInv', [Next]_vars PROVE [C!NextCarnet]_(C!carnetVars)
  OBVIOUS
<1>1. CASE UNCHANGED vars \/ ChangerCle \/ RetirerPrecedente
  <2>1. base' = base /\ Copies' = Copies
    BY <1>1 DEF vars, Copies, ChangerCle, RetirerPrecedente
  <2> QED
    BY <2>1, TextesInchanges DEF C!carnetVars
<1>2. ASSUME NEW l \in Lignes, Supprimer(l)
      PROVE  C!Ecrire(l)
  BY <1>2, EcrireSimule DEF Supprimer, IInv, TypeOK
<1> QED
  BY <1>1, <1>2, InstanceSimule, RepriseSimule DEF Next, C!NextCarnet

\* The instances, their keys, the script and the owner together implement Carnet:
\* those who read and write texts see no change of key, and of the script at worst
\* a text they had written back in place of a later one.
THEOREM Raffinement == Spec => Transparence
<1> QED
  BY InitSimule, EtapeSimule, Invariant, PTL DEF Spec, Transparence, C!SpecCarnet
=============================================================================
