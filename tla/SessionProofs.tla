--------------------------- MODULE SessionProofs ---------------------------
(***************************************************************************)
(* For any number of browsers, requests, links and durations: a magic link *)
(* opens one session, links are spaced, the account accepts no token that  *)
(* nobody holds unless its answer was lost or overtaken, and failed        *)
(* passwords exceed their limits by no more than the attempts that were in *)
(* progress.  A browser may have any number of calls in progress.          *)
(***************************************************************************)
EXTENDS Session, Integers, FunctionTheorems, FiniteSetTheorems, TLAPS

\* What a request carries fits where it is.
Coherente(e) ==
  /\ e.phase = "demande" => e.temps <= RetardMax
  /\ e.phase \in {"ecriture", "reponse"} => e.temps <= DUREE_REFRESH
  /\ e.phase # "libre" => e.nav \in Navigateurs
  /\ e.phase = "envoi" => e.objet \in Liens

EnCours(r) == req[r].phase # "libre"

\* The failures of an address that are not a unit of time old.
Recents(a) == {e \in echecs : e.adresse = a /\ e.reste = WINDOW}

RequetesTenues ==
  /\ req \in [Requetes -> EtatRequete]
  /\ \A r \in Requetes : Coherente(req[r])

\* The place for a link holds the last one drawn, unused, with its date.
LienCourant ==
  /\ \A l \in Liens : compte.lien = l => ouvertures[l] = 0 /\ compte.expire = vies[l]
  /\ \A l \in Liens \ soldes :
       vies[l] > 0 => compte.lien # Nul /\ vies[l] <= compte.expire

\* The browser of the request that wrote the token last: its answer is on its
\* way, or it has the token, and whatever else is on its way to it was sent before.
Detient(n) ==
  \/ \E r \in EnRoute(n) : Porte(r) /\ EnRoute(n) \ {r} \subseteq depassees
  \/ cookies[n] = compte.refresh /\ EnRoute(n) \subseteq depassees

JetonDetenu ==
  compte.refresh > 0 => perdue \/ \E n \in Navigateurs : Detient(n)

IInv ==
  /\ TypeOK
  /\ RequetesTenues
  /\ LienCourant
  /\ LienUsageUnique
  /\ EnvoisEspaces
  /\ JetonDetenu

-----------------------------------------------------------------------------
(***************************************************************************)
(* Requests: one goes from a state to the next, the others stay.           *)
(***************************************************************************)
LEMMA LibreTypee ==
  Libre \in EtatRequete /\ Libre.phase = "libre" /\ Coherente(Libre)
BY DEF Libre, EtatRequete, Phases, Coherente

LEMMA Remplacer ==
  ASSUME RequetesTenues, NEW r \in Requetes, NEW e \in EtatRequete, Coherente(e),
         req' = [req EXCEPT ![r] = e]
  PROVE  RequetesTenues' /\ req'[r] = e /\ \A q \in Requetes \ {r} : req'[q] = req[q]
<1>1. req'[r] = e /\ \A q \in Requetes \ {r} : req'[q] = req[q]
  BY DEF RequetesTenues
<1>2. req' \in [Requetes -> EtatRequete]
  BY DEF RequetesTenues
<1>3. \A q \in Requetes : Coherente(req'[q])
  BY <1>1 DEF RequetesTenues
<1> QED
  BY <1>1, <1>2, <1>3 DEF RequetesTenues, Coherente

LEMMA Appel ==
  ASSUME RequetesTenues, NEW r \in Requetes, NEW op, NEW n \in Navigateurs,
         NEW phase \in Phases \ {"libre", "envoi"},
         NEW objet \in MotsDePasse \cup Liens \cup {Nul},
         Appeler(r, op, n, phase, objet)
  PROVE  /\ RequetesTenues'
         /\ req[r].phase = "libre" /\ req'[r].phase = phase /\ req'[r].nav = n
         /\ \A q \in Requetes \ {r} : req'[q] = req[q]
<1> DEFINE e == [phase |-> phase, nav |-> n, objet |-> objet, temps |-> 0]
<1>1. e \in EtatRequete /\ Coherente(e)
  BY SessionAssumption DEF EtatRequete, Coherente
<1>2. req[r].phase = "libre" /\ req' = [req EXCEPT ![r] = e]
  BY DEF Appeler
<1>3. RequetesTenues' /\ req'[r] = e /\ \A q \in Requetes \ {r} : req'[q] = req[q]
  BY <1>1, <1>2, Remplacer
<1> QED
  BY <1>2, <1>3

LEMMA Avance ==
  ASSUME RequetesTenues, NEW r \in Requetes, EnCours(r),
         NEW phase \in Phases \ {"libre", "envoi", "demande", "ecriture"},
         phase = "reponse" => req[r].phase = "ecriture",
         Avancer(r, phase)
  PROVE  /\ RequetesTenues'
         /\ req'[r].phase = phase /\ req'[r].nav = req[r].nav /\ req'[r].temps = req[r].temps
         /\ \A q \in Requetes \ {r} : req'[q] = req[q]
<1> DEFINE e == [req[r] EXCEPT !.phase = phase]
<1>1. req[r] \in EtatRequete /\ Coherente(req[r])
  BY DEF RequetesTenues
<1>2. /\ e \in EtatRequete /\ e.phase = phase /\ e.nav = req[r].nav
      /\ e.temps = req[r].temps /\ e.objet = req[r].objet
  BY <1>1 DEF EtatRequete
<1>3. req' = [req EXCEPT ![r] = e]
  BY DEF Avancer, RequetesTenues
<1> HIDE DEF e
<1>4. Coherente(e)
  BY <1>1, <1>2 DEF Coherente, EnCours
<1>5. RequetesTenues' /\ req'[r] = e /\ \A q \in Requetes \ {r} : req'[q] = req[q]
  BY <1>2, <1>3, <1>4, Remplacer
<1> QED
  BY <1>2, <1>5

LEMMA Reponse ==
  ASSUME RequetesTenues, NEW r \in Requetes, Repondre(r)
  PROVE  /\ RequetesTenues' /\ req'[r] = Libre /\ req'[r].phase = "libre"
         /\ \A q \in Requetes \ {r} : req'[q] = req[q]
BY LibreTypee, Remplacer DEF Repondre

-----------------------------------------------------------------------------
(***************************************************************************)
(* Types.                                                                  *)
(***************************************************************************)
LEMMA Initial == Init => IInv
<1> SUFFICES ASSUME Init PROVE IInv
  OBVIOUS
<1>1. RequetesTenues
  BY LibreTypee DEF Init, RequetesTenues
<1>2. /\ 0 \in 0 .. DUREE_REFRESH /\ 0 \in 0 .. DUREE_LIEN
  BY SessionAssumption
<1>3. TypeOK
  BY <1>1, <1>2, FS_EmptySet DEF Init, TypeOK, RequetesTenues
<1> QED
  BY <1>1, <1>3, SessionAssumption
     DEF Init, IInv, LienCourant, LienUsageUnique, EnvoisEspaces, JetonDetenu

\* A step of a request that writes no table of the types below.
LEMMA TypesDeRequete ==
  ASSUME TypeOK, RequetesTenues', UNCHANGED <<passkeys, script, liens>>,
         compte' \in [motDePasse : MotsDePasse \cup {Nul}, refresh : 0 .. DUREE_REFRESH,
                      lien : Liens \cup {Nul}, expire : 0 .. DUREE_LIEN],
         echecs' \subseteq Echec, IsFiniteSet(echecs'),
         cookies' \in [Navigateurs -> 0 .. DUREE_REFRESH],
         compte'.lien = Nul => compte'.expire = 0,
         perdue' \in BOOLEAN, depassees' \subseteq Requetes
  PROVE  TypeOK'
BY DEF TypeOK, RequetesTenues, liens

\* A failure that is inserted, and the window that moves.
LEMMA EchecsInscrits ==
  ASSUME TypeOK, NEW r \in Requetes, RegisterFailure(r), Adresse[req[r].nav] \in Adresses
  PROVE  /\ echecs' \subseteq Echec /\ IsFiniteSet(echecs')
         /\ \E e \in Echec : /\ e.adresse = Adresse[req[r].nav] /\ e.reste = WINDOW
                             /\ e.rang = Cardinality(Recents(e.adresse)) + 1
                             /\ echecs' = echecs \cup {e}
<1> DEFINE a == Adresse[req[r].nav]
           e == [adresse |-> a, reste |-> WINDOW, rang |-> Cardinality(Recents(a)) + 1]
<1>1. echecs' = echecs \cup {e}
  BY DEF RegisterFailure, Recents
<1>2. IsFiniteSet(Recents(a))
  BY FS_Subset DEF TypeOK, Recents
<1>3. e \in Echec
  BY <1>2, FS_CardinalityType, SessionAssumption DEF Echec
<1>4. IsFiniteSet(echecs')
  BY <1>1, FS_AddElement DEF TypeOK
<1>5. e.adresse = a /\ e.reste = WINDOW /\ e.rang = Cardinality(Recents(a)) + 1
  OBVIOUS
<1> HIDE DEF e
<1> QED
  BY <1>1, <1>3, <1>4, <1>5 DEF TypeOK

\* Vieilli(e) is what is left of row e after a unit of time.
Vieilli(e) == [e EXCEPT !.reste = @ - 1]

LEMMA EchecsVieillis ==
  ASSUME TypeOK, Ecouler, NEW S
  PROVE  LET avant == {e \in echecs : e.adresse \in S}
             apres == {e \in echecs' : e.adresse \in S}
         IN  /\ echecs' \subseteq Echec /\ IsFiniteSet(echecs')
             /\ IsFiniteSet(apres) /\ Cardinality(apres) <= Cardinality(avant)
             /\ \A e \in echecs' : e.reste < WINDOW
<1> DEFINE restants == {e \in echecs : e.reste > 1}
           avant == {e \in restants : e.adresse \in S}
           apres == {e \in echecs' : e.adresse \in S}
<1>1. echecs' = {Vieilli(e) : e \in restants}
  BY DEF Ecouler, Vieilli
<1>2. ASSUME NEW e \in restants
      PROVE  Vieilli(e) \in Echec /\ Vieilli(e).adresse = e.adresse /\ Vieilli(e).reste < WINDOW
  BY SessionAssumption DEF TypeOK, Echec, Vieilli
<1>3. IsFiniteSet(restants) /\ IsFiniteSet(avant)
      /\ IsFiniteSet({e \in echecs : e.adresse \in S})
  BY FS_Subset DEF TypeOK
<1>4. IsFiniteSet(echecs')
  <2> DEFINE f == [e \in restants |-> Vieilli(e)]
  <2>1. f \in Surjection(restants, echecs')
    BY <1>1 DEF Surjection
  <2> QED
    BY <1>3, <2>1, FS_Surjection
<1>5. IsFiniteSet(apres) /\ Cardinality(apres) <= Cardinality(avant)
  <2> DEFINE f == [e \in avant |-> Vieilli(e)]
  <2>1. f \in Surjection(avant, apres)
    BY <1>1, <1>2 DEF Surjection
  <2> QED
    BY <1>3, <2>1, FS_Surjection
<1>6. /\ Cardinality(avant) <= Cardinality({e \in echecs : e.adresse \in S})
      /\ Cardinality(avant) \in Nat /\ Cardinality(apres) \in Nat
      /\ Cardinality({e \in echecs : e.adresse \in S}) \in Nat
  BY <1>3, <1>5, FS_Subset, FS_CardinalityType
<1> QED
  BY <1>1, <1>2, <1>4, <1>5, <1>6

\* The calls: a guard, and the request is somewhere.
LEMMA Debuts ==
  ASSUME TypeOK, RequetesTenues, NEW r \in Requetes, NEW n \in Navigateurs,
         \/ \E m \in MotsDePasse : Login(r, n, m)
         \/ Refresh(r, n)
         \/ Logout(r, n)
         \/ RequestMagicLink(r, n)
         \/ \E k \in Passkeys : PasskeyLogin(r, n, k)
  PROVE  /\ TypeOK' /\ RequetesTenues'
         /\ UNCHANGED <<liens, cookies, perdue, depassees, compte.lien, compte.expire>>
         /\ compte'.refresh \in {0, compte.refresh}
         /\ compte'.refresh # 0 => req'[r].phase \notin {"reponse", "effacement"}
         /\ req[r].phase = "libre"
         /\ \A q \in Requetes \ {r} : req'[q] = req[q]
<1>1. ASSUME NEW m \in MotsDePasse, Login(r, n, m)
      PROVE  /\ Appeler(r, "login", n, "verrou", m)
             /\ UNCHANGED <<table, cookies, script, liens, perdue, depassees>>
  BY <1>1 DEF Login
<1>2. CASE \/ \E m \in MotsDePasse : Login(r, n, m)
           \/ Refresh(r, n)
           \/ RequestMagicLink(r, n)
           \/ \E k \in Passkeys : PasskeyLogin(r, n, k)
  <2>1. PICK op \in {"login", "refresh", "lien", "passkey"},
             phase \in {"verrou", "emission", "demande"},
             objet \in MotsDePasse \cup Liens \cup {Nul} : Appeler(r, op, n, phase, objet)
    BY <1>2 DEF Login, Refresh, RequestMagicLink, PasskeyLogin
  <2>2. UNCHANGED <<table, cookies, script, liens, perdue, depassees>>
    BY <1>2 DEF Login, Refresh, RequestMagicLink, PasskeyLogin
  <2>3. /\ RequetesTenues' /\ req[r].phase = "libre" /\ req'[r].phase = phase
        /\ \A q \in Requetes \ {r} : req'[q] = req[q]
    <3>1. phase \in Phases \ {"libre", "envoi"}
      BY DEF Phases
    <3> QED
      BY <2>1, <3>1, Appel
  <2>4. TypeOK'
    BY <2>2, <2>3, TypesDeRequete DEF TypeOK, table
  <2> QED
    BY <2>2, <2>3, <2>4 DEF table
<1>3. CASE Logout(r, n)
  <2>1. /\ RequetesTenues' /\ req[r].phase = "libre"
        /\ \A q \in Requetes \ {r} : req'[q] = req[q]
    BY <1>3, Appel DEF Logout, Phases
  <2>2. compte' = [compte EXCEPT !.refresh = 0]
        /\ UNCHANGED <<passkeys, echecs, cookies, script, liens, perdue, depassees>>
    BY <1>3 DEF Logout
  <2>3. /\ compte' \in [motDePasse : MotsDePasse \cup {Nul}, refresh : 0 .. DUREE_REFRESH,
                       lien : Liens \cup {Nul}, expire : 0 .. DUREE_LIEN]
        /\ compte'.refresh = 0 /\ compte'.lien = compte.lien /\ compte'.expire = compte.expire
    <3>1. 0 \in 0 .. DUREE_REFRESH
      BY SessionAssumption
    <3> QED
      BY <2>2, <3>1 DEF TypeOK
  <2>4. TypeOK'
    BY <2>1, <2>2, <2>3, TypesDeRequete DEF TypeOK
  <2> QED
    BY <2>1, <2>2, <2>3, <2>4
<1> QED
  BY <1>2, <1>3

\* The password.
LEMMA Mots ==
  ASSUME TypeOK, RequetesTenues, NEW r \in Requetes,
         \/ AssertNotLocked(r)
         \/ ValidatePassword(r)
         \/ RegisterFailure(r)
         \/ Reset(r)
         \/ Signer(r)
  PROVE  /\ TypeOK' /\ RequetesTenues'
         /\ UNCHANGED <<liens, cookies, perdue, depassees, compte>>
         /\ req[r].phase # "reponse" /\ req'[r].phase \notin {"reponse", "effacement"}
         /\ \A q \in Requetes \ {r} : req'[q] = req[q]
<1>0. EnCours(r) /\ req[r].phase # "reponse"
  BY DEF EnCours, AssertNotLocked, ValidatePassword, RegisterFailure, Reset, Signer
<1>1. /\ RequetesTenues' /\ req'[r].phase \notin {"reponse", "effacement"}
      /\ \A q \in Requetes \ {r} : req'[q] = req[q]
  <2>1. CASE Signer(r)
    <3> DEFINE e == [phase |-> "ecriture", nav |-> req[r].nav, objet |-> Nul,
                     temps |-> DUREE_REFRESH]
    <3>1. e \in EtatRequete /\ Coherente(e)
      BY <1>0, SessionAssumption DEF EtatRequete, Coherente, RequetesTenues, Phases, EnCours
    <3>2. req' = [req EXCEPT ![r] = e]
      BY <2>1 DEF Signer
    <3>3. e.phase = "ecriture" /\ e.nav = req[r].nav
      OBVIOUS
    <3> HIDE DEF e
    <3> QED
      BY <1>0, <3>1, <3>2, <3>3, Remplacer
  <2>2. CASE ~ Signer(r)
    <3>1. \/ Repondre(r)
          \/ \E phase \in {"motDePasse", "succes", "echec", "emission"} : Avancer(r, phase)
      BY <2>2 DEF AssertNotLocked, ValidatePassword, RegisterFailure, Reset
    <3>2. ASSUME NEW phase \in {"motDePasse", "succes", "echec", "emission"}, Avancer(r, phase)
          PROVE  /\ RequetesTenues' /\ req'[r].phase = phase
                 /\ \A q \in Requetes \ {r} : req'[q] = req[q]
      BY <1>0, <3>2, Avance DEF Phases
    <3> QED
      BY <3>1, <3>2, Reponse
  <2> QED
    BY <2>1, <2>2
<1>2. UNCHANGED <<compte, passkeys, cookies, script, liens, perdue, depassees>>
  BY DEF AssertNotLocked, ValidatePassword, RegisterFailure, Reset, Signer, table
<1>3. echecs' \subseteq Echec /\ IsFiniteSet(echecs')
  <2>1. Adresse[req[r].nav] \in Adresses
    BY <1>0, SessionAssumption DEF RequetesTenues, Coherente, EnCours
  <2>2. CASE RegisterFailure(r)
    BY <2>1, <2>2, EchecsInscrits
  <2>3. CASE ~ RegisterFailure(r)
    <3>1. echecs' \subseteq echecs
      BY <2>3 DEF AssertNotLocked, ValidatePassword, Reset, Signer, table
    <3> QED
      BY <3>1, FS_Subset DEF TypeOK
  <2> QED
    BY <2>2, <2>3
<1> QED
  BY <1>0, <1>1, <1>2, <1>3, TypesDeRequete DEF TypeOK

\* The tokens.
LEMMA Ecritures ==
  ASSUME TypeOK, RequetesTenues, NEW r \in Requetes, IssueTokens(r)
  PROVE  /\ TypeOK' /\ RequetesTenues'
         /\ UNCHANGED <<liens, compte.lien, compte.expire>>
         /\ req'[r].phase = "reponse" /\ req'[r].nav = req[r].nav
         /\ req[r].nav \in Navigateurs
         /\ compte'.refresh = req'[r].temps
         /\ depassees' = EnRoute(req[r].nav) /\ req[r].phase = "ecriture"
         /\ \A q \in Requetes \ {r} : req'[q] = req[q]
<1>1. EnCours(r) /\ req[r].phase = "ecriture" /\ Avancer(r, "reponse")
  BY DEF EnCours, IssueTokens
<1>2. /\ RequetesTenues' /\ req'[r].phase = "reponse"
      /\ req'[r].nav = req[r].nav /\ req'[r].temps = req[r].temps
      /\ \A q \in Requetes \ {r} : req'[q] = req[q]
  <2>1. "reponse" \in Phases \ {"libre", "envoi", "demande", "ecriture"}
    BY DEF Phases
  <2> QED
    BY <1>1, <2>1, Avance
<1>3. req[r].nav \in Navigateurs /\ req[r].temps \in 0 .. DUREE_REFRESH
  BY <1>1, SessionAssumption DEF RequetesTenues, Coherente, EtatRequete
<1>4. compte' = [compte EXCEPT !.refresh = req[r].temps] /\ perdue' = FALSE
      /\ depassees' = EnRoute(req[r].nav)
      /\ UNCHANGED <<passkeys, echecs, cookies, script, liens>>
  BY DEF IssueTokens
<1>5. /\ compte' \in [motDePasse : MotsDePasse \cup {Nul}, refresh : 0 .. DUREE_REFRESH,
                      lien : Liens \cup {Nul}, expire : 0 .. DUREE_LIEN]
      /\ compte'.refresh = req[r].temps
      /\ compte'.lien = compte.lien /\ compte'.expire = compte.expire
  BY <1>3, <1>4 DEF TypeOK
<1>6. TypeOK'
  BY <1>2, <1>4, <1>5, TypesDeRequete DEF TypeOK, EnRoute
<1> QED
  BY <1>1, <1>2, <1>3, <1>4, <1>5, <1>6

LEMMA Cookies ==
  ASSUME TypeOK, RequetesTenues, NEW r \in Requetes, SetCookies(r) \/ ClearCookies(r)
  PROVE  /\ TypeOK' /\ RequetesTenues'
         /\ UNCHANGED <<liens, compte>>
         /\ perdue' = (perdue \/ (r \in depassees /\ ~ SessionEnRoute(req[r].nav)))
         /\ depassees' = depassees \ {r}
         /\ req[r].nav \in Navigateurs
         /\ \A n \in Navigateurs \ {req[r].nav} : cookies'[n] = cookies[n]
         /\ SetCookies(r) => cookies'[req[r].nav] = req[r].temps
         /\ req'[r].phase = "libre"
         /\ \A q \in Requetes \ {r} : req'[q] = req[q]
<1>1. /\ RequetesTenues' /\ req'[r].phase = "libre"
      /\ \A q \in Requetes \ {r} : req'[q] = req[q]
  BY Reponse DEF SetCookies, ClearCookies, Recevoir
<1>2. req[r].nav \in Navigateurs
  BY DEF RequetesTenues, Coherente, SetCookies, ClearCookies
<1>3. 0 \in 0 .. DUREE_REFRESH
      /\ (SetCookies(r) => req[r].temps \in 0 .. DUREE_REFRESH)
  BY SessionAssumption DEF RequetesTenues, Coherente, EtatRequete, SetCookies
<1>4. /\ UNCHANGED <<table, script, liens>>
      /\ perdue' = (perdue \/ (r \in depassees /\ ~ SessionEnRoute(req[r].nav)))
      /\ depassees' = depassees \ {r}
  BY DEF SetCookies, ClearCookies, Recevoir
<1>5. PICK t \in 0 .. DUREE_REFRESH :
        cookies' = [cookies EXCEPT ![req[r].nav] = t] /\ (SetCookies(r) => t = req[r].temps)
  BY <1>3 DEF SetCookies, ClearCookies
<1>6. TypeOK'
  BY <1>1, <1>2, <1>4, <1>5, TypesDeRequete DEF TypeOK, table
<1> QED
  BY <1>1, <1>2, <1>4, <1>5, <1>6 DEF TypeOK, table

\* The links.
LEMMA Reclamation ==
  ASSUME TypeOK, RequetesTenues, NEW r \in Requetes, NEW l \in Liens, ReclamerLien(r, l)
  PROVE  /\ TypeOK' /\ RequetesTenues'
         /\ UNCHANGED <<cookies, perdue, depassees, compte.refresh>>
         /\ req[r].phase # "reponse" /\ req'[r].phase \notin {"reponse", "effacement"}
         /\ \A q \in Requetes \ {r} : req'[q] = req[q]
<1> DEFINE vie == DUREE_LIEN - req[r].temps
           e == [req[r] EXCEPT !.phase = "envoi", !.objet = l]
<1>1. EnCours(r) /\ req[r].phase = "demande"
  BY DEF ReclamerLien, EnCours
<1>2. req[r] \in EtatRequete /\ vie \in 0 .. DUREE_LIEN /\ req[r].nav \in Navigateurs
  BY <1>1, SessionAssumption DEF RequetesTenues, Coherente, EtatRequete
<1>3. e \in EtatRequete /\ e.phase = "envoi" /\ e.nav = req[r].nav /\ e.objet = l
  BY <1>2 DEF EtatRequete, Phases
<1>4. CASE Repondre(r) /\ UNCHANGED <<compte, liens>>
  <2>1. UNCHANGED <<passkeys, echecs, cookies, script, perdue, depassees>>
    BY DEF ReclamerLien
  <2>2. /\ RequetesTenues' /\ req'[r].phase = "libre"
        /\ \A q \in Requetes \ {r} : req'[q] = req[q]
    BY <1>4, Reponse
  <2>3. TypeOK'
    BY <1>4, <2>1, <2>2, TypesDeRequete DEF TypeOK
  <2> QED
    BY <1>1, <1>4, <2>1, <2>2, <2>3
<1>5. CASE ~ (Repondre(r) /\ UNCHANGED <<compte, liens>>)
  <2>1. /\ compte' = [compte EXCEPT !.lien = l, !.expire = vie]
        /\ req' = [req EXCEPT ![r] = e]
        /\ vies' = [vies EXCEPT ![l] = vie]
        /\ ouvertures' = [ouvertures EXCEPT ![l] = 0]
        /\ recus' = recus \ {l}
        /\ soldes' = soldes \ {l}
        /\ UNCHANGED <<passkeys, echecs, cookies, script, perdue, depassees>>
    BY <1>5 DEF ReclamerLien, RequetesTenues
  <2> HIDE DEF e, vie
  <2>2. /\ RequetesTenues' /\ req'[r] = e
        /\ \A q \in Requetes \ {r} : req'[q] = req[q]
    BY <1>1, <1>2, <1>3, <2>1, Remplacer DEF Coherente
  <2>3. compte' \in [motDePasse : MotsDePasse \cup {Nul}, refresh : 0 .. DUREE_REFRESH,
                     lien : Liens \cup {Nul}, expire : 0 .. DUREE_LIEN]
        /\ compte'.refresh = compte.refresh /\ compte'.lien # Nul
    BY <1>2, <2>1, SessionAssumption DEF TypeOK
  <2>4. TypeOK'
    BY <1>2, <2>1, <2>2, <2>3 DEF TypeOK, RequetesTenues
  <2> QED
    BY <1>1, <1>3, <2>1, <2>2, <2>3, <2>4
<1> QED
  BY <1>4, <1>5

LEMMA Envoi ==
  ASSUME TypeOK, RequetesTenues, NEW r \in Requetes, EnvoyerLien(r)
  PROVE  /\ TypeOK' /\ RequetesTenues'
         /\ UNCHANGED <<compte, cookies, perdue, depassees, vies, ouvertures, soldes>>
         /\ req[r].phase # "reponse" /\ req'[r].phase = "libre"
         /\ \A q \in Requetes \ {r} : req'[q] = req[q]
<1>1. req[r].phase = "envoi" /\ req[r].objet \in Liens
  BY DEF EnvoyerLien, RequetesTenues, Coherente
<1>2. /\ RequetesTenues' /\ req'[r].phase = "libre"
      /\ \A q \in Requetes \ {r} : req'[q] = req[q]
  BY Reponse DEF EnvoyerLien
<1>3. /\ UNCHANGED <<compte, passkeys, echecs, cookies, script, vies, ouvertures, soldes>>
      /\ UNCHANGED <<perdue, depassees>>
      /\ recus' \in SUBSET Liens
  BY <1>1 DEF EnvoyerLien, TypeOK, table
<1> QED
  BY <1>1, <1>2, <1>3 DEF TypeOK, RequetesTenues

LEMMA Ouverture ==
  ASSUME TypeOK, RequetesTenues, NEW r \in Requetes, NEW n \in Navigateurs, NEW l \in Liens,
         VerifyMagicLink(r, n, l)
  PROVE  /\ TypeOK' /\ RequetesTenues'
         /\ UNCHANGED <<cookies, perdue, depassees, vies, compte.refresh>>
         /\ compte'.lien = Nul
         /\ req[r].phase # "reponse" /\ req'[r].phase \notin {"reponse", "effacement"}
         /\ \A q \in Requetes \ {r} : req'[q] = req[q]
<1>1. /\ RequetesTenues' /\ req[r].phase = "libre" /\ req'[r].phase = "emission"
      /\ \A q \in Requetes \ {r} : req'[q] = req[q]
  <2>1. "emission" \in Phases \ {"libre", "envoi"}
    BY DEF Phases
  <2>2. Appeler(r, "lien", n, "emission", Nul)
    BY DEF VerifyMagicLink
  <2> QED
    BY <2>1, <2>2, Appel
<1>2. /\ compte' = [compte EXCEPT !.lien = Nul, !.expire = 0]
      /\ ouvertures' = [ouvertures EXCEPT ![l] = @ + 1]
      /\ soldes' = {m \in Liens : vies[m] > 0}
      /\ UNCHANGED <<passkeys, echecs, cookies, script, vies, recus, perdue, depassees>>
  BY DEF VerifyMagicLink
<1>3. /\ compte' \in [motDePasse : MotsDePasse \cup {Nul}, refresh : 0 .. DUREE_REFRESH,
                      lien : Liens \cup {Nul}, expire : 0 .. DUREE_LIEN]
      /\ compte'.refresh = compte.refresh /\ compte'.lien = Nul /\ compte'.expire = 0
  <2>1. 0 \in 0 .. DUREE_LIEN
    BY SessionAssumption
  <2> QED
    BY <1>2, <2>1 DEF TypeOK
<1>4. ouvertures' \in [Liens -> Nat]
  BY <1>2 DEF TypeOK
<1>5. TypeOK'
  BY <1>1, <1>2, <1>3, <1>4 DEF TypeOK, RequetesTenues
<1> QED
  BY <1>1, <1>2, <1>3, <1>5

LEMMA Interruption ==
  ASSUME TypeOK, RequetesTenues, NEW r \in Requetes, Interrompre(r)
  PROVE  /\ TypeOK' /\ RequetesTenues'
         /\ UNCHANGED <<compte, cookies, liens>> /\ depassees' = depassees \ {r}
         /\ req'[r].phase = "libre"
         /\ \A q \in Requetes \ {r} : req'[q] = req[q]
<1>1. /\ RequetesTenues' /\ req'[r].phase = "libre"
      /\ \A q \in Requetes \ {r} : req'[q] = req[q]
  BY Reponse DEF Interrompre
<1>2. /\ perdue' \in BOOLEAN /\ depassees' = depassees \ {r}
      /\ UNCHANGED <<table, cookies, script, liens>>
  BY DEF Interrompre, TypeOK
<1>3. TypeOK'
  BY <1>1, <1>2, TypesDeRequete DEF TypeOK, table
<1> QED
  BY <1>1, <1>2, <1>3 DEF table

\* What is not a request: passkeys, scripts, time.
LEMMA Scripts ==
  ASSUME TypeOK, RequetesTenues,
         \/ \E n \in Navigateurs, k \in Passkeys : PasskeyRegisterVerify(n, k) \/ RemovePasskey(n, k)
         \/ \E m \in MotsDePasse : SeedPassword(m)
         \/ ResetPasskeys
         \/ RevoquerSessions
         \/ InterrompreScript
  PROVE  /\ TypeOK' /\ RequetesTenues'
         /\ UNCHANGED <<req, cookies, liens, perdue, depassees, compte.lien, compte.expire>>
         /\ compte'.refresh \in {0, compte.refresh}
<1>1. UNCHANGED <<echecs, cookies, req, liens, perdue, depassees>>
  BY DEF PasskeyRegisterVerify, RemovePasskey, SeedPassword, ResetPasskeys, RevoquerSessions,
         InterrompreScript, table
<1>2. /\ compte' \in [motDePasse : MotsDePasse \cup {Nul}, refresh : 0 .. DUREE_REFRESH,
                      lien : Liens \cup {Nul}, expire : 0 .. DUREE_LIEN]
      /\ compte'.refresh \in {0, compte.refresh}
      /\ compte'.lien = compte.lien /\ compte'.expire = compte.expire
  <2>1. 0 \in 0 .. DUREE_REFRESH
    BY SessionAssumption
  <2>2. \/ compte' = compte
        \/ compte' = [compte EXCEPT !.refresh = 0]
        \/ \E m \in MotsDePasse : compte' = [compte EXCEPT !.motDePasse = m, !.refresh = 0]
    BY DEF PasskeyRegisterVerify, RemovePasskey, SeedPassword, ResetPasskeys, RevoquerSessions,
           InterrompreScript, table
  <2> QED
    BY <2>1, <2>2 DEF TypeOK
<1>3. passkeys' \subseteq Passkeys /\ script' \in {"libre", "revocation"}
  BY DEF TypeOK, PasskeyRegisterVerify, RemovePasskey, SeedPassword, ResetPasskeys,
         RevoquerSessions, InterrompreScript, table
<1>4. RequetesTenues'
  BY <1>1 DEF RequetesTenues, Coherente
<1> QED
  BY <1>1, <1>2, <1>3, <1>4 DEF TypeOK, liens

LEMMA Temps ==
  ASSUME TypeOK, RequetesTenues, Ecouler
  PROVE  /\ TypeOK' /\ RequetesTenues'
         /\ UNCHANGED <<ouvertures, soldes, perdue, depassees, compte.lien>>
         /\ compte'.refresh = Moins(compte.refresh)
         /\ compte'.expire = Moins(compte.expire)
         /\ \A n \in Navigateurs : cookies'[n] = Moins(cookies[n])
         /\ \A l \in Liens : vies'[l] = Moins(vies[l])
         /\ \A r \in Requetes :
              /\ req'[r].phase = req[r].phase /\ req'[r].nav = req[r].nav
              /\ req[r].phase = "reponse" => req'[r].temps = Moins(req[r].temps)
<1>1. \A d \in Nat : \A t \in 0 .. d : Moins(t) \in 0 .. d
  BY DEF Moins
<1>2. /\ compte' \in [motDePasse : MotsDePasse \cup {Nul}, refresh : 0 .. DUREE_REFRESH,
                      lien : Liens \cup {Nul}, expire : 0 .. DUREE_LIEN]
      /\ compte'.refresh = Moins(compte.refresh)
      /\ compte'.lien = compte.lien /\ compte'.expire = Moins(compte.expire)
  <2>1. compte' = [compte EXCEPT !.refresh = Moins(@), !.expire = Moins(@)]
    BY DEF Ecouler
  <2>2. Moins(compte.refresh) \in 0 .. DUREE_REFRESH /\ Moins(compte.expire) \in 0 .. DUREE_LIEN
    BY <1>1, SessionAssumption DEF TypeOK
  <2> QED
    BY <2>1, <2>2 DEF TypeOK
<1>3. /\ cookies' \in [Navigateurs -> 0 .. DUREE_REFRESH]
      /\ vies' \in [Liens -> 0 .. DUREE_LIEN]
      /\ \A n \in Navigateurs : cookies'[n] = Moins(cookies[n])
      /\ \A l \in Liens : vies'[l] = Moins(vies[l])
  BY <1>1, SessionAssumption DEF TypeOK, Ecouler
<1>4. echecs' \subseteq Echec /\ IsFiniteSet(echecs')
  BY EchecsVieillis
<1>5. ASSUME NEW r \in Requetes
      PROVE  /\ req'[r] \in EtatRequete /\ Coherente(req'[r])
             /\ req'[r].phase = req[r].phase /\ req'[r].nav = req[r].nav
             /\ req[r].phase = "reponse" => req'[r].temps = Moins(req[r].temps)
  <2> DEFINE t == CASE req[r].phase = "demande" -> req[r].temps + 1
                    [] req[r].phase \in {"ecriture", "reponse"} -> Moins(req[r].temps)
                    [] OTHER -> 0
  <2>1. req[r] \in EtatRequete /\ Coherente(req[r]) /\ req[r].temps \in Nat
    BY DEF RequetesTenues, EtatRequete
  <2>2. /\ t \in Nat
        /\ req[r].phase = "reponse" => t = Moins(req[r].temps)
        /\ req[r].phase = "demande" => t <= RetardMax
        /\ req[r].phase \in {"ecriture", "reponse"} => t <= DUREE_REFRESH
    <3>1. CASE req[r].phase = "demande"
      <4>1. t = req[r].temps + 1 /\ req[r].temps < RetardMax
        BY <3>1 DEF Ecouler
      <4> HIDE DEF t
      <4> QED
        BY <2>1, <3>1, <4>1, SessionAssumption
    <3>2. CASE req[r].phase \in {"ecriture", "reponse"}
      <4>1. t = Moins(req[r].temps)
        BY <3>2
      <4>2. req[r].temps <= DUREE_REFRESH
        BY <2>1, <3>2 DEF Coherente
      <4> HIDE DEF t
      <4> QED
        BY <2>1, <3>2, <4>1, <4>2, SessionAssumption DEF Moins
    <3>3. CASE req[r].phase \notin {"demande", "ecriture", "reponse"}
      BY <3>3
    <3> QED
      BY <3>1, <3>2, <3>3
  <2>3. req'[r] = [req[r] EXCEPT !.temps = t]
    BY DEF Ecouler
  <2> HIDE DEF t
  <2>4. /\ req'[r] \in EtatRequete /\ req'[r].phase = req[r].phase
        /\ req'[r].nav = req[r].nav /\ req'[r].objet = req[r].objet /\ req'[r].temps = t
    BY <2>1, <2>2, <2>3 DEF EtatRequete
  <2> QED
    BY <2>1, <2>2, <2>4 DEF Coherente
<1>6. req' \in [Requetes -> EtatRequete]
  <2>1. req' = [r \in Requetes |-> req'[r]]
    BY DEF Ecouler
  <2> QED
    BY <1>5, <2>1
<1>7. RequetesTenues'
  BY <1>5, <1>6 DEF RequetesTenues, Coherente
<1>8. UNCHANGED <<passkeys, script, recus, ouvertures, soldes, perdue, depassees>>
  BY DEF Ecouler
<1>9. TypeOK'
  <2>1. compte'.lien = Nul => compte'.expire = 0
    BY <1>2 DEF TypeOK, Moins
  <2> QED
    BY <1>2, <1>3, <1>4, <1>6, <1>8, <2>1 DEF TypeOK
<1> QED
  BY <1>2, <1>3, <1>5, <1>7, <1>8, <1>9

-----------------------------------------------------------------------------
(***************************************************************************)
(* Magic links.                                                            *)
(***************************************************************************)
LienTenu == LienCourant /\ LienUsageUnique /\ EnvoisEspaces

LEMMA LiensCalmes ==
  ASSUME LienTenu, UNCHANGED <<vies, ouvertures, soldes, compte.lien, compte.expire>>
  PROVE  LienTenu'
BY DEF LienTenu, LienCourant, LienUsageUnique, EnvoisEspaces

\* A new link: those that are alive and unused are older by the interval.
LEMMA LiensReclames ==
  ASSUME TypeOK, RequetesTenues, LienTenu,
         NEW r \in Requetes, NEW l \in Liens, ReclamerLien(r, l)
  PROVE  LienTenu'
<1> DEFINE vie == DUREE_LIEN - req[r].temps
<1>1. req[r].phase = "demande" /\ vies[l] = 0
  BY DEF ReclamerLien
<1>2. req[r].temps \in Nat /\ req[r].temps <= RetardMax /\ vie \in Nat \ {0}
  BY <1>1, SessionAssumption DEF RequetesTenues, Coherente, EtatRequete
<1>3. CASE UNCHANGED <<compte, liens>>
  BY <1>3, LiensCalmes DEF liens
<1>4. CASE ~ UNCHANGED <<compte, liens>>
  <2>1. /\ AssezEspace(req[r].temps)
        /\ compte' = [compte EXCEPT !.lien = l, !.expire = vie]
        /\ vies' = [vies EXCEPT ![l] = vie]
        /\ ouvertures' = [ouvertures EXCEPT ![l] = 0]
        /\ soldes' = soldes \ {l}
    BY <1>4 DEF ReclamerLien
  <2>2. /\ compte'.lien = l /\ compte'.expire = vie /\ vies'[l] = vie /\ ouvertures'[l] = 0
        /\ \A m \in Liens \ {l} : vies'[m] = vies[m] /\ ouvertures'[m] = ouvertures[m]
        /\ l # Nul
    BY <2>1, SessionAssumption DEF TypeOK
  <2>3. ASSUME NEW m \in Liens \ soldes, m # l, vies[m] > 0
        PROVE  vie - vies[m] > MIN_INTERVAL
    <3>1. compte.lien # Nul /\ vies[m] <= compte.expire
      BY <2>3 DEF LienTenu, LienCourant
    <3>2. compte.expire < DUREE_LIEN - MIN_INTERVAL - req[r].temps
      BY <2>1 DEF AssezEspace
    <3>3. /\ vies[m] \in Nat /\ compte.expire \in Nat /\ DUREE_LIEN \in Nat
          /\ MIN_INTERVAL \in Nat
      BY <2>3, SessionAssumption DEF TypeOK
    <3> QED
      BY <1>2, <3>1, <3>2, <3>3
  <2> HIDE DEF vie
  <2>4. \A m \in Liens : vies[m] \in Nat
    BY SessionAssumption DEF TypeOK
  <2>5. LienCourant'
    <3>1. \A m \in Liens : compte'.lien = m => ouvertures'[m] = 0 /\ compte'.expire = vies'[m]
      BY <2>2
    <3>2. ASSUME NEW m \in Liens \ soldes', vies'[m] > 0
          PROVE  compte'.lien # Nul /\ vies'[m] <= compte'.expire
      <4>1. m # l => vies'[m] = vies[m] /\ vie - vies[m] > MIN_INTERVAL /\ vies[m] \in Nat
        BY <2>1, <2>2, <2>3, <2>4, <3>2
      <4>2. MIN_INTERVAL \in Nat
        BY SessionAssumption
      <4> QED
        BY <1>2, <2>2, <4>1, <4>2
    <3> QED
      BY <3>1, <3>2 DEF LienCourant
  <2>6. LienUsageUnique'
    BY <2>2 DEF LienTenu, LienUsageUnique
  <2>7. EnvoisEspaces'
    <3> SUFFICES ASSUME NEW m \in Liens \ soldes', NEW n \in Liens \ soldes',
                        m # n, vies'[m] > 0, vies'[m] <= vies'[n]
                 PROVE  vies'[n] - vies'[m] > MIN_INTERVAL
      BY DEF EnvoisEspaces
    <3>1. CASE n = l
      BY <2>1, <2>2, <2>3, <3>1
    <3>2. CASE m = l
      <4>1. vies'[n] = vies[n] /\ vies[n] \in Nat /\ vies'[m] = vie
        BY <2>2, <2>4, <3>2
      <4>2. vie - vies[n] > MIN_INTERVAL
        BY <1>2, <2>1, <2>3, <3>2, <4>1
      <4>3. MIN_INTERVAL \in Nat
        BY SessionAssumption
      <4> QED
        BY <1>2, <4>1, <4>2, <4>3
    <3>3. CASE m # l /\ n # l
      BY <2>1, <2>2, <3>3 DEF LienTenu, EnvoisEspaces
    <3> QED
      BY <3>1, <3>2, <3>3
  <2> QED
    BY <2>5, <2>6, <2>7 DEF LienTenu
<1> QED
  BY <1>3, <1>4

\* The place is emptied: the link had opened nothing, and all are accounted for.
LEMMA LiensConsommes ==
  ASSUME TypeOK, RequetesTenues, LienTenu,
         NEW r \in Requetes, NEW n \in Navigateurs, NEW l \in Liens, VerifyMagicLink(r, n, l)
  PROVE  LienTenu'
<1>1. /\ compte.lien = l /\ ouvertures[l] = 0
      /\ compte'.lien = Nul
      /\ ouvertures' = [ouvertures EXCEPT ![l] = @ + 1]
      /\ soldes' = {m \in Liens : vies[m] > 0} /\ vies' = vies
  BY Ouverture DEF VerifyMagicLink, LienTenu, LienCourant
<1>2. ouvertures'[l] = 1 /\ \A m \in Liens \ {l} : ouvertures'[m] = ouvertures[m]
  BY <1>1 DEF TypeOK
<1>3. LienUsageUnique'
  BY <1>1, <1>2 DEF LienTenu, LienUsageUnique
<1>4. LienCourant' /\ EnvoisEspaces'
  BY <1>1, SessionAssumption DEF LienCourant, EnvoisEspaces
<1> QED
  BY <1>3, <1>4 DEF LienTenu

LEMMA LiensVieillis ==
  ASSUME TypeOK, RequetesTenues, LienTenu, Ecouler
  PROVE  LienTenu'
<1>1. /\ UNCHANGED <<ouvertures, soldes, compte.lien>>
      /\ compte'.expire = Moins(compte.expire)
      /\ \A l \in Liens : vies'[l] = Moins(vies[l])
  BY Temps
<1>2. /\ compte.expire \in Nat /\ MIN_INTERVAL \in Nat
      /\ \A l \in Liens : vies[l] \in Nat
  BY SessionAssumption DEF TypeOK
<1>3. LienCourant'
  BY <1>1, <1>2 DEF LienTenu, LienCourant, Moins
<1>4. EnvoisEspaces'
  <2> SUFFICES ASSUME NEW l \in Liens \ soldes', NEW m \in Liens \ soldes',
                      l # m, vies'[l] > 0, vies'[l] <= vies'[m]
               PROVE  vies'[m] - vies'[l] > MIN_INTERVAL
    BY DEF EnvoisEspaces
  <2>1. vies[l] > 0 /\ vies[l] <= vies[m] /\ vies'[m] - vies'[l] = vies[m] - vies[l]
    BY <1>1, <1>2 DEF Moins
  <2> QED
    BY <1>1, <2>1 DEF LienTenu, EnvoisEspaces
<1> QED
  BY <1>1, <1>3, <1>4 DEF LienTenu, LienUsageUnique

-----------------------------------------------------------------------------
(***************************************************************************)
(* The token of the account.                                               *)
(***************************************************************************)

\* A step that puts no answer on its way and takes none away.
LEMMA JetonsCalmes ==
  ASSUME JetonDetenu, NEW r \in Requetes,
         \A q \in Requetes \ {r} : req'[q] = req[q],
         req[r].phase # "reponse",
         compte'.refresh # 0 => req'[r].phase \notin {"reponse", "effacement"},
         compte'.refresh \in {0, compte.refresh},
         UNCHANGED <<cookies, perdue, depassees>>
  PROVE  JetonDetenu'
<1>1. CASE compte'.refresh = 0
  BY <1>1 DEF JetonDetenu
<1>2. CASE compte'.refresh # 0
  <2>1. ASSUME NEW n \in Navigateurs, Detient(n)
        PROVE  Detient(n)'
    <3>1. /\ EnRoute(n)' \subseteq EnRoute(n)
          /\ \A q \in EnRoute(n) : Porte(q) => q \in EnRoute(n)' /\ Porte(q)'
      BY <1>2 DEF EnRoute, Porte
    <3> QED
      BY <1>2, <2>1, <3>1 DEF Detient
  <2> QED
    BY <1>2, <2>1 DEF JetonDetenu
<1> QED
  BY <1>1, <1>2

LEMMA JetonsEcrits ==
  ASSUME TypeOK, RequetesTenues, NEW r \in Requetes, IssueTokens(r)
  PROVE  JetonDetenu'
<1>1. /\ req'[r].phase = "reponse" /\ req'[r].nav = req[r].nav
      /\ req[r].nav \in Navigateurs /\ compte'.refresh = req'[r].temps
      /\ depassees' = EnRoute(req[r].nav) /\ req[r].phase = "ecriture"
      /\ \A q \in Requetes \ {r} : req'[q] = req[q]
  BY Ecritures
<1>2. PICK n \in Navigateurs : n = req[r].nav
  BY <1>1
<1>3. r \in EnRoute(n)' /\ Porte(r)' /\ EnRoute(n)' \ {r} \subseteq depassees'
  BY <1>1, <1>2 DEF EnRoute, Porte
<1>4. Detient(n)'
  BY <1>3 DEF Detient
<1> QED
  BY <1>4 DEF JetonDetenu

\* An answer comes: the session, one sent before it to the same browser, or one
\* that another browser waits for.
LEMMA JetonsPoses ==
  ASSUME TypeOK, RequetesTenues, JetonDetenu, NEW r \in Requetes,
         SetCookies(r) \/ ClearCookies(r)
  PROVE  JetonDetenu'
<1>1. /\ UNCHANGED compte
      /\ perdue' = (perdue \/ (r \in depassees /\ ~ SessionEnRoute(req[r].nav)))
      /\ depassees' = depassees \ {r}
      /\ req[r].nav \in Navigateurs
      /\ \A n \in Navigateurs \ {req[r].nav} : cookies'[n] = cookies[n]
      /\ SetCookies(r) => cookies'[req[r].nav] = req[r].temps
      /\ req'[r].phase = "libre"
      /\ \A q \in Requetes \ {r} : req'[q] = req[q]
  BY Cookies
<1>2. r \in EnRoute(req[r].nav) /\ (Porte(r) => SetCookies(r))
  BY DEF SetCookies, ClearCookies, EnRoute, Porte
<1>3. ASSUME NEW n \in Navigateurs
      PROVE  /\ EnRoute(n)' = EnRoute(n) \ {r}
             /\ \A q \in EnRoute(n) \ {r} : Porte(q)' <=> Porte(q)
  BY <1>1 DEF EnRoute, Porte
<1>4. ASSUME NEW n \in Navigateurs, Detient(n), ~ perdue'
      PROVE  Detient(n)'
  <2>1. CASE n # req[r].nav
    <3>1. r \notin EnRoute(n) /\ cookies'[n] = cookies[n]
      BY <1>1, <2>1 DEF EnRoute
    <3> QED
      BY <1>1, <1>3, <1>4, <3>1 DEF Detient
  <2>2. CASE n = req[r].nav /\ Porte(r)
    <3>1. cookies'[n] = compte'.refresh
      BY <1>1, <1>2, <2>2 DEF Porte
    <3>2. EnRoute(n) \ {r} \subseteq depassees \/
            \E q \in EnRoute(n) \ {r} : Porte(q) /\ EnRoute(n) \ {q} \subseteq depassees
      BY <1>4 DEF Detient
    <3> QED
      BY <1>1, <1>3, <3>1, <3>2 DEF Detient
  <2>3. CASE n = req[r].nav /\ ~ Porte(r)
    <3>1. PICK q \in EnRoute(n) : Porte(q) /\ EnRoute(n) \ {q} \subseteq depassees
      BY <1>1, <1>2, <1>4, <2>3 DEF Detient, SessionEnRoute, Porte
    <3>2. q # r
      BY <2>3, <3>1
    <3> QED
      BY <1>1, <1>3, <3>1, <3>2 DEF Detient
  <2> QED
    BY <2>1, <2>2, <2>3
<1> QED
  BY <1>1, <1>4 DEF JetonDetenu

\* An answer that is lost is the one that counts, or another.
LEMMA JetonsPerdus ==
  ASSUME TypeOK, RequetesTenues, JetonDetenu, NEW r \in Requetes, Interrompre(r)
  PROVE  JetonDetenu'
<1>1. /\ UNCHANGED <<compte, cookies>> /\ req'[r].phase = "libre"
      /\ depassees' = depassees \ {r}
      /\ \A q \in Requetes \ {r} : req'[q] = req[q]
  BY Interruption
<1>2. perdue' = (perdue \/ Porte(r))
  BY DEF Interrompre
<1>3. CASE Porte(r)
  BY <1>2, <1>3 DEF JetonDetenu
<1>4. CASE ~ Porte(r)
  <2>1. ASSUME NEW n \in Navigateurs, Detient(n)
        PROVE  Detient(n)'
    <3>1. /\ EnRoute(n)' = EnRoute(n) \ {r}
          /\ \A q \in EnRoute(n) \ {r} : Porte(q)' <=> Porte(q)
      BY <1>1 DEF EnRoute, Porte
    <3> QED
      BY <1>1, <1>4, <2>1, <3>1 DEF Detient
  <2> QED
    BY <1>1, <1>2, <2>1 DEF JetonDetenu
<1> QED
  BY <1>3, <1>4

LEMMA JetonsVieillis ==
  ASSUME TypeOK, RequetesTenues, JetonDetenu, Ecouler
  PROVE  JetonDetenu'
<1>1. /\ UNCHANGED <<perdue, depassees>> /\ compte'.refresh = Moins(compte.refresh)
      /\ \A n \in Navigateurs : cookies'[n] = Moins(cookies[n])
      /\ \A r \in Requetes :
           /\ req'[r].phase = req[r].phase /\ req'[r].nav = req[r].nav
           /\ req[r].phase = "reponse" => req'[r].temps = Moins(req[r].temps)
  BY Temps
<1>2. compte.refresh \in Nat
  BY SessionAssumption DEF TypeOK
<1>3. ASSUME compte'.refresh > 0
      PROVE  compte.refresh > 0
  BY <1>1, <1>2, <1>3 DEF Moins
<1>4. ASSUME NEW n \in Navigateurs, Detient(n)
      PROVE  Detient(n)'
  <2>1. EnRoute(n)' = EnRoute(n) /\ \A q \in EnRoute(n) : Porte(q) => Porte(q)'
    BY <1>1 DEF EnRoute, Porte
  <2> QED
    BY <1>1, <1>4, <2>1 DEF Detient
<1> QED
  BY <1>1, <1>3, <1>4 DEF JetonDetenu

-----------------------------------------------------------------------------
(***************************************************************************)
(* Failures.  An attempt that passed the count and is not settled holds a  *)
(* place: rows and places together are bounded, rows alone are not         *)
(* inductively so.                                                         *)
(***************************************************************************)
Essais == {"motDePasse", "echec"}

Tentatives(S) == {r \in Requetes : req[r].phase \in Essais /\ Adresse[req[r].nav] \in S}

Lignes(S) == {e \in echecs : e.adresse \in S}

Tenu(S, max) ==
  Cardinality(Lignes(S)) + Cardinality(Tentatives(S)) < max + Cardinality(Requetes)

EchecsTenus ==
  /\ \A a \in Adresses : Tenu({a}, MAX_FAILURES_PER_IP)
  /\ Tenu(Adresses, MAX_FAILURES_GLOBAL)

\* The failures of one address and one unit of time are numbered without a gap.
RangsSuivis ==
  \A e \in echecs : e.reste = WINDOW => e.rang \in 1 .. Cardinality(Recents(e.adresse))

LEMMA Tailles ==
  ASSUME TypeOK, IsFiniteSet(Requetes), NEW S
  PROVE  /\ IsFiniteSet(Lignes(S)) /\ Cardinality(Lignes(S)) \in Nat
         /\ IsFiniteSet(Tentatives(S)) /\ Cardinality(Tentatives(S)) \in Nat
         /\ Cardinality(Requetes) \in Nat
         /\ Cardinality(Tentatives(S)) <= Cardinality(Requetes)
<1>1. IsFiniteSet(Lignes(S)) /\ IsFiniteSet(Tentatives(S))
      /\ Cardinality(Tentatives(S)) <= Cardinality(Requetes)
  BY FS_Subset DEF TypeOK, Lignes, Tentatives
<1> QED
  BY <1>1, FS_CardinalityType

\* Only the count of the failures lets an attempt in.
LEMMA EssaisAdmis ==
  ASSUME RequetesTenues, NEW r \in Requetes, NextRequete(r), ~ AssertNotLocked(r)
  PROVE  \A q \in Requetes : req'[q].phase \in Essais =>
           req[q].phase \in Essais /\ req'[q].nav = req[q].nav
<1>1. CASE ValidatePassword(r)
  BY <1>1 DEF ValidatePassword, Avancer, RequetesTenues, EtatRequete, Essais
<1>2. CASE ~ ValidatePassword(r)
  <2>1. CASE \E n \in Navigateurs :
               \/ \E m \in MotsDePasse : Login(r, n, m)
               \/ Refresh(r, n)
               \/ Logout(r, n)
               \/ RequestMagicLink(r, n)
               \/ \E l \in Liens : VerifyMagicLink(r, n, l)
               \/ \E k \in Passkeys : PasskeyLogin(r, n, k)
    <3>1. PICK op \in {"login", "refresh", "logout", "lien", "passkey"}, n \in Navigateurs,
               phase \in {"verrou", "emission", "effacement", "demande"},
               objet \in MotsDePasse \cup {Nul} : Appeler(r, op, n, phase, objet)
      BY <2>1 DEF Login, Refresh, Logout, RequestMagicLink, VerifyMagicLink, PasskeyLogin
    <3>2. req' = [req EXCEPT ![r] = [phase |-> phase, nav |-> n, objet |-> objet, temps |-> 0]]
      BY <3>1 DEF Appeler
    <3> QED
      BY <3>2 DEF RequetesTenues, Essais
  <2>2. CASE \/ RegisterFailure(r) \/ SetCookies(r) \/ ClearCookies(r) \/ EnvoyerLien(r)
             \/ Interrompre(r)
    BY <2>2 DEF RegisterFailure, SetCookies, ClearCookies, Recevoir, EnvoyerLien, Interrompre,
                Repondre, Libre, RequetesTenues, Essais
  <2>3. CASE Reset(r) \/ Signer(r) \/ IssueTokens(r)
    BY <2>3 DEF Reset, Signer, IssueTokens, Avancer, RequetesTenues, EtatRequete, Essais
  <2>4. CASE \E l \in Liens : ReclamerLien(r, l)
    <3>1. PICK l \in Liens :
            \/ Repondre(r)
            \/ req' = [req EXCEPT ![r] = [@ EXCEPT !.phase = "envoi", !.objet = l]]
      BY <2>4 DEF ReclamerLien
    <3>2. req[r] \in EtatRequete
      BY DEF RequetesTenues
    <3>3. req'[r].phase \in {"libre", "envoi"} /\ \A q \in Requetes \ {r} : req'[q] = req[q]
      BY <3>1, <3>2, Reponse DEF RequetesTenues, EtatRequete
    <3> QED
      BY <3>3 DEF Essais
  <2> QED
    BY <1>2, <2>1, <2>2, <2>3, <2>4 DEF NextRequete
<1> QED
  BY <1>1, <1>2

\* A step that adds no row and lets no attempt in.
LEMMA TenuCalme ==
  ASSUME TypeOK, IsFiniteSet(Requetes), NEW S, NEW max \in Int, Tenu(S, max),
         IsFiniteSet(Lignes(S)'), Cardinality(Lignes(S)') <= Cardinality(Lignes(S)),
         Tentatives(S)' \subseteq Tentatives(S)
  PROVE  Tenu(S, max)'
<1>1. /\ Cardinality(Tentatives(S)') <= Cardinality(Tentatives(S))
      /\ IsFiniteSet(Tentatives(S)')
  BY Tailles, FS_Subset
<1>2. Cardinality(Tentatives(S)') \in Nat /\ Cardinality(Lignes(S)') \in Nat
  BY <1>1, FS_CardinalityType
<1> QED
  BY <1>1, <1>2, Tailles DEF Tenu

\* S is an address, or all of them: an attempt is let in below the threshold of
\* S only, and a failure takes the place of an attempt.
LEMMA TenuPas ==
  ASSUME TypeOK, RequetesTenues, IsFiniteSet(Requetes), [Next]_vars,
         NEW S, NEW max \in Int, Tenu(S, max),
         \A r \in Requetes : ~ Verrouillee(Adresse[req[r].nav]) /\ Adresse[req[r].nav] \in S
           => Cardinality(Lignes(S)) < max
  PROVE  Tenu(S, max)'
<1>0. Lignes(S)' = {e \in echecs' : e.adresse \in S}
      /\ Tentatives(S)' = {q \in Requetes : req'[q].phase \in Essais /\ Adresse[req'[q].nav] \in S}
  BY DEF Lignes, Tentatives
<1>1. ASSUME echecs' \subseteq echecs
      PROVE  IsFiniteSet(Lignes(S)') /\ Cardinality(Lignes(S)') <= Cardinality(Lignes(S))
  <2>1. Lignes(S)' \subseteq Lignes(S)
    BY <1>1 DEF Lignes
  <2> QED
    BY <2>1, Tailles, FS_Subset
<1>2. ASSUME NEW r \in Requetes, NextRequete(r)
      PROVE  Tenu(S, max)'
  <2>1. CASE AssertNotLocked(r)
    <3>1. echecs' = echecs
      BY <2>1 DEF AssertNotLocked, table
    <3>2. CASE Repondre(r)
      <4>1. Tentatives(S)' \subseteq Tentatives(S)
        BY <1>0, <3>2 DEF Tentatives, Repondre, Libre, RequetesTenues, Essais
      <4> QED
        BY <1>1, <3>1, <4>1, TenuCalme
    <3>3. CASE ~ Repondre(r)
      <4>1. ~ Verrouillee(Adresse[req[r].nav]) /\ Avancer(r, "motDePasse")
        BY <2>1, <3>3 DEF AssertNotLocked
      <4>2. CASE Adresse[req[r].nav] \in S
        <5>1. Cardinality(Lignes(S)') < max
          BY <3>1, <4>1, <4>2 DEF Lignes
        <5>2. IsFiniteSet(Tentatives(S)') /\ Cardinality(Tentatives(S)') <= Cardinality(Requetes)
          BY <1>0, FS_Subset
        <5>3. /\ Cardinality(Lignes(S)') \in Nat /\ Cardinality(Tentatives(S)') \in Nat
              /\ Cardinality(Requetes) \in Nat
          BY <1>1, <3>1, <5>2, FS_CardinalityType
        <5> QED
          BY <5>1, <5>2, <5>3 DEF Tenu
      <4>3. CASE Adresse[req[r].nav] \notin S
        <5>1. Tentatives(S)' \subseteq Tentatives(S)
          BY <1>0, <4>1, <4>3 DEF Tentatives, Avancer, RequetesTenues, EtatRequete, Essais
        <5> QED
          BY <1>1, <3>1, <5>1, TenuCalme
      <4> QED
        BY <4>2, <4>3
    <3> QED
      BY <3>2, <3>3
  <2>2. CASE ~ AssertNotLocked(r)
    <3>1. Tentatives(S)' \subseteq Tentatives(S)
      BY <1>0, <1>2, <2>2, EssaisAdmis DEF Tentatives
    <3>2. CASE RegisterFailure(r)
      <4>1. req[r].phase \in Essais /\ Adresse[req[r].nav] \in Adresses
        BY <3>2, SessionAssumption DEF RegisterFailure, Essais, RequetesTenues, Coherente
      <4>2. PICK e \in Echec : e.adresse = Adresse[req[r].nav] /\ echecs' = echecs \cup {e}
        BY <3>2, <4>1, EchecsInscrits
      <4>3. CASE e.adresse \in S
        <5>1. Lignes(S)' = Lignes(S) \cup {e}
          BY <1>0, <4>2, <4>3 DEF Lignes
        <5>2. /\ IsFiniteSet(Lignes(S)') /\ Cardinality(Lignes(S)') <= Cardinality(Lignes(S)) + 1
              /\ Cardinality(Lignes(S)') \in Nat
          <6>1. IsFiniteSet(Lignes(S)) /\ Cardinality(Lignes(S)) \in Nat
            BY Tailles
          <6>2. /\ IsFiniteSet(Lignes(S) \cup {e})
                /\ Cardinality(Lignes(S) \cup {e})
                     \in {Cardinality(Lignes(S)), Cardinality(Lignes(S)) + 1}
            BY <6>1, FS_AddElement
          <6> QED
            BY <5>1, <6>1, <6>2
        <5>3. r \in Tentatives(S) /\ r \notin Tentatives(S)'
          BY <3>2, <4>1, <4>2, <4>3, Reponse DEF RegisterFailure, Tentatives, Essais
        <5>4. Tentatives(S)' \subseteq Tentatives(S) \ {r}
          BY <3>1, <5>3
        <5>5. /\ Cardinality(Tentatives(S) \ {r}) = Cardinality(Tentatives(S)) - 1
              /\ IsFiniteSet(Tentatives(S) \ {r})
          BY <5>3, Tailles, FS_RemoveElement
        <5>6. /\ Cardinality(Tentatives(S)') <= Cardinality(Tentatives(S)) - 1
              /\ Cardinality(Tentatives(S)') \in Nat
          BY <5>4, <5>5, FS_Subset, FS_CardinalityType
        <5> QED
          BY <5>2, <5>6, Tailles DEF Tenu
      <4>4. CASE e.adresse \notin S
        <5>1. Lignes(S)' = Lignes(S)
          BY <1>0, <4>2, <4>4 DEF Lignes
        <5> QED
          BY <3>1, <5>1, Tailles, TenuCalme
      <4> QED
        BY <4>3, <4>4
    <3>3. CASE ~ RegisterFailure(r)
      <4>1. echecs' \subseteq echecs
        BY <1>2, <2>2, <3>3
           DEF NextRequete, Login, Refresh, Logout, RequestMagicLink, VerifyMagicLink, PasskeyLogin,
               ValidatePassword, Reset, Signer, IssueTokens, SetCookies, ClearCookies, ReclamerLien,
               EnvoyerLien, Interrompre, table
      <4> QED
        BY <1>1, <3>1, <4>1, TenuCalme
    <3> QED
      BY <3>2, <3>3
  <2> QED
    BY <2>1, <2>2
<1>3. CASE Ecouler
  <2>1. IsFiniteSet(Lignes(S)') /\ Cardinality(Lignes(S)') <= Cardinality(Lignes(S))
    BY <1>0, <1>3, EchecsVieillis DEF Lignes
  <2>2. Tentatives(S)' \subseteq Tentatives(S)
    BY <1>0, <1>3, Temps DEF Tentatives
  <2> QED
    BY <2>1, <2>2, TenuCalme
<1>4. ASSUME UNCHANGED <<echecs, req>>
      PROVE  Tenu(S, max)'
  BY <1>4 DEF Tenu, Lignes, Tentatives
<1>5. CASE UNCHANGED vars
  BY <1>4, <1>5 DEF vars, table
<1>6. CASE \/ \E n \in Navigateurs, k \in Passkeys :
                PasskeyRegisterVerify(n, k) \/ RemovePasskey(n, k)
           \/ \E m \in MotsDePasse : SeedPassword(m)
           \/ ResetPasskeys
           \/ RevoquerSessions
           \/ InterrompreScript
  BY <1>4, <1>6 DEF PasskeyRegisterVerify, RemovePasskey, SeedPassword, ResetPasskeys,
                    RevoquerSessions, InterrompreScript, table
<1> QED
  BY <1>2, <1>3, <1>5, <1>6 DEF Next

LEMMA EchecsPas ==
  ASSUME TypeOK, RequetesTenues, IsFiniteSet(Requetes), EchecsTenus, [Next]_vars
  PROVE  EchecsTenus'
<1>1. MAX_FAILURES_PER_IP \in Nat /\ MAX_FAILURES_GLOBAL \in Nat
  BY SessionAssumption
<1>2. ASSUME NEW a \in Adresses
      PROVE  Tenu({a}, MAX_FAILURES_PER_IP)'
  <2>1. Cardinality(Lignes({a})) = Compte(a) /\ Compte(a) \in Nat
    <3>1. Lignes({a}) = {e \in echecs : e.adresse = a}
      BY DEF Lignes
    <3> QED
      BY <3>1, Tailles DEF Compte
  <2>2. ASSUME ~ Verrouillee(a)
        PROVE  Compte(a) < MAX_FAILURES_PER_IP
    BY <1>1, <2>1, <2>2 DEF Verrouillee
  <2> QED
    BY <1>1, <2>1, <2>2, TenuPas DEF EchecsTenus
<1>3. Tenu(Adresses, MAX_FAILURES_GLOBAL)'
  <2>1. Cardinality(Lignes(Adresses)) = Total /\ Total \in Nat
    <3>1. Lignes(Adresses) = echecs
      BY DEF Lignes, TypeOK, Echec
    <3> QED
      BY <3>1, Tailles DEF Total
  <2>2. ASSUME NEW a, ~ Verrouillee(a)
        PROVE  Total < MAX_FAILURES_GLOBAL
    BY <1>1, <2>1, <2>2 DEF Verrouillee
  <2> QED
    BY <1>1, <2>1, <2>2, TenuPas DEF EchecsTenus
<1> QED
  BY <1>2, <1>3 DEF EchecsTenus

\* A new row has the next number, the other addresses keep theirs, and after a
\* unit of time no row is new.
LEMMA RangsPas ==
  ASSUME TypeOK, RequetesTenues, RangsSuivis, [Next]_vars
  PROVE  RangsSuivis'
<1>0. \A a : IsFiniteSet(Recents(a)) /\ Cardinality(Recents(a)) \in Nat
  BY FS_Subset, FS_CardinalityType DEF TypeOK, Recents
<1>1. ASSUME UNCHANGED echecs
      PROVE  RangsSuivis'
  BY <1>1 DEF RangsSuivis, Recents
<1>2. ASSUME NEW r \in Requetes, RegisterFailure(r)
      PROVE  RangsSuivis'
  <2>1. Adresse[req[r].nav] \in Adresses
    BY <1>2, SessionAssumption DEF RegisterFailure, RequetesTenues, Coherente
  <2>2. PICK n \in Echec : /\ n.reste = WINDOW /\ n.rang = Cardinality(Recents(n.adresse)) + 1
                           /\ echecs' = echecs \cup {n}
    BY <1>2, <2>1, EchecsInscrits
  <2>3. n \notin echecs
    BY <1>0, <2>2 DEF RangsSuivis
  <2>4. /\ Recents(n.adresse)' = Recents(n.adresse) \cup {n}
        /\ Cardinality(Recents(n.adresse)') = Cardinality(Recents(n.adresse)) + 1
    <3>1. Recents(n.adresse)' = Recents(n.adresse) \cup {n} /\ n \notin Recents(n.adresse)
      BY <2>2, <2>3 DEF Recents
    <3> QED
      BY <1>0, <3>1, FS_AddElement
  <2>5. ASSUME NEW e \in echecs', e.reste = WINDOW
        PROVE  e.rang \in 1 .. Cardinality(Recents(e.adresse)')
    <3>1. CASE e = n
      <4>1. e.rang = Cardinality(Recents(n.adresse)) + 1 /\ Cardinality(Recents(n.adresse)) \in Nat
        BY <1>0, <2>2, <3>1
      <4>2. e.rang \in 1 .. Cardinality(Recents(n.adresse)')
        BY <2>4, <4>1
      <4> QED
        BY <3>1, <4>2
    <3>2. CASE e # n /\ e.adresse = n.adresse
      <4>1. e.rang \in 1 .. Cardinality(Recents(n.adresse))
        BY <2>2, <2>5, <3>2 DEF RangsSuivis
      <4> QED
        BY <1>0, <2>4, <3>2, <4>1
    <3>3. CASE e.adresse # n.adresse
      <4>1. Recents(e.adresse)' = Recents(e.adresse) /\ e \in echecs
        BY <2>2, <2>5, <3>3 DEF Recents
      <4> QED
        BY <2>5, <4>1 DEF RangsSuivis
    <3> QED
      BY <3>1, <3>2, <3>3
  <2> QED
    BY <2>5 DEF RangsSuivis
<1>3. ASSUME NEW r \in Requetes, Reset(r)
      PROVE  RangsSuivis'
  <2>1. echecs' = {e \in echecs : e.adresse # Adresse[req[r].nav]}
    BY <1>3 DEF Reset
  <2>2. \A e \in echecs' : e \in echecs /\ Recents(e.adresse)' = Recents(e.adresse)
    BY <2>1 DEF Recents
  <2> QED
    BY <2>2 DEF RangsSuivis
<1>4. CASE Ecouler
  <2>1. \A e \in echecs' : e.reste < WINDOW
    BY <1>4, EchecsVieillis
  <2>2. WINDOW \in Nat
    BY SessionAssumption
  <2> QED
    BY <2>1, <2>2 DEF RangsSuivis
<1>5. ASSUME NEW r \in Requetes, NextRequete(r), ~ RegisterFailure(r), ~ Reset(r)
      PROVE  UNCHANGED echecs
  BY <1>5 DEF NextRequete, Login, Refresh, Logout, RequestMagicLink, VerifyMagicLink, PasskeyLogin,
              AssertNotLocked, ValidatePassword, Signer, IssueTokens, SetCookies, ClearCookies,
              ReclamerLien, EnvoyerLien, Interrompre, table
<1>6. ASSUME \/ \E n \in Navigateurs, k \in Passkeys :
                  PasskeyRegisterVerify(n, k) \/ RemovePasskey(n, k)
             \/ \E m \in MotsDePasse : SeedPassword(m)
             \/ ResetPasskeys
             \/ RevoquerSessions
             \/ InterrompreScript
             \/ UNCHANGED vars
      PROVE  UNCHANGED echecs
  BY <1>6 DEF PasskeyRegisterVerify, RemovePasskey, SeedPassword, ResetPasskeys, RevoquerSessions,
              InterrompreScript, table, vars
<1> QED
  BY <1>1, <1>2, <1>3, <1>4, <1>5, <1>6 DEF Next

\* A failure is one more row, of its address and of the table.
ChaqueEchec ==
  \A r \in Requetes, a \in Adresses :
    RegisterFailure(r) /\ a = Adresse[req[r].nav] =>
      Compte(a)' = Compte(a) + 1 /\ Total' = Total + 1

LEMMA EchecCompte ==
  ASSUME TypeOK, RequetesTenues, RangsSuivis
  PROVE  ChaqueEchec
<1> SUFFICES ASSUME NEW r \in Requetes, NEW a \in Adresses,
                    RegisterFailure(r), a = Adresse[req[r].nav]
             PROVE  Compte(a)' = Compte(a) + 1 /\ Total' = Total + 1
  BY DEF ChaqueEchec
<1> DEFINE miens == {e \in echecs : e.adresse = a}
<1>1. PICK n \in Echec : /\ n.adresse = a /\ n.reste = WINDOW
                         /\ n.rang = Cardinality(Recents(n.adresse)) + 1
                         /\ echecs' = echecs \cup {n}
  BY EchecsInscrits
<1>2. Cardinality(Recents(n.adresse)) \in Nat
  BY FS_Subset, FS_CardinalityType DEF TypeOK, Recents
<1>3. n \notin echecs
  BY <1>1, <1>2 DEF RangsSuivis
<1>4. Total' = Total + 1
  BY <1>1, <1>3, FS_AddElement DEF TypeOK, Total
<1>5. {e \in echecs' : e.adresse = a} = miens \cup {n} /\ n \notin miens /\ IsFiniteSet(miens)
  BY <1>1, <1>3, FS_Subset DEF TypeOK
<1> HIDE DEF miens
<1>6. Cardinality(miens \cup {n}) = Cardinality(miens) + 1
  BY <1>5, FS_AddElement
<1>7. Compte(a)' = Compte(a) + 1
  BY <1>5, <1>6 DEF Compte, miens
<1> QED
  BY <1>4, <1>7

-----------------------------------------------------------------------------
(***************************************************************************)
(* The invariant and what follows from it.                                 *)
(***************************************************************************)
LEMMA Pas ==
  ASSUME IInv, [Next]_vars
  PROVE  IInv'
<1>0. TypeOK /\ RequetesTenues /\ LienTenu /\ JetonDetenu
  BY DEF IInv, LienTenu
<1> SUFFICES TypeOK' /\ RequetesTenues' /\ LienTenu' /\ JetonDetenu'
  BY DEF IInv, LienTenu
<1>1. ASSUME NEW r \in Requetes, NextRequete(r)
      PROVE  TypeOK' /\ RequetesTenues' /\ LienTenu' /\ JetonDetenu'
  <2>1. ASSUME NEW n \in Navigateurs,
               \/ \E m \in MotsDePasse : Login(r, n, m)
               \/ Refresh(r, n)
               \/ Logout(r, n)
               \/ RequestMagicLink(r, n)
               \/ \E k \in Passkeys : PasskeyLogin(r, n, k)
        PROVE  TypeOK' /\ RequetesTenues' /\ LienTenu' /\ JetonDetenu'
    <3>1. /\ TypeOK' /\ RequetesTenues'
          /\ UNCHANGED <<liens, cookies, perdue, depassees, compte.lien, compte.expire>>
          /\ compte'.refresh \in {0, compte.refresh}
          /\ compte'.refresh # 0 => req'[r].phase \notin {"reponse", "effacement"}
          /\ req[r].phase = "libre"
          /\ \A q \in Requetes \ {r} : req'[q] = req[q]
      BY <1>0, <2>1, Debuts
    <3>2. LienTenu'
      BY <1>0, <3>1, LiensCalmes DEF liens
    <3>3. JetonDetenu'
      BY <1>0, <3>1, JetonsCalmes
    <3> QED
      BY <3>1, <3>2, <3>3
  <2>2. ASSUME \/ AssertNotLocked(r) \/ ValidatePassword(r) \/ RegisterFailure(r)
               \/ Reset(r) \/ Signer(r)
        PROVE  TypeOK' /\ RequetesTenues' /\ LienTenu' /\ JetonDetenu'
    <3>1. /\ TypeOK' /\ RequetesTenues'
          /\ UNCHANGED <<liens, cookies, perdue, depassees, compte>>
          /\ req[r].phase # "reponse" /\ req'[r].phase \notin {"reponse", "effacement"}
          /\ \A q \in Requetes \ {r} : req'[q] = req[q]
      BY <1>0, <2>2, Mots
    <3>2. LienTenu'
      BY <1>0, <3>1, LiensCalmes DEF liens
    <3>3. JetonDetenu'
      BY <1>0, <3>1, JetonsCalmes
    <3> QED
      BY <3>1, <3>2, <3>3
  <2>3. CASE IssueTokens(r)
    <3>1. TypeOK' /\ RequetesTenues' /\ UNCHANGED <<liens, compte.lien, compte.expire>>
      BY <1>0, <2>3, Ecritures
    <3>2. LienTenu'
      BY <1>0, <3>1, LiensCalmes DEF liens
    <3> QED
      BY <1>0, <2>3, <3>1, <3>2, JetonsEcrits
  <2>4. CASE SetCookies(r) \/ ClearCookies(r)
    <3>1. TypeOK' /\ RequetesTenues' /\ UNCHANGED <<liens, compte>>
      BY <1>0, <2>4, Cookies
    <3>2. LienTenu'
      BY <1>0, <3>1, LiensCalmes DEF liens
    <3> QED
      BY <1>0, <2>4, <3>1, <3>2, JetonsPoses
  <2>5. ASSUME NEW l \in Liens, ReclamerLien(r, l)
        PROVE  TypeOK' /\ RequetesTenues' /\ LienTenu' /\ JetonDetenu'
    <3>1. /\ TypeOK' /\ RequetesTenues'
          /\ UNCHANGED <<cookies, perdue, depassees, compte.refresh>>
          /\ req[r].phase # "reponse" /\ req'[r].phase \notin {"reponse", "effacement"}
          /\ \A q \in Requetes \ {r} : req'[q] = req[q]
      BY <1>0, <2>5, Reclamation
    <3>2. JetonDetenu'
      BY <1>0, <3>1, JetonsCalmes
    <3> QED
      BY <1>0, <2>5, <3>1, <3>2, LiensReclames
  <2>6. CASE EnvoyerLien(r)
    <3>1. /\ TypeOK' /\ RequetesTenues'
          /\ UNCHANGED <<compte, cookies, perdue, depassees, vies, ouvertures, soldes>>
          /\ req[r].phase # "reponse" /\ req'[r].phase = "libre"
          /\ \A q \in Requetes \ {r} : req'[q] = req[q]
      BY <1>0, <2>6, Envoi
    <3>2. LienTenu'
      BY <1>0, <3>1, LiensCalmes
    <3>3. JetonDetenu'
      BY <1>0, <3>1, JetonsCalmes
    <3> QED
      BY <3>1, <3>2, <3>3
  <2>7. ASSUME NEW n \in Navigateurs, NEW l \in Liens, VerifyMagicLink(r, n, l)
        PROVE  TypeOK' /\ RequetesTenues' /\ LienTenu' /\ JetonDetenu'
    <3>1. /\ TypeOK' /\ RequetesTenues'
          /\ UNCHANGED <<cookies, perdue, depassees, vies, compte.refresh>>
          /\ req[r].phase # "reponse" /\ req'[r].phase \notin {"reponse", "effacement"}
          /\ \A q \in Requetes \ {r} : req'[q] = req[q]
      BY <1>0, <2>7, Ouverture
    <3>2. JetonDetenu'
      BY <1>0, <3>1, JetonsCalmes
    <3> QED
      BY <1>0, <2>7, <3>1, <3>2, LiensConsommes
  <2>8. CASE Interrompre(r)
    <3>1. TypeOK' /\ RequetesTenues' /\ UNCHANGED <<compte, liens>>
      BY <1>0, <2>8, Interruption
    <3>2. LienTenu'
      BY <1>0, <3>1, LiensCalmes DEF liens
    <3> QED
      BY <1>0, <2>8, <3>1, <3>2, JetonsPerdus
  <2> QED
    BY <1>1, <2>1, <2>2, <2>3, <2>4, <2>5, <2>6, <2>7, <2>8 DEF NextRequete
<1>2. ASSUME \/ \E n \in Navigateurs, k \in Passkeys :
                  PasskeyRegisterVerify(n, k) \/ RemovePasskey(n, k)
             \/ \E m \in MotsDePasse : SeedPassword(m)
             \/ ResetPasskeys
             \/ RevoquerSessions
             \/ InterrompreScript
      PROVE  TypeOK' /\ RequetesTenues' /\ LienTenu' /\ JetonDetenu'
  <2>1. /\ TypeOK' /\ RequetesTenues'
        /\ UNCHANGED <<req, cookies, liens, perdue, depassees, compte.lien, compte.expire>>
        /\ compte'.refresh \in {0, compte.refresh}
    BY <1>0, <1>2, Scripts
  <2>2. LienTenu'
    BY <1>0, <2>1, LiensCalmes DEF liens
  <2>3. JetonDetenu'
    BY <1>0, <2>1 DEF JetonDetenu, Detient, EnRoute, Porte
  <2> QED
    BY <2>1, <2>2, <2>3
<1>3. CASE Ecouler
  BY <1>0, <1>3, Temps, LiensVieillis, JetonsVieillis
<1>4. CASE UNCHANGED vars
  <2>1. TypeOK' /\ RequetesTenues'
    BY <1>0, <1>4 DEF vars, TypeOK, RequetesTenues, Coherente
  <2>2. LienTenu'
    BY <1>0, <1>4, LiensCalmes DEF vars
  <2>3. JetonDetenu'
    BY <1>0, <1>4 DEF vars, JetonDetenu, Detient, EnRoute, Porte
  <2> QED
    BY <2>1, <2>2, <2>3
<1> QED
  BY <1>1, <1>2, <1>3, <1>4 DEF Next

\* In every reachable state the place for a link holds the last one, and the
\* token the account accepts has a holder, to whom nothing else is on its way but
\* what was sent before it; or its answer was lost or overtaken.
THEOREM Invariant == Spec => []IInv
BY Initial, Pas, PTL DEF Spec

\* TypeOK: no time goes below zero, no request carries what it should not.
THEOREM Typage == Spec => []TypeOK
<1>1. IInv => TypeOK
  BY DEF IInv
<1> QED
  BY <1>1, Invariant, PTL

\* A magic link opens at most one session, however many browsers follow it.
THEOREM Usage == Spec => []LienUsageUnique
<1>1. IInv => LienUsageUnique
  BY DEF IInv
<1> QED
  BY <1>1, Invariant, PTL

\* Links that wait to be used were drawn more than MIN_INTERVAL apart.
THEOREM Espacement == Spec => []EnvoisEspaces
<1>1. IInv => EnvoisEspaces
  BY DEF IInv
<1> QED
  BY <1>1, Invariant, PTL

\* The account accepts no token without a browser that holds it or will, although
\* refreshes, logins and logouts of the tabs of one browser overlap, unless its
\* answer was lost or one sent before it arrived after it.
THEOREM Jetons == Spec => []AucuneSessionOrpheline
<1>1. IInv => AucuneSessionOrpheline
  BY DEF IInv, JetonDetenu, Detient, EnRoute, Porte, AucuneSessionOrpheline
<1> QED
  BY <1>1, Invariant, PTL

\* The failures of an address, and all of them, exceed their threshold by less
\* than the number of requests, however many are checked before one has failed.
THEOREM Bornes ==
  ASSUME IsFiniteSet(Requetes)
  PROVE  Spec => []EchecsBornes
<1>1. Init => EchecsTenus
  <2>1. ASSUME Init, NEW S, NEW max \in Nat \ {0}
        PROVE  Tenu(S, max)
    <3>1. Lignes(S) = {} /\ Tentatives(S) = {}
      BY <2>1 DEF Init, Lignes, Tentatives, Libre, Essais
    <3> QED
      BY <2>1, <3>1, FS_EmptySet, FS_CardinalityType DEF Tenu
  <2> QED
    BY <2>1, SessionAssumption DEF EchecsTenus
<1>2. IInv /\ EchecsTenus /\ [Next]_vars => EchecsTenus'
  BY EchecsPas DEF IInv
<1>3. IInv /\ EchecsTenus => EchecsBornes
  <2> SUFFICES ASSUME IInv, EchecsTenus
               PROVE  EchecsBornes
    OBVIOUS
  <2>1. TypeOK
    BY DEF IInv
  <2>2. /\ Lignes(Adresses) = echecs
        /\ \A a \in Adresses : Lignes({a}) = {e \in echecs : e.adresse = a}
    BY <2>1 DEF Lignes, TypeOK, Echec
  <2>3. ASSUME NEW S, NEW max \in Nat, Tenu(S, max)
        PROVE  Cardinality(Lignes(S)) < max + Cardinality(Requetes)
    BY <2>1, <2>3, Tailles DEF Tenu
  <2>4. MAX_FAILURES_PER_IP \in Nat /\ MAX_FAILURES_GLOBAL \in Nat
    BY SessionAssumption
  <2> QED
    BY <2>2, <2>3, <2>4 DEF EchecsTenus, EchecsBornes, Compte, Total
<1> QED
  BY <1>1, <1>2, <1>3, Invariant, PTL DEF Spec

\* No failure is lost: whatever overlaps, each that is registered is one more row
\* of its address and of the table.
THEOREM EchecsComptes == Spec => [][ChaqueEchec]_vars
<1>1. Init => RangsSuivis
  BY DEF Init, RangsSuivis
<1>2. IInv /\ RangsSuivis /\ [Next]_vars => RangsSuivis'
  BY RangsPas DEF IInv
<1>3. IInv /\ RangsSuivis => ChaqueEchec
  BY EchecCompte DEF IInv
<1> QED
  BY <1>1, <1>2, <1>3, Invariant, PTL DEF Spec

\* The places of an address, or of several: failures that count, and attempts
\* that passed the count and may still fail.
Places(S) == Cardinality(Lignes(S)) + Cardinality(Tentatives(S))

\* While an address is locked its places only go down, and while the whole table
\* is full those of all addresses do: no attempt prolongs a lock.
PlacesPerdues ==
  /\ \A a \in Adresses : Verrouillee(a) => Places({a})' <= Places({a})
  /\ Total >= MAX_FAILURES_GLOBAL => Places(Adresses)' <= Places(Adresses)

LEMMA PlacesPas ==
  ASSUME TypeOK, TypeOK', RequetesTenues, IsFiniteSet(Requetes), [Next]_vars, NEW S,
         \A r \in Requetes : Adresse[req[r].nav] \in S => Verrouillee(Adresse[req[r].nav])
  PROVE  Places(S)' <= Places(S)
<1> DEFINE max == Places(S) + 1 - Cardinality(Requetes)
<1>1. /\ IsFiniteSet(Lignes(S)) /\ Cardinality(Lignes(S)) \in Nat
      /\ Cardinality(Tentatives(S)) \in Nat /\ Cardinality(Requetes) \in Nat
  BY Tailles
<1>2. max \in Int /\ Tenu(S, max)
  BY <1>1 DEF Places, Tenu
<1> HIDE DEF max
<1>3. Cardinality(Lignes(S)') + Cardinality(Tentatives(S)') < max + Cardinality(Requetes)
  BY <1>2, TenuPas DEF Tenu
<1>4. Cardinality(Lignes(S)') \in Nat /\ Cardinality(Tentatives(S)') \in Nat
  <2>1. Lignes(S)' \subseteq echecs' /\ IsFiniteSet(echecs') /\ Tentatives(S)' \subseteq Requetes
    BY DEF Lignes, Tentatives, TypeOK
  <2> QED
    BY <2>1, FS_Subset, FS_CardinalityType
<1> QED
  BY <1>1, <1>3, <1>4 DEF Places, max

\* A lock is never prolonged: neither by attempts that arrive while it lasts, nor
\* by those under way, which only turn the place they have into a row.
THEOREM VerrouNonProlonge ==
  ASSUME IsFiniteSet(Requetes)
  PROVE  Spec => [][PlacesPerdues]_vars
<1>1. IInv /\ [Next]_vars => PlacesPerdues
  <2> SUFFICES ASSUME IInv, [Next]_vars PROVE PlacesPerdues
    OBVIOUS
  <2>1. TypeOK /\ TypeOK' /\ RequetesTenues
    BY Pas DEF IInv
  <2>2. ASSUME NEW a \in Adresses, Verrouillee(a)
        PROVE  Places({a})' <= Places({a})
    BY <2>1, <2>2, PlacesPas
  <2>3. ASSUME Total >= MAX_FAILURES_GLOBAL
        PROVE  Places(Adresses)' <= Places(Adresses)
    <3>1. \A a : Verrouillee(a)
      BY <2>3 DEF Verrouillee
    <3> QED
      BY <2>1, <3>1, PlacesPas
  <2> QED
    BY <2>2, <2>3 DEF PlacesPerdues
<1> QED
  BY <1>1, Invariant, PTL DEF Spec
=============================================================================
