------------------------------ MODULE Session ------------------------------
(***************************************************************************)
(* Authentication.  The application has one account row: the password, the *)
(* one refresh token that is accepted, the one magic link.  The handlers   *)
(* read the row and write it in separate statements, several browsers call *)
(* them at once, and answers may be lost.  Failed passwords are counted in *)
(* a table of their own, per IP address.                                   *)
(* Time is relative: what has a date is here with the time it has left, a  *)
(* JWT, a link and a failure alike.  A JWT is exactly that: its payload is *)
(* the constant subject and its dates, so that two refresh tokens signed   *)
(* in one unit of time are one token.                                      *)
(* Cookies of the two kinds are set and cleared together: only the refresh *)
(* token is kept.  The challenge, signature and counter of a passkey are   *)
(* those of a library, which accepts a registered passkey.                 *)
(***************************************************************************)
EXTENDS Naturals, FiniteSets

CONSTANTS
  Requetes,             \* HTTP requests in progress at the same time
  Navigateurs,          \* browsers
  Adresses,             \* IP addresses
  Adresse,              \* the address each browser calls from
  MotsDePasse,          \* what may be typed in
  Passkeys,             \* authenticators
  Liens,                \* bound: magic links that are alive at the same time
  Operations,           \* the handlers this instance of the model exercises
  DUREE_REFRESH,        \* refreshTokenTtlSeconds
  DUREE_ACCES,          \* accessTokenTtlSeconds
  DUREE_LIEN,           \* MAGIC_LINK_TTL_MS
  MIN_INTERVAL,         \* MIN_INTERVAL_MS
  WINDOW,               \* WINDOW_SECONDS
  MAX_FAILURES_PER_IP,
  MAX_FAILURES_GLOBAL,
  RetardMax,            \* bound: time from Date.now() to the UPDATE of a link
  Nul                   \* SQL NULL

ASSUME SessionAssumption ==
  /\ Adresse \in [Navigateurs -> Adresses]
  /\ DUREE_REFRESH \in Nat \ {0}
  /\ DUREE_ACCES \in 1 .. DUREE_REFRESH
  /\ {DUREE_LIEN, MIN_INTERVAL, RetardMax} \subseteq Nat
  /\ MIN_INTERVAL + RetardMax < DUREE_LIEN
  /\ {WINDOW, MAX_FAILURES_PER_IP, MAX_FAILURES_GLOBAL} \subseteq Nat \ {0}
  /\ Nul \notin MotsDePasse \cup Liens

VARIABLES
  compte,      \* the row of "auth_account"
  passkeys,    \* the table "passkey_credential"
  echecs,      \* the rows of "login_failure" that are in the window
  cookies,     \* the refresh token each browser holds
  req,         \* where each request is
  script,      \* where reset-passkeys is
  vies,        \* the time each magic link has left
  recus,       \* the links whose mail arrived
  ouvertures,  \* history: sessions each link opened
  soldes,      \* history: links drawn before the last one that was used
  perdue,      \* history: the answer that carried the session was lost, or overtaken
  depassees    \* history: answers on their way to its browser when it was written

table == <<compte, passkeys, echecs>>
liens == <<vies, recus, ouvertures, soldes>>
vars == <<compte, passkeys, echecs, cookies, req, script, vies, recus, ouvertures, soldes,
          perdue, depassees>>

Phases ==
  {"libre", "verrou", "motDePasse", "echec", "succes", "emission", "ecriture",
   "reponse", "effacement", "demande", "envoi"}

\* temps: the time a token has left, or the time since Date.now().
EtatRequete ==
  [phase : Phases, nav : Navigateurs \cup {Nul},
   objet : MotsDePasse \cup Liens \cup {Nul}, temps : Nat]

\* A failure: its address, the time it has left in the window, and its rank
\* among those of one unit of time.
Echec == [adresse : Adresses, reste : 1 .. WINDOW, rang : Nat]

TypeOK ==
  /\ compte \in [motDePasse : MotsDePasse \cup {Nul}, refresh : 0 .. DUREE_REFRESH,
                 lien : Liens \cup {Nul}, expire : 0 .. DUREE_LIEN]
  /\ compte.lien = Nul => compte.expire = 0
  /\ passkeys \subseteq Passkeys
  /\ echecs \subseteq Echec /\ IsFiniteSet(echecs)
  /\ cookies \in [Navigateurs -> 0 .. DUREE_REFRESH]
  /\ req \in [Requetes -> EtatRequete]
  /\ script \in {"libre", "revocation"}
  /\ vies \in [Liens -> 0 .. DUREE_LIEN]
  /\ recus \in SUBSET Liens
  /\ ouvertures \in [Liens -> Nat]
  /\ soldes \in SUBSET Liens
  /\ perdue \in BOOLEAN
  /\ depassees \subseteq Requetes

-----------------------------------------------------------------------------
Libre == [phase |-> "libre", nav |-> Nul, objet |-> Nul, temps |-> 0]

Repondre(r) == req' = [req EXCEPT ![r] = Libre]

Avancer(r, phase) == req' = [req EXCEPT ![r].phase = phase]

\* A browser calls, from any of its tabs: they share its cookies, and its calls
\* overlap.  A call is seen from its guard on.
Appeler(r, op, n, phase, objet) ==
  /\ op \in Operations
  /\ req[r].phase = "libre"
  /\ req' = [req EXCEPT ![r] = [phase |-> phase, nav |-> n, objet |-> objet, temps |-> 0]]

\* The answers that will change the cookies of browser n.
EnRoute(n) ==
  {q \in Requetes : req[q].nav = n /\ req[q].phase \in {"reponse", "effacement"}}

\* The answer that carries the session is still on its way, here to browser n.
Porte(r) == req[r].phase = "reponse" /\ req[r].temps = compte.refresh

SessionEnRoute(n) == \E q \in EnRoute(n) : Porte(q)

\* The session guard: an access token is younger than DUREE_ACCES.
JwtAuthGuard(n) == cookies[n] > DUREE_REFRESH - DUREE_ACCES

Init ==
  /\ compte = [motDePasse |-> Nul, refresh |-> 0, lien |-> Nul, expire |-> 0]
  /\ passkeys = {}
  /\ echecs = {}
  /\ cookies = [n \in Navigateurs |-> 0]
  /\ req = [r \in Requetes |-> Libre]
  /\ script = "libre"
  /\ vies = [l \in Liens |-> 0]
  /\ recus = {}
  /\ ouvertures = [l \in Liens |-> 0]
  /\ soldes = {}
  /\ perdue = FALSE
  /\ depassees = {}

-----------------------------------------------------------------------------
(***************************************************************************)
(* POST /auth/login: the passkeys are counted, the failures are counted,   *)
(* the password is compared, the failure is inserted or those of the       *)
(* address are deleted.  A refusal changes nothing.                        *)
(***************************************************************************)
Login(r, n, m) ==
  /\ passkeys = {}
  /\ Appeler(r, "login", n, "verrou", m)
  /\ UNCHANGED <<table, cookies, script, liens, perdue, depassees>>

Compte(a) == Cardinality({e \in echecs : e.adresse = a})

Total == Cardinality(echecs)

\* Mutant: one failure too many.
VerrouilleeTropTard(a) ==
  Compte(a) > MAX_FAILURES_PER_IP \/ Total > MAX_FAILURES_GLOBAL

Verrouillee(a) ==
  Compte(a) >= MAX_FAILURES_PER_IP \/ Total >= MAX_FAILURES_GLOBAL

\* Mutant: an attempt that is refused starts the window again.
AssertNotLockedProlonge(r) ==
  LET a == Adresse[req[r].nav] IN
  /\ req[r].phase = "verrou"
  /\ IF Verrouillee(a)
       THEN /\ echecs' = {e \in echecs : e.adresse # a} \cup
                 {[adresse |-> a, reste |-> WINDOW, rang |-> k] : k \in 1 .. Compte(a)}
            /\ Repondre(r)
       ELSE Avancer(r, "motDePasse") /\ UNCHANGED echecs
  /\ UNCHANGED <<compte, passkeys, cookies, script, liens, perdue, depassees>>

AssertNotLocked(r) ==
  /\ req[r].phase = "verrou"
  /\ IF Verrouillee(Adresse[req[r].nav]) THEN Repondre(r) ELSE Avancer(r, "motDePasse")
  /\ UNCHANGED <<table, cookies, script, liens, perdue, depassees>>

\* An account without a password answers like a wrong one.
ValidatePassword(r) ==
  /\ req[r].phase = "motDePasse"
  /\ Avancer(r, IF compte.motDePasse = req[r].objet THEN "succes" ELSE "echec")
  /\ UNCHANGED <<table, cookies, script, liens, perdue, depassees>>

\* The INSERT; the DELETE after it removes rows that count no more.
RegisterFailure(r) ==
  LET a == Adresse[req[r].nav]
      recents == {e \in echecs : e.adresse = a /\ e.reste = WINDOW} IN
  /\ req[r].phase = "echec"
  /\ echecs' = echecs \cup
       {[adresse |-> a, reste |-> WINDOW, rang |-> Cardinality(recents) + 1]}
  /\ Repondre(r)
  /\ UNCHANGED <<compte, passkeys, cookies, script, liens, perdue, depassees>>

Reset(r) ==
  /\ req[r].phase = "succes"
  /\ echecs' = {e \in echecs : e.adresse # Adresse[req[r].nav]}
  /\ Avancer(r, "emission")
  /\ UNCHANGED <<compte, passkeys, cookies, script, liens, perdue, depassees>>

-----------------------------------------------------------------------------
(***************************************************************************)
(* issueTokens: the tokens are signed, the digest of the new refresh token *)
(* replaces the one of the account, the answer sets the cookies.           *)
(***************************************************************************)
Signer(r) ==
  /\ req[r].phase = "emission"
  /\ req' = [req EXCEPT ![r] = [phase |-> "ecriture", nav |-> req[r].nav, objet |-> Nul,
                                temps |-> DUREE_REFRESH]]
  /\ UNCHANGED <<table, cookies, script, liens, perdue, depassees>>

IssueTokens(r) ==
  /\ req[r].phase = "ecriture"
  /\ compte' = [compte EXCEPT !.refresh = req[r].temps]
  /\ perdue' = FALSE
  /\ depassees' = EnRoute(req[r].nav)
  /\ Avancer(r, "reponse")
  /\ UNCHANGED <<passkeys, echecs, cookies, script, liens>>

\* Answers come in any order: one that is older than the session and comes
\* after it takes its cookie away.
Recevoir(r) ==
  /\ Repondre(r)
  /\ depassees' = depassees \ {r}
  /\ perdue' = (perdue \/ (r \in depassees /\ ~ SessionEnRoute(req[r].nav)))

SetCookies(r) ==
  /\ req[r].phase = "reponse"
  /\ cookies' = [cookies EXCEPT ![req[r].nav] = req[r].temps]
  /\ Recevoir(r)
  /\ UNCHANGED <<table, script, liens>>

\* POST /auth/refresh: the guard reads the account and compares the digests.
Refresh(r, n) ==
  /\ cookies[n] > 0
  /\ compte.refresh = cookies[n]
  /\ Appeler(r, "refresh", n, "emission", Nul)
  /\ UNCHANGED <<table, cookies, script, liens, perdue, depassees>>

\* Mutant: the logout only clears the cookies.
LogoutSansRevoquer(r, n) ==
  /\ Appeler(r, "logout", n, "effacement", Nul)
  /\ UNCHANGED <<table, cookies, script, liens, perdue, depassees>>

\* POST /auth/logout, with or without a session: the token of the account is
\* revoked, then the answer clears the cookies.
Logout(r, n) ==
  /\ Appeler(r, "logout", n, "effacement", Nul)
  /\ compte' = [compte EXCEPT !.refresh = 0]
  /\ UNCHANGED <<passkeys, echecs, cookies, script, liens, perdue, depassees>>

ClearCookies(r) ==
  /\ req[r].phase = "effacement"
  /\ cookies' = [cookies EXCEPT ![req[r].nav] = 0]
  /\ Recevoir(r)
  /\ UNCHANGED <<table, script, liens>>

-----------------------------------------------------------------------------
(***************************************************************************)
(* Magic links.  The date of a link is the one of Date.now(), somewhat     *)
(* before the UPDATE that takes the only place there is.                   *)
(***************************************************************************)
RequestMagicLink(r, n) ==
  /\ Appeler(r, "lien", n, "demande", Nul)
  /\ UNCHANGED <<table, cookies, script, liens, perdue, depassees>>

\* Mutant: an interval of exactly MIN_INTERVAL passes.
AssezEspaceOuEgal(retard) ==
  compte.expire <= DUREE_LIEN - MIN_INTERVAL - retard

\* magic_link_expires_at IS NULL OR magic_link_expires_at < limit, both seen from
\* now: 0 is NULL, or a date that is past.
AssezEspace(retard) ==
  compte.expire < DUREE_LIEN - MIN_INTERVAL - retard

\* The conditional UPDATE with a link l nobody has seen.
ReclamerLien(r, l) ==
  LET vie == DUREE_LIEN - req[r].temps IN
  /\ req[r].phase = "demande"
  /\ vies[l] = 0
  /\ \A q \in Requetes : req[q].objet # l
  /\ IF AssezEspace(req[r].temps)
       THEN /\ compte' = [compte EXCEPT !.lien = l, !.expire = vie]
            /\ req' = [req EXCEPT ![r] = [@ EXCEPT !.phase = "envoi", !.objet = l]]
            /\ vies' = [vies EXCEPT ![l] = vie]
            /\ ouvertures' = [ouvertures EXCEPT ![l] = 0]
            /\ recus' = recus \ {l}
            /\ soldes' = soldes \ {l}
       ELSE /\ Repondre(r)
            /\ UNCHANGED <<compte, liens>>
  /\ UNCHANGED <<passkeys, echecs, cookies, script, perdue, depassees>>

\* A mail that is refused is only logged: see Interrompre.
EnvoyerLien(r) ==
  /\ req[r].phase = "envoi"
  /\ recus' = recus \cup {req[r].objet}
  /\ Repondre(r)
  /\ UNCHANGED <<table, cookies, script, vies, ouvertures, soldes, perdue, depassees>>

\* Mutant: the link is not cleared.
VerifyMagicLinkSansEffacer(r, n, l) ==
  /\ l \in recus
  /\ compte.lien = l
  /\ compte.expire > 0
  /\ Appeler(r, "lien", n, "emission", Nul)
  /\ ouvertures' = [ouvertures EXCEPT ![l] = @ + 1]
  /\ soldes' = {m \in Liens : vies[m] > 0}
  /\ UNCHANGED <<table, cookies, script, vies, recus, perdue, depassees>>

\* Mutant: the date of the link stays, and the next one has to wait for it.
VerifyMagicLinkSansDate(r, n, l) ==
  /\ l \in recus
  /\ compte.lien = l
  /\ compte.expire > 0
  /\ Appeler(r, "lien", n, "emission", Nul)
  /\ compte' = [compte EXCEPT !.lien = Nul]
  /\ ouvertures' = [ouvertures EXCEPT ![l] = @ + 1]
  /\ soldes' = {m \in Liens : vies[m] > 0}
  /\ UNCHANGED <<passkeys, echecs, cookies, script, vies, recus, perdue, depassees>>

\* POST /auth/magic-link/verify: one conditional UPDATE consumes the link.
VerifyMagicLink(r, n, l) ==
  /\ l \in recus
  /\ compte.lien = l
  /\ compte.expire > 0
  /\ Appeler(r, "lien", n, "emission", Nul)
  /\ compte' = [compte EXCEPT !.lien = Nul, !.expire = 0]
  /\ ouvertures' = [ouvertures EXCEPT ![l] = @ + 1]
  /\ soldes' = {m \in Liens : vies[m] > 0}
  /\ UNCHANGED <<passkeys, echecs, cookies, script, vies, recus, perdue, depassees>>

-----------------------------------------------------------------------------
(***************************************************************************)
(* Passkeys, and the scripts that are run from a terminal.                 *)
(***************************************************************************)
PasskeyLogin(r, n, k) ==
  /\ k \in passkeys
  /\ Appeler(r, "passkey", n, "emission", Nul)
  /\ UNCHANGED <<table, cookies, script, liens, perdue, depassees>>

PasskeyRegisterVerify(n, k) ==
  /\ "passkey" \in Operations
  /\ JwtAuthGuard(n)
  /\ k \notin passkeys
  /\ passkeys' = passkeys \cup {k}
  /\ UNCHANGED <<compte, echecs, cookies, req, script, liens, perdue, depassees>>

RemovePasskey(n, k) ==
  /\ JwtAuthGuard(n)
  /\ k \in passkeys
  /\ passkeys' = passkeys \ {k}
  /\ UNCHANGED <<compte, echecs, cookies, req, script, liens, perdue, depassees>>

\* npm run auth:seed.
SeedPassword(m) ==
  /\ "seed" \in Operations
  /\ compte' = [compte EXCEPT !.motDePasse = m, !.refresh = 0]
  /\ UNCHANGED <<passkeys, echecs, cookies, req, script, liens, perdue, depassees>>

\* npm run auth:reset-passkeys, two statements; it may stop in between.
ResetPasskeys ==
  /\ "passkey" \in Operations
  /\ script = "libre"
  /\ passkeys' = {}
  /\ script' = "revocation"
  /\ UNCHANGED <<compte, echecs, cookies, req, liens, perdue, depassees>>

RevoquerSessions ==
  /\ script = "revocation"
  /\ compte' = [compte EXCEPT !.refresh = 0]
  /\ script' = "libre"
  /\ UNCHANGED <<passkeys, echecs, cookies, req, liens, perdue, depassees>>

InterrompreScript ==
  /\ script = "revocation"
  /\ script' = "libre"
  /\ UNCHANGED <<table, cookies, req, liens, perdue, depassees>>

-----------------------------------------------------------------------------
\* A statement fails, the process of the request stops, the answer is lost.
Interrompre(r) ==
  /\ req[r].phase # "libre"
  /\ perdue' = (perdue \/ Porte(r))
  /\ depassees' = depassees \ {r}
  /\ Repondre(r)
  /\ UNCHANGED <<table, cookies, script, liens>>

Moins(t) == IF t = 0 THEN 0 ELSE t - 1

\* A unit of time passes.
Ecouler ==
  /\ \A r \in Requetes : req[r].phase = "demande" => req[r].temps < RetardMax
  /\ compte' = [compte EXCEPT !.refresh = Moins(@), !.expire = Moins(@)]
  /\ echecs' = {[e EXCEPT !.reste = @ - 1] : e \in {f \in echecs : f.reste > 1}}
  /\ cookies' = [n \in Navigateurs |-> Moins(cookies[n])]
  /\ req' = [r \in Requetes |->
       [req[r] EXCEPT !.temps = CASE req[r].phase = "demande" -> @ + 1
                                  [] req[r].phase \in {"ecriture", "reponse"} -> Moins(@)
                                  [] OTHER -> 0]]
  /\ vies' = [l \in Liens |-> Moins(vies[l])]
  /\ UNCHANGED <<passkeys, script, recus, ouvertures, soldes, perdue, depassees>>

-----------------------------------------------------------------------------
NextRequete(r) ==
  \/ \E n \in Navigateurs :
       \/ \E m \in MotsDePasse : Login(r, n, m)
       \/ Refresh(r, n)
       \/ Logout(r, n)
       \/ RequestMagicLink(r, n)
       \/ \E l \in Liens : VerifyMagicLink(r, n, l)
       \/ \E k \in Passkeys : PasskeyLogin(r, n, k)
  \/ AssertNotLocked(r)
  \/ ValidatePassword(r)
  \/ RegisterFailure(r)
  \/ Reset(r)
  \/ Signer(r)
  \/ IssueTokens(r)
  \/ SetCookies(r)
  \/ ClearCookies(r)
  \/ \E l \in Liens : ReclamerLien(r, l)
  \/ EnvoyerLien(r)
  \/ Interrompre(r)

Next ==
  \/ \E r \in Requetes : NextRequete(r)
  \/ \E n \in Navigateurs, k \in Passkeys : PasskeyRegisterVerify(n, k) \/ RemovePasskey(n, k)
  \/ \E m \in MotsDePasse : SeedPassword(m)
  \/ ResetPasskeys
  \/ RevoquerSessions
  \/ InterrompreScript
  \/ Ecouler

Spec == Init /\ [][Next]_vars

\* Time passes, whatever the requests do.
SpecTemps == Spec /\ WF_vars(Ecouler)

-----------------------------------------------------------------------------
(***************************************************************************)
(* Properties.                                                             *)
(***************************************************************************)

\* A link opens at most one session, however many browsers follow it at once
\* and whatever is interrupted: "deux requêtes simultanées avec le même jeton ne
\* peuvent pas réussir toutes les deux".
LienUsageUnique == \A l \in Liens : ouvertures[l] <= 1

\* As long as none is used, links are drawn more than MIN_INTERVAL apart, though
\* requests read the clock before the UPDATE and reach it in any order.
EnvoisEspaces ==
  \A l, m \in Liens \ soldes :
    l # m /\ vies[l] > 0 /\ vies[l] <= vies[m] => vies[m] - vies[l] > MIN_INTERVAL

\* The account never accepts a token that no browser holds or is about to get,
\* however refreshes, logins and logouts of several browsers and of several tabs
\* of one overlap: no logout leaves a session without a browser, and of sessions
\* that overlap the last one written has one.  Two things outside the server can
\* take it away: its answer is lost, or one sent before it comes after it.
AucuneSessionOrpheline ==
  compte.refresh > 0 =>
    \/ perdue
    \/ \E n \in Navigateurs : cookies[n] = compte.refresh
    \/ \E r \in Requetes : Porte(r)

\* Attempts that are counted before any of them has failed may pass together,
\* but never more of them than there are requests.
EchecsBornes ==
  /\ \A a \in Adresses : Compte(a) < MAX_FAILURES_PER_IP + Cardinality(Requetes)
  /\ Total < MAX_FAILURES_GLOBAL + Cardinality(Requetes)

\* A lock always ends, although attempts go on: those it refuses do not count.
VerrouTemporaire == \A a \in Adresses : []<> ~ Verrouillee(a)
=============================================================================
