SPECIFICATION SpecTemps
CONSTANTS
  n3 = n3
  a1 = a1
  a2 = a2
  Requetes = {r1, r2}
  Navigateurs = {n1, n3}
  Adresses = {a1, a2}
  Adresse <- MCAdresse
  MotsDePasse = {m1, m2}
  Passkeys = {}
  Liens = {}
  Operations = {"login", "seed"}
  DUREE_REFRESH = 1
  DUREE_ACCES = 1
  DUREE_LIEN = 2
  MIN_INTERVAL = 0
  WINDOW = 2
  MAX_FAILURES_PER_IP = 2
  MAX_FAILURES_GLOBAL = 3
  RetardMax = 0
  Nul = Nul
INVARIANTS EchecsBornes
PROPERTIES VerrouTemporaire
