SPECIFICATION Spec
CONSTANTS
  n3 = n3
  a1 = a1
  a2 = a2
  Requetes = {r1, r2}
  Navigateurs = {n1, n2}
  Adresses = {a1}
  Adresse <- MCAdresse
  MotsDePasse = {m1}
  Passkeys = {k1}
  Liens = {l1, l2}
  Operations = {"refresh", "logout", "lien", "passkey"}
  DUREE_REFRESH = 2
  DUREE_ACCES = 1
  DUREE_LIEN = 3
  MIN_INTERVAL = 1
  WINDOW = 1
  MAX_FAILURES_PER_IP = 1
  MAX_FAILURES_GLOBAL = 1
  RetardMax = 1
  Nul = Nul
SYMMETRY MCSymetrie
INVARIANTS TypeOK LienUsageUnique EnvoisEspaces AucuneSessionOrpheline
