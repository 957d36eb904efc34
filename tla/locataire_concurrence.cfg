SPECIFICATION Spec
CONSTANTS
  f1 = f1
  f2 = f2
  b1 = b1
  i1 = i1
  Absente = Absente
  Nul = Nul
  Inchange = Inchange
  Fiches = {f1, f2}
  Baux = {b1}
  Identites = {i1}
  Requetes = {r1, r2}
  Instances = {p1}
  Operations = {"modifier", "signer", "conservation", "supprimer"}
  Dates <- MCDateUnique
  DELAI = 1
  FichesInit <- MCColocation
  BauxInit = {b1}
  GeneresInit = {b1}
  JourMax = 2
SYMMETRY MCSymetrie
INVARIANTS TypeOK IntegriteReferentielle VerrouLegitime
PROPERTIES RespecteRegistre
