SPECIFICATION Spec
CONSTANTS
  f1 = f1
  f2 = f2
  b1 = b1
  i1 = i1
  Absente = Absente
  Nul = Nul
  Inchange = Inchange
  Fiches = {f1, f2}
  Baux = {b1}
  Identites = {i1}
  Requetes = {r1}
  Instances = {p1}
  Operations = {"creer", "modifier", "signer", "bail", "resiliation", "sortie", "reintegrer", "conservation", "supprimer"}
  Dates <- MCDateUnique
  DELAI = 1
  FichesInit <- MCVide
  BauxInit = {}
  GeneresInit = {}
  JourMax = 2
INVARIANTS PaireEtatSortie
PROPERTIES CycleDeVie FaitsHorsModale
