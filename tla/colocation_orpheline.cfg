SPECIFICATION Spec
CONSTANTS
  f1 = f1
  f2 = f2
  b1 = b1
  i1 = i1
  Absente = Absente
  Nul = Nul
  Inchange = Inchange
  Fiches = {f1, f2}
  Baux = {b1}
  Identites = {i1}
  Requetes = {r1, r2}
  Instances = {}
  Operations = {"supprimer"}
  Dates <- MCDateUnique
  DELAI = 1
  FichesInit <- MCCandidats
  BauxInit = {b1}
  GeneresInit = {b1}
  JourMax = 0
PROPERTIES BailEmporte
