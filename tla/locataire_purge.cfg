SPECIFICATION FairSpec
CONSTANTS
  f1 = f1
  f2 = f2
  b1 = b1
  i1 = i1
  Absente = Absente
  Nul = Nul
  Inchange = Inchange
  Fiches = {f1, f2, f3, f4}
  Baux = {b1, b2}
  Identites = {i1}
  Requetes = {r1}
  Instances = {p1, p2}
  Operations = {"creer"}
  Dates <- MCDateUnique
  DELAI = 1
  FichesInit <- MCDeparts
  BauxInit = {b1}
  GeneresInit = {b1}
  JourMax = 3
PROPERTIES RappelUnique
PROPERTIES BailEmporte ExpireeFinitEffacee
