SPECIFICATION Spec
CONSTANTS
  Requetes = {r1}
  Appels = {p1}
  Appartements = {a1, a2, a4}
  Groupe = {a1, a4}
  Chambres = {c1}
  Caracteristiques = {k1}
  Loyers = {l1}
  Saisis = {l1, Nul}
  Absente = Absente
  Nul = Nul
  Inchange = Inchange
SYMMETRY MCSymetrie
INVARIANTS TypeOK
PROPERTIES AlignementDesMontants PorteeDesEcritures SuppressionEntiere
