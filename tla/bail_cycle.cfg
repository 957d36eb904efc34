SPECIFICATION Spec
CONSTANTS
  Requetes = {r1, r2}
  Baux = {b1, b2}
  Generations = {g1, g2}
  Fiches = {f1, f2}
  Valeurs = {v1, v2}
  Absente = Absente
  Nul = Nul
  Inchange = Inchange
SYMMETRY MCSymetrie
INVARIANTS TypeOK ReferencesTenues UneGenerationParBail
PROPERTIES BailGenereFige
