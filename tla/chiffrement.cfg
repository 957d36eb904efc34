SPECIFICATION Spec
CONSTANTS
  t1 = t1
  Lignes = {l1}
  NbColonnes = 2
  Textes = {t1, t2}
  Instances = {p1, p2}
  DerniereCle = 3
  BaseInit <- MCBase
  Nul = Nul
  Absente = Absente
  Arretee = Arretee
  Illisible = Illisible
SYMMETRY MCSymetrie
INVARIANTS TypeOK ToujoursLisible RepriseComplete
PROPERTIES Transparence
