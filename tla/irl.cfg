SPECIFICATION SpecEquitable
CONSTANTS
  Lectures = {g1, g2}
  Appartements = {a1}
  Dernier = 2
  Saisi = Saisi
  Vide = Vide
  Inchange = Inchange
  Absent = Absent
INVARIANTS TypeOK
PROPERTIES IrlFinitAJour LectureNEffacePas SaisieGardee
