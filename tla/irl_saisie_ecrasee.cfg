SPECIFICATION Spec
CONSTANTS
  Lectures = {g1}
  Appartements = {a1}
  Dernier = 2
  Saisi = Saisi
  Vide = Vide
  Inchange = Inchange
  Absent = Absent
PROPERTIES LectureRespecteSaisie
