SPECIFICATION SpecEquitable
CONSTANTS
  a = a
  b = b
  p = p
  Demandes = {r1, r2, r3}
  Fichiers = {a, b, p}
  Docx = {a, b}
  MaxDocuments = 2
  Corps <- MCCorps
  Nul = Nul
CHECK_DEADLOCK FALSE
INVARIANTS TypeOK UneALaFois UneParDemande MailFidele
PROPERTIES ServieEnFile TouteDemandeAboutit
