-------------------------------- MODULE Carnet --------------------------------
(***************************************************************************)
(* What the encryption of the personal columns promises to those who use   *)
(* them: rows of ordinary texts, written whole, that no change of key      *)
(* alters or hides.  A maintenance script may take copies of texts and put *)
(* back copies it holds, and nothing else.                                 *)
(***************************************************************************)
CONSTANTS
  Lignes,     \* rows
  Colonnes,   \* personal columns
  Textes,     \* what a column may say
  Nul,        \* SQL NULL
  Absente     \* no row with this key

VARIABLES
  textes,     \* the rows, as their readers see them
  copies      \* the texts the script holds, with their places

carnetVars == <<textes, copies>>

Contenu == [Colonnes -> Textes \cup {Nul}]

InitCarnet ==
  /\ textes \in [Lignes -> Contenu \cup {Absente}]
  /\ copies = {}

\* A row is inserted, rewritten or deleted.
Ecrire(l) ==
  /\ textes'[l] \in Contenu \cup {Absente}
  /\ textes' = [textes EXCEPT ![l] = textes'[l]]
  /\ UNCHANGED copies

\* The script reads texts where they are, or forgets some.
Copier ==
  /\ \A k \in copies' \ copies : textes[k[1]] # Absente /\ textes[k[1]][k[2]] = k[3]
  /\ UNCHANGED textes

\* The script puts back some of its copies, in rows that are still there.
Remettre ==
  /\ textes' \in [Lignes -> Contenu \cup {Absente}]
  /\ \A l \in Lignes :
       /\ textes'[l] = Absente <=> textes[l] = Absente
       /\ textes[l] # Absente =>
            \A c \in Colonnes :
              textes'[l][c] = textes[l][c] \/ <<l, c, textes'[l][c]>> \in copies
  /\ copies' = {}

NextCarnet == (\E l \in Lignes : Ecrire(l)) \/ Copier \/ Remettre

SpecCarnet == InitCarnet /\ [][NextCarnet]_carnetVars
=============================================================================
