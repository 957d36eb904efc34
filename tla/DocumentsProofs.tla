---------------------------- MODULE DocumentsProofs ----------------------------
(***************************************************************************)
(* For any number of requests and documents: the chain of promises is a    *)
(* queue with one clerk that never gets stuck, and a mail leaves whole and *)
(* once.                                                                   *)
(***************************************************************************)
EXTENDS Documents, SequenceTheorems, TLAPS

Positions == 1 .. Len(conversions)

EstReglee(k) == conversions[k].etat \in {"resolue", "rejetee"}

\* Every conversion is chained on the one before it.
Chaine ==
  /\ file = Len(conversions)
  /\ \A k \in Positions : conversions[k].apres = k - 1

\* A conversion that was started has only finished ones before it.
EnOrdre ==
  \A j, k \in Positions : j < k /\ conversions[k].etat # "attente" => EstReglee(j)

\* What a handler has collected: the first documents of its request, converted,
\* and the next one is the conversion it awaits.
Collecte ==
  \A r \in Demandes :
    LET q == demande[r] IN
    /\ q.phase = "conversion" =>
         /\ q.route \in {"pdf", "envoyer"}
         /\ q.attend \in Positions
         /\ Len(q.pieces) < Len(q.documents)
         /\ conversions[q.attend].document = q.documents[Len(q.pieces) + 1]
         /\ \A n \in 1 .. Len(q.pieces) : q.pieces[n] = Pdf(q.documents[n])
    /\ q.phase = "envoi" =>
         /\ q.route \in {"envoyer", "mail"}
         /\ Len(q.pieces) = Len(q.documents)
         /\ \A n \in 1 .. Len(q.documents) :
              q.pieces[n] = IF q.route = "mail" THEN q.documents[n] ELSE Pdf(q.documents[n])
    /\ q.phase \in {"vierge", "conversion", "envoi", "refusee"} => mails[r] = <<>>

IInv ==
  /\ TypeOK
  /\ Chaine
  /\ EnOrdre
  /\ UneParDemande
  /\ Collecte
  /\ MailFidele

-----------------------------------------------------------------------------
LEMMA ViergeTypee == Vierge \in Demande /\ Vierge.phase = "vierge"
BY DEF Vierge, Demande

LEMMA FinVide ==
  ASSUME NEW phase \in Finie
  PROVE  /\ [Vierge EXCEPT !.phase = phase] \in Demande
         /\ [Vierge EXCEPT !.phase = phase].phase = phase
BY ViergeTypee DEF Demande

LEMMA InitInv == Init => IInv
<1> SUFFICES ASSUME Init PROVE IInv
  OBVIOUS
<1> USE DEF Init
<1>1. Len(conversions) = 0 /\ Positions = {}
  BY DEF Positions
<1>2. TypeOK
  BY <1>1, ViergeTypee DEF TypeOK
<1>3. Chaine /\ EnOrdre /\ UneParDemande
  BY <1>1 DEF Chaine, EnOrdre, UneParDemande, Positions
<1>4. Collecte /\ MailFidele
  BY ViergeTypee DEF Collecte, MailFidele
<1> QED
  BY <1>2, <1>3, <1>4 DEF IInv

-----------------------------------------------------------------------------
(***************************************************************************)
(* The queue.                                                              *)
(***************************************************************************)
\* One conversion changes its state and nothing else does.
LEMMA Etat ==
  ASSUME TypeOK, NEW k \in Positions, NEW e \in {"attente", "lancee", "resolue", "rejetee"},
         Changer(k, e)
  PROVE  /\ conversions' \in Seq(Conversion)
         /\ Len(conversions') = Len(conversions)
         /\ \A j \in Positions :
              /\ conversions'[j].etat = IF j = k THEN e ELSE conversions[j].etat
              /\ conversions'[j].apres = conversions[j].apres
              /\ conversions'[j].demande = conversions[j].demande
              /\ conversions'[j].document = conversions[j].document
<1>1. conversions \in Seq(Conversion) /\ \A j \in Positions : conversions[j] \in Conversion
  BY DEF TypeOK, Positions
<1>2. [conversions[k] EXCEPT !.etat = e] \in Conversion
  BY <1>1 DEF Conversion
<1>3. conversions' = [conversions EXCEPT ![k] = [conversions[k] EXCEPT !.etat = e]]
  BY DEF Changer
<1>4. conversions' \in Seq(Conversion) /\ Len(conversions') = Len(conversions)
      /\ \A j \in Positions :
           conversions'[j] = IF j = k THEN [conversions[k] EXCEPT !.etat = e] ELSE conversions[j]
  BY <1>1, <1>2, <1>3 DEF Positions
<1> QED
  BY <1>1, <1>4 DEF Conversion

LEMMA LancerInv ==
  ASSUME IInv, NEW k \in Positions, LancerConversion(k)
  PROVE  IInv'
<1> USE DEF IInv
<1>1. /\ conversions' \in Seq(Conversion)
      /\ Len(conversions') = Len(conversions)
      /\ \A j \in Positions :
           /\ conversions'[j].etat = IF j = k THEN "lancee" ELSE conversions[j].etat
           /\ conversions'[j].apres = conversions[j].apres
           /\ conversions'[j].demande = conversions[j].demande
           /\ conversions'[j].document = conversions[j].document
  BY Etat DEF LancerConversion
<1>2. UNCHANGED <<demande, file, mails, smtp>> /\ conversions[k].etat = "attente"
  BY DEF LancerConversion
<1>3. Positions' = Positions
  BY <1>1 DEF Positions
<1>4. TypeOK'
  BY <1>1, <1>2 DEF TypeOK
<1>5. Chaine'
  BY <1>1, <1>2, <1>3 DEF Chaine
<1>6. EnOrdre'
  <2> SUFFICES ASSUME NEW i \in Positions, NEW j \in Positions, i < j,
                      conversions'[j].etat # "attente"
               PROVE  conversions'[i].etat \in {"resolue", "rejetee"}
    BY <1>3 DEF EnOrdre, EstReglee
  <2>1. CASE j = k
    <3>1. conversions[k].apres = k - 1 /\ k - 1 \in Positions
      BY <2>1 DEF Chaine, Positions
    <3>2. EstReglee(k - 1)
      BY <3>1 DEF LancerConversion, Reglee, EstReglee, Positions
    <3>3. i = k - 1 \/ i < k - 1
      BY <2>1 DEF Positions
    <3>4. EstReglee(i)
      BY <3>1, <3>2, <3>3 DEF EnOrdre, EstReglee
    <3> QED
      BY <1>1, <1>2, <2>1, <3>4 DEF EstReglee
  <2>2. CASE j # k
    <3>1. EstReglee(i)
      BY <1>1, <2>2 DEF EnOrdre
    <3> QED
      BY <1>1, <1>2, <3>1 DEF EstReglee
  <2> QED
    BY <2>1, <2>2
<1>7. UneParDemande'
  BY <1>1, <1>2, <1>3 DEF UneParDemande, Positions
<1>8. Collecte' /\ MailFidele'
  BY <1>1, <1>2, <1>3 DEF Collecte, MailFidele
<1> QED
  BY <1>4, <1>5, <1>6, <1>7, <1>8

LEMMA TerminerInv ==
  ASSUME IInv, NEW k \in Positions, TerminerConversion(k)
  PROVE  IInv'
<1> USE DEF IInv
<1>1. PICK e \in {"resolue", "rejetee"} : Changer(k, e)
  BY DEF TerminerConversion
<1>2. /\ conversions' \in Seq(Conversion)
      /\ Len(conversions') = Len(conversions)
      /\ \A j \in Positions :
           /\ conversions'[j].etat = IF j = k THEN e ELSE conversions[j].etat
           /\ conversions'[j].apres = conversions[j].apres
           /\ conversions'[j].demande = conversions[j].demande
           /\ conversions'[j].document = conversions[j].document
  BY <1>1, Etat
<1>3. UNCHANGED <<demande, file, mails, smtp>> /\ conversions[k].etat = "lancee"
  BY DEF TerminerConversion
<1>4. Positions' = Positions
  BY <1>2 DEF Positions
<1>5. TypeOK'
  BY <1>2, <1>3 DEF TypeOK
<1>6. Chaine' /\ EnOrdre'
  BY <1>2, <1>3, <1>4 DEF Chaine, EnOrdre, EstReglee
<1>7. UneParDemande'
  BY <1>2, <1>3, <1>4 DEF UneParDemande, Positions
<1>8. Collecte' /\ MailFidele'
  BY <1>2, <1>3, <1>4 DEF Collecte, MailFidele
<1> QED
  BY <1>5, <1>6, <1>7, <1>8

LEMMA NextServiceInv == IInv /\ NextService => IInv'
BY LancerInv, TerminerInv DEF NextService, Positions

\* A call of convertirEnPdf joins the end of the chain.
LEMMA Ajout ==
  ASSUME TypeOK, Chaine, EnOrdre,
         NEW r \in Demandes, NEW d \in Fichiers, ConvertirEnPdf(r, d)
  PROVE  /\ conversions' \in Seq(Conversion)
         /\ Len(conversions') = Len(conversions) + 1
         /\ file' = Len(conversions')
         /\ Positions' = Positions \cup {Len(conversions) + 1}
         /\ \A k \in Positions : conversions'[k] = conversions[k]
         /\ conversions'[Len(conversions) + 1].demande = r
         /\ conversions'[Len(conversions) + 1].document = d
         /\ Chaine' /\ EnOrdre'
<1> DEFINE n == Len(conversions) + 1
           c == [demande |-> r, document |-> d, apres |-> file, etat |-> "attente"]
<1>1. conversions \in Seq(Conversion) /\ Len(conversions) \in Nat /\ file = Len(conversions)
  BY DEF TypeOK, Chaine
<1>2. c \in Conversion
  BY <1>1 DEF Conversion
<1>3. conversions' = Append(conversions, c) /\ file' = n
  BY DEF ConvertirEnPdf
<1> HIDE DEF c
<1>4. /\ conversions' \in Seq(Conversion) /\ Len(conversions') = n
      /\ \A k \in Positions : conversions'[k] = conversions[k]
      /\ conversions'[n] = c
  BY <1>1, <1>2, <1>3 DEF Positions
<1>5. Positions' = Positions \cup {n}
  BY <1>1, <1>4 DEF Positions
<1>6. c.demande = r /\ c.document = d /\ c.apres = n - 1 /\ c.etat = "attente"
  BY <1>1 DEF c
<1>7. Chaine'
  BY <1>1, <1>3, <1>4, <1>5, <1>6 DEF Chaine
<1>8. EnOrdre'
  <2> SUFFICES ASSUME NEW j \in Positions', NEW k \in Positions', j < k,
                      conversions'[k].etat # "attente"
               PROVE  conversions'[j].etat \in {"resolue", "rejetee"}
    BY DEF EnOrdre, EstReglee
  <2>1. k \in Positions
    BY <1>4, <1>5, <1>6
  <2>2. j \in Positions
    BY <1>1, <1>5, <2>1 DEF Positions
  <2> QED
    BY <1>4, <2>1, <2>2 DEF EnOrdre, EstReglee
<1> QED
  BY <1>3, <1>4, <1>5, <1>6, <1>7, <1>8

-----------------------------------------------------------------------------
(***************************************************************************)
(* The handlers.                                                           *)
(***************************************************************************)
CollecteDe(r) ==
  LET q == demande[r] IN
  /\ q.phase = "conversion" =>
       /\ q.route \in {"pdf", "envoyer"}
       /\ q.attend \in Positions
       /\ Len(q.pieces) < Len(q.documents)
       /\ conversions[q.attend].document = q.documents[Len(q.pieces) + 1]
       /\ \A n \in 1 .. Len(q.pieces) : q.pieces[n] = Pdf(q.documents[n])
  /\ q.phase = "envoi" =>
       /\ q.route \in {"envoyer", "mail"}
       /\ Len(q.pieces) = Len(q.documents)
       /\ \A n \in 1 .. Len(q.documents) :
            q.pieces[n] = IF q.route = "mail" THEN q.documents[n] ELSE Pdf(q.documents[n])
  /\ q.phase \in {"vierge", "conversion", "envoi", "refusee"} => mails[r] = <<>>

MailDe(r) ==
  LET q == demande[r] IN
  /\ Len(mails[r]) <= 1
  /\ mails[r] # <<>> =>
       /\ q.route \in {"envoyer", "mail"}
       /\ q.phase \in {"repondue", "echouee", "perdue"}
       /\ Len(mails[r][1]) = Len(q.documents)
       /\ \A n \in 1 .. Len(q.documents) :
            mails[r][1][n] = IF q.route = "mail" THEN q.documents[n] ELSE Pdf(q.documents[n])
  /\ q.phase = "repondue" /\ q.route # "pdf" => mails[r] # <<>>

LEMMA ParDemande ==
  /\ Collecte <=> \A r \in Demandes : CollecteDe(r)
  /\ MailFidele <=> \A r \in Demandes : MailDe(r)
BY DEF Collecte, CollecteDe, MailFidele, MailDe

LEMMA ParDemandeApres ==
  /\ Collecte' <=> \A r \in Demandes : CollecteDe(r)'
  /\ MailFidele' <=> \A r \in Demandes : MailDe(r)'
BY DEF Collecte, CollecteDe, MailFidele, MailDe

LEMMA DemandeurConnu ==
  ASSUME TypeOK
  PROVE  \A k \in Positions : conversions[k] \in Conversion /\ conversions[k].demande \in Demandes
<1>1. conversions \in Seq(Conversion)
  BY DEF TypeOK
<1>2. \A k \in Positions : conversions[k] \in Conversion
  BY <1>1 DEF Positions
<1> QED
  BY <1>2 DEF Conversion

\* One request moves, to a state that is right; the queue stays or grows by the
\* conversion it now awaits, when none of its own was unfinished.
LEMMA DemandeInv ==
  ASSUME IInv, NEW r \in Demandes, NEW q \in Demande,
         demande' = [demande EXCEPT ![r] = q], UNCHANGED <<mails, smtp>>,
         \A k \in Positions : conversions[k].demande = r => EstReglee(k),
         \/ /\ UNCHANGED <<conversions, file>>
            /\ q.phase # "conversion"
         \/ /\ \E d \in Fichiers : ConvertirEnPdf(r, d)
            /\ q.phase = "conversion" /\ q.attend = Len(conversions) + 1,
         CollecteDe(r)', MailDe(r)'
  PROVE  IInv'
<1> USE DEF IInv
<1>1. \A k \in Demandes : demande'[k] = IF k = r THEN q ELSE demande[k]
  BY DEF TypeOK
<1>2. CASE UNCHANGED <<conversions, file>> /\ q.phase # "conversion"
  <2>1. TypeOK'
    BY <1>2 DEF TypeOK
  <2>2. Positions' = Positions /\ Chaine' /\ EnOrdre'
    BY <1>2 DEF Positions, Chaine, EnOrdre, EstReglee
  <2>3. UneParDemande'
    <3>1. \A k \in Positions : conversions[k].demande \in Demandes
      BY DemandeurConnu
    <3> QED
      BY <1>1, <1>2, <3>1 DEF UneParDemande, Positions, EstReglee
  <2>4. \A k \in Demandes \ {r} : CollecteDe(k)' /\ MailDe(k)'
    BY <1>1, <1>2, <2>2, ParDemande DEF CollecteDe, MailDe
  <2>5. Collecte' /\ MailFidele'
    BY <2>4, ParDemandeApres
  <2> QED
    BY <2>1, <2>2, <2>3, <2>5
<1>3. ASSUME NEW d \in Fichiers, ConvertirEnPdf(r, d),
             q.phase = "conversion", q.attend = Len(conversions) + 1
      PROVE  IInv'
  <2>1. /\ conversions' \in Seq(Conversion)
        /\ Len(conversions') = Len(conversions) + 1
        /\ file' = Len(conversions')
        /\ Positions' = Positions \cup {Len(conversions) + 1}
        /\ \A k \in Positions : conversions'[k] = conversions[k]
        /\ conversions'[Len(conversions) + 1].demande = r
        /\ Chaine' /\ EnOrdre'
    BY <1>3, Ajout
  <2>2. TypeOK'
    BY <2>1 DEF TypeOK
  <2>3. UneParDemande'
    <3>1. \A k \in Positions : conversions[k].demande \in Demandes
      BY DemandeurConnu
    <3> QED
      BY <1>1, <1>3, <2>1, <3>1 DEF UneParDemande, Positions, EstReglee
  <2>4. \A k \in Demandes \ {r} : CollecteDe(k)' /\ MailDe(k)'
    BY <1>1, <2>1, ParDemande DEF CollecteDe, MailDe
  <2>5. Collecte' /\ MailFidele'
    BY <2>4, ParDemandeApres
  <2> QED
    BY <2>1, <2>2, <2>3, <2>5
<1> QED
  BY <1>2, <1>3

LEMMA RefuserInv ==
  ASSUME IInv, NEW r \in Demandes, NEW route \in Routes, NEW documents \in Corps[route],
         Refuser(r, route, documents)
  PROVE  IInv'
<1> USE DEF IInv
<1> DEFINE q == [demande[r] EXCEPT !.phase = "refusee"]
<1>1. demande[r] \in Demande /\ demande[r].phase = "vierge"
  BY DEF TypeOK, Refuser
<1>2. q \in Demande /\ q.phase = "refusee"
  BY <1>1 DEF Demande, EnVie, Finie
<1>3. demande' = [demande EXCEPT ![r] = q] /\ demande'[r] = q
      /\ UNCHANGED <<conversions, file, mails, smtp>>
  BY DEF Refuser, TypeOK
<1>4. \A k \in Positions : conversions[k].demande = r => EstReglee(k)
  BY <1>1, DemandeurConnu DEF UneParDemande, Positions, EstReglee, Conversion
<1>5. CollecteDe(r)' /\ MailDe(r)'
  BY <1>1, <1>2, <1>3, ParDemande DEF CollecteDe, MailDe
<1> HIDE DEF q
<1> QED
  BY <1>2, <1>3, <1>4, <1>5, DemandeInv

LEMMA ConvertirInv ==
  ASSUME IInv, NEW r \in Demandes, NEW route \in Routes, NEW documents \in Corps[route],
         Convertir(r, route, documents)
  PROVE  IInv'
<1> USE DEF IInv
<1> DEFINE n == Len(conversions) + 1
           q == [route |-> route, documents |-> documents, phase |-> "conversion",
                 attend |-> n, pieces |-> <<>>]
<1>1. demande[r].phase = "vierge" /\ n \in Nat
  BY DEF TypeOK, Convertir
<1>2. documents \in Seq(Fichiers) /\ Len(documents) >= 1 /\ route \in {"pdf", "envoyer"}
  <2>1. documents \in Seq(Fichiers) /\ Len(documents) \in Nat
    BY DocumentsAssumption
  <2>2. route \in {"pdf", "envoyer"} /\ Recevable(route, documents)
    BY DEF Convertir, Routes
  <2>3. CASE route = "pdf"
    BY <2>1, <2>2, <2>3 DEF Recevable
  <2>4. CASE route = "envoyer"
    BY <2>1, <2>2, <2>4, DocumentsAssumption DEF Recevable
  <2> QED
    BY <2>1, <2>2, <2>3, <2>4
<1>3. documents[1] \in Fichiers
  BY <1>2
<1>4. q \in Demande
  BY <1>1, <1>2 DEF Demande, Routes, EnVie
<1>5. /\ demande' = [demande EXCEPT ![r] = q] /\ demande'[r] = q
      /\ ConvertirEnPdf(r, documents[1]) /\ UNCHANGED <<mails, smtp>>
  BY DEF Convertir, TypeOK
<1>6. \A k \in Positions : conversions[k].demande = r => EstReglee(k)
  BY <1>1, DemandeurConnu DEF UneParDemande, Positions, EstReglee, Conversion
<1>7. n \in Positions' /\ conversions'[n].document = documents[1]
  BY <1>3, <1>5, Ajout
<1>8. mails[r] = <<>>
  BY <1>1, ParDemande DEF CollecteDe
<1>9. /\ q.phase = "conversion" /\ q.attend = n /\ q.route = route
      /\ q.documents = documents /\ q.pieces = <<>>
  OBVIOUS
<1> HIDE DEF q
<1>10. CollecteDe(r)'
  <2>1. Len(q.pieces) = 0 /\ 1 .. Len(q.pieces) = {}
    BY <1>9
  <2> QED
    BY <1>2, <1>5, <1>7, <1>8, <1>9, <2>1 DEF CollecteDe
<1>11. MailDe(r)'
  BY <1>5, <1>8, <1>9 DEF MailDe
<1> QED
  BY <1>3, <1>4, <1>5, <1>6, <1>9, <1>10, <1>11, DemandeInv

LEMMA SendMailInv ==
  ASSUME IInv, NEW r \in Demandes, NEW documents \in Corps["mail"], SendMail(r, documents)
  PROVE  IInv'
<1> USE DEF IInv
<1> DEFINE q == [route |-> "mail", documents |-> documents, phase |-> GetTransporter,
                 attend |-> 0, pieces |-> documents]
<1>1. demande[r].phase = "vierge"
  BY DEF SendMail
<1>2. documents \in Seq(Fichiers) /\ documents \in Seq(Contenu)
  <2>1. documents \in Seq(Fichiers) /\ Fichiers \subseteq Contenu
    BY DocumentsAssumption DEF Routes, Contenu
  <2> QED
    BY <2>1
<1>3. q \in Demande /\ q.phase \in {"envoi", "echouee"}
  BY <1>2 DEF Demande, Routes, GetTransporter, EnVie, Finie
<1>4. /\ demande' = [demande EXCEPT ![r] = q] /\ demande'[r] = q
      /\ UNCHANGED <<conversions, file, mails, smtp>>
  BY DEF SendMail, TypeOK
<1>5. \A k \in Positions : conversions[k].demande = r => EstReglee(k)
  BY <1>1, DemandeurConnu DEF UneParDemande, Positions, EstReglee, Conversion
<1>6. mails[r] = <<>>
  BY <1>1, ParDemande DEF CollecteDe
<1>7. q.route = "mail" /\ q.documents = documents /\ q.pieces = documents
  OBVIOUS
<1> HIDE DEF q
<1>8. CollecteDe(r)' /\ MailDe(r)'
  BY <1>3, <1>4, <1>6, <1>7 DEF CollecteDe, MailDe
<1> QED
  BY <1>3, <1>4, <1>5, <1>8, DemandeInv

\* The PDF that was awaited is that of the next document.
LEMMA PoursuivreInv ==
  ASSUME IInv, NEW r \in Demandes, demande[r].phase = "conversion",
         conversions[demande[r].attend].etat = "resolue",
         Poursuivre(r, Pdf(conversions[demande[r].attend].document)),
         UNCHANGED <<mails, smtp>>
  PROVE  IInv'
<1> USE DEF IInv
<1> DEFINE k == demande[r].attend
           p == demande[r]
           contenu == Pdf(conversions[k].document)
           pieces == Append(p.pieces, contenu)
           encore == Len(pieces) < Len(p.documents)
           n == Len(conversions) + 1
           phase == IF encore THEN "conversion"
                    ELSE IF p.route = "pdf" THEN "repondue" ELSE GetTransporter
           q == [p EXCEPT !.pieces = pieces, !.attend = IF encore THEN n ELSE 0, !.phase = phase]
<1>1. p \in Demande /\ p.documents \in Seq(Fichiers) /\ p.pieces \in Seq(Contenu)
      /\ n \in Nat
  BY DEF TypeOK, Demande
<1>2. /\ p.route \in {"pdf", "envoyer"} /\ k \in Positions
      /\ Len(p.pieces) < Len(p.documents)
      /\ conversions[k].document = p.documents[Len(p.pieces) + 1]
      /\ \A m \in 1 .. Len(p.pieces) : p.pieces[m] = Pdf(p.documents[m])
      /\ mails[r] = <<>>
  BY ParDemande DEF CollecteDe
<1>3. /\ Len(pieces) = Len(p.pieces) + 1 /\ Len(pieces) <= Len(p.documents)
      /\ \A m \in 1 .. Len(pieces) : pieces[m] = Pdf(p.documents[m])
  BY <1>1, <1>2
<1>4. pieces \in Seq(Contenu)
  <2>1. conversions[k].document \in Fichiers
    BY <1>2, DemandeurConnu DEF Conversion
  <2>2. contenu \in Contenu
    BY <2>1 DEF Contenu
  <2> HIDE DEF contenu
  <2> QED
    BY <1>1, <2>2
<1>5. /\ demande' = [demande EXCEPT ![r] = q]
      /\ IF encore THEN ConvertirEnPdf(r, p.documents[Len(pieces) + 1])
                   ELSE UNCHANGED <<conversions, file>>
  BY DEF Poursuivre
<1>6. phase \in {"conversion", "repondue", "envoi", "echouee"}
      /\ (encore <=> phase = "conversion")
      /\ (phase = "repondue" => p.route = "pdf")
      /\ (phase = "envoi" => p.route # "pdf")
  BY DEF GetTransporter
<1>7. /\ q \in Demande /\ q.phase = phase /\ q.pieces = pieces
      /\ q.attend = (IF encore THEN n ELSE 0)
      /\ q.route = p.route /\ q.documents = p.documents
  <2> HIDE DEF phase, pieces, encore
  <2> QED
    BY <1>1, <1>4, <1>6 DEF Demande, EnVie, Finie
<1> HIDE DEF q, phase, pieces
<1>8. demande'[r] = q
  BY <1>5 DEF TypeOK
<1>9. \A j \in Positions : conversions[j].demande = r => EstReglee(j)
  BY <1>2, DemandeurConnu DEF UneParDemande, Positions, EstReglee, Conversion
<1>10. MailDe(r)'
  BY <1>2, <1>6, <1>7, <1>8 DEF MailDe
<1>11. CASE encore
  <2>1. p.documents[Len(pieces) + 1] \in Fichiers
    BY <1>1, <1>3, <1>11
  <2>2. ConvertirEnPdf(r, p.documents[Len(pieces) + 1])
    BY <1>5, <1>11
  <2>3. n \in Positions' /\ conversions'[n].document = p.documents[Len(pieces) + 1]
    BY <2>1, <2>2, Ajout
  <2>4. q.phase = "conversion" /\ q.attend = n
    BY <1>6, <1>7, <1>11
  <2>5. CollecteDe(r)'
    BY <1>2, <1>3, <1>7, <1>8, <1>11, <2>3, <2>4 DEF CollecteDe
  <2> QED
    BY <1>5, <1>7, <1>9, <1>10, <2>1, <2>2, <2>4, <2>5, DemandeInv
<1>12. CASE ~ encore
  <2>1. UNCHANGED <<conversions, file>> /\ q.phase # "conversion"
    BY <1>5, <1>6, <1>7, <1>12
  <2>2. Len(pieces) = Len(p.documents)
    BY <1>1, <1>3, <1>12
  <2>3. CollecteDe(r)'
    BY <1>2, <1>3, <1>6, <1>7, <1>8, <2>1, <2>2 DEF CollecteDe
  <2> QED
    BY <1>5, <1>7, <1>9, <1>10, <2>1, <2>3, DemandeInv
<1> QED
  BY <1>11, <1>12

LEMMA ContinuerInv ==
  ASSUME IInv, NEW r \in Demandes, Continuer(r)
  PROVE  IInv'
<1> USE DEF IInv
<1> DEFINE q == [Vierge EXCEPT !.phase = "echouee"]
<1>1. CASE /\ conversions[demande[r].attend].etat = "resolue"
           /\ Poursuivre(r, Pdf(conversions[demande[r].attend].document))
  BY <1>1, PoursuivreInv DEF Continuer
<1>2. CASE /\ conversions[demande[r].attend].etat = "rejetee"
           /\ demande' = [demande EXCEPT ![r] = q]
           /\ UNCHANGED <<conversions, file>>
  <2>1. q \in Demande /\ q.phase = "echouee"
    BY FinVide DEF Finie
  <2>2. \A k \in Positions : conversions[k].demande = r => EstReglee(k)
    BY <1>2, DemandeurConnu DEF Continuer, UneParDemande, Positions, EstReglee, Conversion
  <2>3. mails[r] = <<>>
    BY ParDemande DEF CollecteDe, Continuer
  <2>4. demande'[r] = q /\ UNCHANGED <<mails, smtp>>
    BY <1>2 DEF Continuer, TypeOK
  <2> HIDE DEF q
  <2>5. CollecteDe(r)' /\ MailDe(r)'
    BY <2>1, <2>3, <2>4 DEF CollecteDe, MailDe
  <2> QED
    BY <1>2, <2>1, <2>2, <2>4, <2>5, DemandeInv
<1> QED
  BY <1>1, <1>2 DEF Continuer

\* A list of attachments that is right, taken by the mail server.
LEMMA PartirTypes ==
  ASSUME TypeOK, NEW r \in Demandes, mails[r] = <<>>
  PROVE  /\ Append(mails[r], demande[r].pieces) \in Seq(Seq(Contenu))
         /\ Len(Append(mails[r], demande[r].pieces)) = 1
         /\ Append(mails[r], demande[r].pieces)[1] = demande[r].pieces
         /\ Append(mails[r], demande[r].pieces) # <<>>
<1>1. demande[r].pieces \in Seq(Contenu)
  BY DEF TypeOK, Demande
<1>2. Append(<<>>, demande[r].pieces) = <<demande[r].pieces>>
  OBVIOUS
<1> QED
  BY <1>1, <1>2

\* Some requests that were sending end, with or without a mail that left.
LEMMA EnvoisInv ==
  ASSUME IInv, TypeOK', Chaine', EnOrdre', UneParDemande',
         \A r \in Demandes :
           \/ demande'[r] = demande[r] /\ mails'[r] = mails[r]
              /\ demande[r].phase # "conversion"
           \/ CollecteDe(r)' /\ MailDe(r)'
           \/ /\ demande[r].phase = "envoi"
              /\ demande'[r].route = demande[r].route
              /\ demande'[r].documents = demande[r].documents
              /\ \/ /\ demande'[r].phase \in {"repondue", "echouee", "perdue"}
                    /\ mails'[r] = Append(mails[r], demande[r].pieces)
                 \/ /\ demande'[r].phase \in {"echouee", "perdue"}
                    /\ mails'[r] = mails[r]
  PROVE  IInv'
<1> USE DEF IInv
<1>1. ASSUME NEW r \in Demandes
      PROVE  CollecteDe(r)' /\ MailDe(r)'
  <2>1. CollecteDe(r) /\ MailDe(r)
    BY ParDemande
  <2>2. CASE demande'[r] = demande[r] /\ mails'[r] = mails[r] /\ demande[r].phase # "conversion"
    BY <2>1, <2>2 DEF CollecteDe, MailDe
  <2>3. CASE demande[r].phase = "envoi" /\ ~ (CollecteDe(r)' /\ MailDe(r)')
             /\ demande'[r] # demande[r]
    <3>1. /\ demande'[r].route = demande[r].route
          /\ demande'[r].documents = demande[r].documents
          /\ \/ /\ demande'[r].phase \in {"repondue", "echouee", "perdue"}
                /\ mails'[r] = Append(mails[r], demande[r].pieces)
             \/ /\ demande'[r].phase \in {"echouee", "perdue"}
                /\ mails'[r] = mails[r]
      BY <2>3
    <3>2. mails[r] = <<>> /\ demande[r].route \in {"envoyer", "mail"}
          /\ Len(demande[r].pieces) = Len(demande[r].documents)
          /\ \A n \in 1 .. Len(demande[r].documents) :
               demande[r].pieces[n] = IF demande[r].route = "mail" THEN demande[r].documents[n]
                                      ELSE Pdf(demande[r].documents[n])
      BY <2>1, <2>3 DEF CollecteDe
    <3>3. CollecteDe(r)'
      BY <3>1 DEF CollecteDe
    <3>4. MailDe(r)'
      <4>1. CASE mails'[r] = mails[r] /\ demande'[r].phase # "repondue"
        BY <3>2, <4>1 DEF MailDe
      <4>2. CASE mails'[r] = Append(mails[r], demande[r].pieces)
        <5>1. /\ Len(mails'[r]) = 1 /\ mails'[r][1] = demande[r].pieces
              /\ mails'[r] # <<>>
          BY <3>2, <4>2, PartirTypes
        <5>2. demande'[r].phase \in {"repondue", "echouee", "perdue"}
          BY <3>1
        <5> QED
          BY <3>1, <3>2, <5>1, <5>2 DEF MailDe
      <4> QED
        BY <3>1, <4>1, <4>2
    <3> QED
      BY <3>3, <3>4
  <2> QED
    BY <2>2, <2>3
<1> QED
  BY <1>1, ParDemandeApres

LEMMA EnvoyerInv ==
  ASSUME IInv, NEW r \in Demandes, Envoyer(r)
  PROVE  IInv'
<1> USE DEF IInv
<1>1. PICK phase \in {"repondue", "echouee"} : demande' = [demande EXCEPT ![r].phase = phase]
  BY DEF Envoyer
<1>2. /\ demande[r].phase = "envoi" /\ demande[r] \in Demande /\ mails[r] = <<>>
      /\ UNCHANGED <<conversions, file, smtp>>
  BY ParDemande DEF Envoyer, TypeOK, CollecteDe
<1>3. /\ [demande[r] EXCEPT !.phase = phase] \in Demande
      /\ \A k \in Demandes : demande'[k] =
           IF k = r THEN [demande[r] EXCEPT !.phase = phase] ELSE demande[k]
  BY <1>1, <1>2 DEF TypeOK, Demande, Finie
<1>4. /\ mails' \in [Demandes -> Seq(Seq(Contenu))]
      /\ \A k \in Demandes \ {r} : mails'[k] = mails[k]
      /\ \/ mails'[r] = Append(mails[r], demande[r].pieces)
         \/ mails'[r] = mails[r] /\ demande'[r].phase = "echouee"
  <2>1. CASE Partir(r)
    <3>1. mails' = [mails EXCEPT ![r] = Append(mails[r], demande[r].pieces)]
      BY <2>1 DEF Partir
    <3> QED
      BY <1>2, <3>1, PartirTypes DEF TypeOK
  <2>2. CASE mails' = mails /\ demande' = [demande EXCEPT ![r].phase = "echouee"]
    BY <1>2, <2>2 DEF TypeOK, Demande
  <2> QED
    BY <2>1, <2>2 DEF Envoyer
<1>5. TypeOK'
  BY <1>1, <1>2, <1>3, <1>4 DEF TypeOK
<1>6. Chaine' /\ EnOrdre' /\ Positions' = Positions
  BY <1>2 DEF Chaine, EnOrdre, Positions, EstReglee
<1>7. UneParDemande'
  <2>1. ASSUME NEW k \in Positions, conversions[k].etat \in {"attente", "lancee"}
        PROVE  demande'[conversions[k].demande] = demande[conversions[k].demande]
    <3>1. conversions[k].demande \in Demandes
          /\ demande[conversions[k].demande].phase = "conversion"
      BY <2>1, DemandeurConnu DEF UneParDemande, Positions
    <3> QED
      BY <1>2, <1>3, <3>1
  <2> QED
    BY <1>2, <2>1 DEF UneParDemande, Positions
<1>8. \A k \in Demandes \ {r} : CollecteDe(k)' /\ MailDe(k)'
  <2>1. \A k \in Demandes \ {r} :
          demande'[k] = demande[k] /\ mails'[k] = mails[k] /\ CollecteDe(k) /\ MailDe(k)
    BY <1>3, <1>4, ParDemande
  <2>2. ASSUME NEW k \in Demandes \ {r}
        PROVE  CollecteDe(k)' /\ MailDe(k)'
    <3>1. demande'[k] = demande[k] /\ mails'[k] = mails[k]
      BY <2>1
    <3>2. CollecteDe(k)'
      BY <1>2, <1>6, <2>1, <3>1 DEF CollecteDe
    <3>3. MailDe(k)'
      BY <2>1, <3>1 DEF MailDe
    <3> QED
      BY <3>2, <3>3
  <2> QED
    BY <2>2
<1>9. demande'[r].route = demande[r].route /\ demande'[r].documents = demande[r].documents
      /\ demande'[r].phase = phase
  BY <1>2, <1>3 DEF Demande
<1> QED
  BY <1>2, <1>4, <1>5, <1>6, <1>7, <1>8, <1>9, EnvoisInv

LEMMA RedemarrerInv ==
  ASSUME IInv, Redemarrer
  PROVE  IInv'
<1> USE DEF IInv
<1>1. PICK partis \in SUBSET {r \in Demandes : demande[r].phase = "envoi"} :
        mails' = [r \in Demandes |->
          IF r \in partis THEN Append(mails[r], demande[r].pieces) ELSE mails[r]]
  BY DEF Redemarrer
<1>2. /\ conversions' = <<>> /\ file' = 0 /\ smtp' \in BOOLEAN /\ Positions' = {}
      /\ Len(conversions') = 0
  BY DEF Redemarrer, Positions
<1>3. \A r \in Demandes :
        /\ demande[r] \in Demande
        /\ demande'[r] = CASE demande[r].phase = "conversion" -> [Vierge EXCEPT !.phase = "perdue"]
                           [] demande[r].phase = "envoi" -> [demande[r] EXCEPT !.phase = "perdue"]
                           [] OTHER -> demande[r]
        /\ mails'[r] = IF r \in partis THEN Append(mails[r], demande[r].pieces) ELSE mails[r]
  BY <1>1 DEF Redemarrer, TypeOK
<1>4. ASSUME NEW r \in Demandes
      PROVE  /\ demande'[r] \in Demande
             /\ mails'[r] \in Seq(Seq(Contenu))
             /\ \/ demande'[r] = demande[r] /\ mails'[r] = mails[r]
                   /\ demande[r].phase # "conversion"
                \/ CollecteDe(r)' /\ MailDe(r)'
                \/ /\ demande[r].phase = "envoi"
                   /\ demande'[r].route = demande[r].route
                   /\ demande'[r].documents = demande[r].documents
                   /\ \/ /\ demande'[r].phase = "perdue"
                         /\ mails'[r] = Append(mails[r], demande[r].pieces)
                      \/ /\ demande'[r].phase = "perdue"
                         /\ mails'[r] = mails[r]
  <2>1. CollecteDe(r) /\ mails[r] \in Seq(Seq(Contenu))
    BY ParDemande DEF TypeOK
  <2>2. CASE demande[r].phase = "conversion"
    <3>1. demande'[r] = [Vierge EXCEPT !.phase = "perdue"] /\ mails'[r] = mails[r]
      BY <1>3, <2>2
    <3>2. demande'[r] \in Demande /\ demande'[r].phase = "perdue"
      BY <3>1, FinVide DEF Finie
    <3>3. mails[r] = <<>>
      BY <2>1, <2>2 DEF CollecteDe
    <3>4. CollecteDe(r)' /\ MailDe(r)'
      BY <3>1, <3>2, <3>3 DEF CollecteDe, MailDe
    <3> QED
      BY <2>1, <3>1, <3>2, <3>4
  <2>3. CASE demande[r].phase = "envoi"
    <3>1. demande'[r] = [demande[r] EXCEPT !.phase = "perdue"]
      BY <1>3, <2>3
    <3>2. /\ demande'[r] \in Demande /\ demande'[r].phase = "perdue"
          /\ demande'[r].route = demande[r].route
          /\ demande'[r].documents = demande[r].documents
      BY <1>3, <3>1 DEF Demande, Finie
    <3>3. mails[r] = <<>>
      BY <2>1, <2>3 DEF CollecteDe
    <3>4. mails'[r] \in Seq(Seq(Contenu))
      BY <1>3, <2>1, <3>3, PartirTypes
    <3> QED
      BY <1>3, <2>3, <3>2, <3>4
  <2>4. CASE demande[r].phase \notin {"conversion", "envoi"}
    BY <1>3, <2>1, <2>4
  <2> QED
    BY <2>2, <2>3, <2>4
<1>5. TypeOK'
  <2>1. demande' \in [Demandes -> Demande]
    BY <1>4 DEF Redemarrer
  <2>2. mails' \in [Demandes -> Seq(Seq(Contenu))]
    BY <1>1, <1>4
  <2>3. conversions' \in Seq(Conversion) /\ file' \in 0 .. Len(conversions')
    BY <1>2
  <2> QED
    BY <1>2, <2>1, <2>2, <2>3 DEF TypeOK
<1>6. Chaine' /\ EnOrdre' /\ UneParDemande'
  BY <1>2 DEF Chaine, EnOrdre, UneParDemande, Positions
<1> QED
  BY <1>4, <1>5, <1>6, EnvoisInv

LEMMA NextInv == IInv /\ [Next]_vars => IInv'
<1> SUFFICES ASSUME IInv, [Next]_vars PROVE IInv'
  OBVIOUS
<1>1. CASE UNCHANGED vars
  <2>1. UNCHANGED <<demande, conversions, file, mails, smtp>>
    BY <1>1 DEF vars
  <2>2. TypeOK' /\ Chaine' /\ EnOrdre' /\ Positions' = Positions
    BY <2>1 DEF IInv, TypeOK, Chaine, EnOrdre, Positions, EstReglee
  <2>3. UneParDemande'
    BY <2>1 DEF IInv, UneParDemande
  <2>4. Collecte' /\ MailFidele'
    BY <2>1, <2>2 DEF IInv, Collecte, MailFidele
  <2> QED
    BY <2>2, <2>3, <2>4 DEF IInv
<1>2. CASE NextService
  BY <1>2, NextServiceInv
<1>3. ASSUME NEW r \in Demandes, NextDemande(r)
      PROVE  IInv'
  BY <1>3, RefuserInv, ConvertirInv, SendMailInv, ContinuerInv, EnvoyerInv DEF NextDemande
<1>4. CASE Redemarrer
  BY <1>4, RedemarrerInv
<1> QED
  BY <1>1, <1>2, <1>3, <1>4 DEF Next

\* The invariant holds in every state of every execution.
THEOREM Invariant == Spec => []IInv
<1> QED
  BY InitInv, NextInv, PTL DEF Spec

\* The types of requests, promises and mails: in particular an attachment always
\* has a content.
THEOREM Typage == Spec => []TypeOK
<1> QED
  BY Invariant, PTL DEF IInv

\* One LibreOffice at a time, though nothing counts them: the chain is enough.
THEOREM Unicite == Spec => []UneALaFois
<1>1. IInv => UneALaFois
  <2> SUFFICES ASSUME IInv, NEW j \in EnCours, NEW k \in EnCours PROVE j = k
    BY DEF UneALaFois
  <2>1. j \in Positions /\ k \in Positions /\ ~ EstReglee(j) /\ ~ EstReglee(k)
        /\ conversions[j].etat # "attente" /\ conversions[k].etat # "attente"
    BY DEF EnCours, Positions, EstReglee
  <2>2. ~ (j < k) /\ ~ (k < j)
    BY <2>1 DEF IInv, EnOrdre
  <2> QED
    BY <2>1, <2>2 DEF Positions
<1> QED
  BY <1>1, Invariant, PTL

\* No request has two conversions in the queue, nor one it does not await.
THEOREM PartEquitable == Spec => []UneParDemande
<1> QED
  BY Invariant, PTL DEF IInv

\* A mail leaves once, whole and in order, whatever fails before or after it.
THEOREM Fidelite == Spec => []MailFidele
<1> QED
  BY Invariant, PTL DEF IInv

-----------------------------------------------------------------------------
(***************************************************************************)
(* The refinement: the chain of promises is a Guichet.                     *)
(***************************************************************************)
Appelees == {k \in 1 .. Len(conversions) : conversions[k].etat # "attente"}

LEMMA AppelerSimule ==
  ASSUME IInv, NEW k \in Positions, LancerConversion(k)
  PROVE  G!Appeler(k)
<1> USE DEF IInv
<1>1. /\ Len(conversions') = Len(conversions) /\ Positions' = Positions
      /\ \A j \in Positions :
           conversions'[j].etat = IF j = k THEN "lancee" ELSE conversions[j].etat
  BY Etat DEF LancerConversion, Positions
<1>2. conversions[k].etat = "attente"
  BY DEF LancerConversion
<1>3. \A j \in Positions : j < k => EstReglee(j)
  <2> SUFFICES ASSUME NEW j \in Positions, j < k PROVE EstReglee(j)
    OBVIOUS
  <2>1. conversions[k].apres = k - 1 /\ k - 1 \in Positions
    BY DEF Chaine, Positions
  <2>2. EstReglee(k - 1)
    BY <2>1 DEF LancerConversion, Reglee, EstReglee, Positions
  <2>3. j = k - 1 \/ j < k - 1
    BY DEF Positions
  <2> QED
    BY <2>1, <2>2, <2>3 DEF EnOrdre, EstReglee
<1>4. \A j \in Positions : k < j => conversions[j].etat = "attente"
  BY <1>2 DEF EnOrdre, EstReglee
<1>5. \A j \in Positions : j # k => conversions[j].etat # "lancee"
  BY <1>3, <1>4 DEF EstReglee, Positions
<1>6. EnCours = {} /\ EnCours' = {k}
  BY <1>1, <1>2, <1>5 DEF EnCours, Positions
<1>7. k \notin Appelees /\ Appelees' = Appelees \cup {k}
      /\ \A m \in 1 .. Len(conversions) : m < k => m \in Appelees
  BY <1>1, <1>2, <1>3 DEF Appelees, Positions, EstReglee
<1> QED
  BY <1>1, <1>6, <1>7 DEF G!Appeler, Appelees

LEMMA ServirSimule ==
  ASSUME IInv, UneALaFois, NEW k \in Positions, TerminerConversion(k)
  PROVE  G!Servir
<1> USE DEF IInv
<1>1. PICK e \in {"resolue", "rejetee"} : Changer(k, e)
  BY DEF TerminerConversion
<1>2. /\ Len(conversions') = Len(conversions) /\ Positions' = Positions
      /\ \A j \in Positions :
           conversions'[j].etat = IF j = k THEN e ELSE conversions[j].etat
  BY <1>1, Etat DEF Positions
<1>3. k \in EnCours
  BY DEF TerminerConversion, EnCours, Positions
<1>4. EnCours' = {}
  BY <1>2, <1>3 DEF EnCours, UneALaFois, Positions
<1>5. Appelees' = Appelees
  BY <1>2, <1>3 DEF Appelees, EnCours, Positions
<1> QED
  BY <1>2, <1>3, <1>4, <1>5 DEF G!Servir, Appelees

LEMMA TirerSimule ==
  ASSUME IInv, NEW r \in Demandes, NEW d \in Fichiers, ConvertirEnPdf(r, d)
  PROVE  G!Tirer
<1> USE DEF IInv
<1> DEFINE n == Len(conversions) + 1
<1>1. /\ Len(conversions') = n /\ Positions' = Positions \cup {n} /\ n \in Nat
      /\ \A k \in Positions : conversions'[k] = conversions[k]
  BY Ajout DEF TypeOK
<1>2. conversions'[n].etat = "attente"
  BY DEF ConvertirEnPdf, TypeOK
<1>3. EnCours' = EnCours /\ Appelees' = Appelees
  BY <1>1, <1>2 DEF EnCours, Appelees, Positions
<1> QED
  BY <1>1, <1>3 DEF G!Tirer, Appelees

\* A handler asks for a conversion or leaves the queue alone.
LEMMA DemandeSimule ==
  ASSUME IInv, NEW r \in Demandes, NextDemande(r)
  PROVE  conversions' = conversions \/ \E d \in Fichiers : ConvertirEnPdf(r, d)
<1> USE DEF IInv
<1>1. ASSUME NEW route \in Routes, NEW documents \in Corps[route], Convertir(r, route, documents)
      PROVE  \E d \in Fichiers : ConvertirEnPdf(r, d)
  <2>1. documents \in Seq(Fichiers) /\ ConvertirEnPdf(r, documents[1])
    BY <1>1, DocumentsAssumption DEF Convertir
  <2>2. Len(documents) >= 1
    <3>1. Len(documents) \in Nat
      BY <2>1
    <3>2. route \in {"pdf", "envoyer"} /\ Recevable(route, documents)
      BY <1>1 DEF Convertir, Routes
    <3>3. CASE route = "pdf"
      BY <3>1, <3>2, <3>3 DEF Recevable
    <3>4. CASE route = "envoyer"
      BY <3>1, <3>2, <3>4, DocumentsAssumption DEF Recevable
    <3> QED
      BY <3>2, <3>3, <3>4
  <2>3. documents[1] \in Fichiers
    BY <2>1, <2>2
  <2> QED
    BY <2>1, <2>3
<1>2. ASSUME NEW contenu, Poursuivre(r, contenu)
      PROVE  conversions' = conversions \/ \E d \in Fichiers : ConvertirEnPdf(r, d)
  <2> DEFINE pieces == Append(demande[r].pieces, contenu)
  <2>1. demande[r].documents \in Seq(Fichiers) /\ demande[r].pieces \in Seq(Contenu)
    BY DEF TypeOK, Demande
  <2>2. CASE Len(pieces) < Len(demande[r].documents)
    <3>1. ConvertirEnPdf(r, demande[r].documents[Len(pieces) + 1])
      BY <1>2, <2>2 DEF Poursuivre
    <3>2. Len(pieces) = Len(demande[r].pieces) + 1
      BY <2>1
    <3>3. demande[r].documents[Len(pieces) + 1] \in Fichiers
      BY <2>1, <2>2, <3>2
    <3> QED
      BY <3>1, <3>3
  <2>3. CASE ~ (Len(pieces) < Len(demande[r].documents))
    BY <1>2, <2>3 DEF Poursuivre
  <2> QED
    BY <2>2, <2>3
<1> QED
  BY <1>1, <1>2 DEF NextDemande, Refuser, SendMail, Continuer, Envoyer

LEMMA EtapeSimule ==
  IInv /\ UneALaFois /\ [Next]_vars => [G!NextGuichet]_(G!guichetVars)
<1> SUFFICES ASSUME IInv, UneALaFois, [Next]_vars
             PROVE  [G!NextGuichet]_(G!guichetVars)
  OBVIOUS
<1>1. CASE conversions' = conversions
  BY <1>1 DEF G!guichetVars, EnCours
<1>2. CASE NextService
  BY <1>2, AppelerSimule, ServirSimule DEF NextService, Positions, G!NextGuichet
<1>3. ASSUME NEW r \in Demandes, NextDemande(r)
      PROVE  [G!NextGuichet]_(G!guichetVars)
  BY <1>1, <1>3, DemandeSimule, TirerSimule DEF G!NextGuichet
<1>4. CASE Redemarrer
  <2>1. conversions' = <<>> /\ Len(conversions') = 0
    BY <1>4 DEF Redemarrer
  <2>2. EnCours' = {} /\ Appelees' = {}
    BY <2>1 DEF EnCours, Appelees
  <2> QED
    BY <2>1, <2>2 DEF G!Fermer, G!NextGuichet, Appelees
<1> QED
  BY <1>1, <1>2, <1>3, <1>4 DEF Next, vars

LEMMA InitSimule == Init => G!InitGuichet
<1> SUFFICES ASSUME Init PROVE G!InitGuichet
  OBVIOUS
<1>1. Len(conversions) = 0
  BY DEF Init
<1> QED
  BY <1>1 DEF G!InitGuichet, EnCours

\* The promises of convertirEnPdf, each chained on the one before, implement a
\* queue served in order, one at a time, that no failure stops.
THEOREM Raffinement == Spec => ServieEnFile
<1> QED
  BY InitSimule, EtapeSimule, Invariant, Unicite, PTL DEF Spec, ServieEnFile, G!SpecGuichet

-----------------------------------------------------------------------------
(***************************************************************************)
(* The queue never gets stuck.                                             *)
(***************************************************************************)
EstEnTete(h) == ~ EstReglee(h) /\ \A j \in Positions : j < h => EstReglee(j)

\* As long as a conversion is not over, one is at the head of the queue.
Tete ==
  \A k \in Positions : ~ EstReglee(k) => \E h \in Positions : h <= k /\ EstEnTete(h)

\* A handler that awaits a conversion can go on, or a conversion that is not
\* behind the one it awaits can be started or is running.
JamaisBloquee ==
  \A r \in Demandes : demande[r].phase = "conversion" =>
    LET k == demande[r].attend IN
    \/ conversions[k].etat \in {"resolue", "rejetee"}
    \/ \E h \in 1 .. k :
         \/ conversions[h].etat = "lancee"
         \/ conversions[h].etat = "attente" /\ Reglee(conversions[h].apres)

\* When the head is over, the next one is the head: it was not started yet.
LEMMA TeteTerminee ==
  ASSUME IInv, Tete, NEW k \in Positions, TerminerConversion(k)
  PROVE  Tete'
<1> USE DEF IInv
<1>1. PICK e \in {"resolue", "rejetee"} : Changer(k, e)
  BY DEF TerminerConversion
<1>2. /\ Positions' = Positions
      /\ \A j \in Positions : conversions'[j].etat = IF j = k THEN e ELSE conversions[j].etat
  BY <1>1, Etat DEF Positions
<1>3. conversions[k].etat = "lancee" /\ ~ EstReglee(k)
  BY DEF TerminerConversion, EstReglee
<1>4. \A j \in Positions : EstReglee(j)' <=> EstReglee(j) \/ j = k
  BY <1>2 DEF EstReglee
<1>5. \A j \in Positions : j < k => EstReglee(j)
  BY <1>3 DEF EnOrdre
<1> SUFFICES ASSUME NEW i \in Positions, ~ EstReglee(i)'
             PROVE  \E h \in Positions : h <= i /\ EstEnTete(h)'
  BY <1>2 DEF Tete
<1>6. ~ EstReglee(i) /\ i # k
  BY <1>4
<1>7. k < i
  BY <1>5, <1>6 DEF Positions
<1>8. k + 1 \in Positions /\ k + 1 <= i
  BY <1>7 DEF Positions
<1>9. ~ EstReglee(k + 1)
  <2>1. conversions[k + 1].etat = "attente"
    BY <1>3, <1>8 DEF EnOrdre, Positions
  <2> QED
    BY <2>1 DEF EstReglee
<1>10. \A j \in Positions : j < k + 1 => EstReglee(j) \/ j = k
  BY <1>5 DEF Positions
<1>11. ~ EstReglee(k + 1)' /\ \A j \in Positions : j < k + 1 => EstReglee(j)'
  BY <1>4, <1>8, <1>9, <1>10 DEF Positions
<1> QED
  BY <1>2, <1>8, <1>11 DEF EstEnTete

LEMMA TeteLancee ==
  ASSUME IInv, Tete, NEW k \in Positions, LancerConversion(k)
  PROVE  Tete'
<1>1. /\ Positions' = Positions
      /\ \A j \in Positions :
           conversions'[j].etat = IF j = k THEN "lancee" ELSE conversions[j].etat
  BY Etat DEF LancerConversion, Positions, IInv
<1>2. \A j \in Positions : EstReglee(j)' <=> EstReglee(j)
  BY <1>1 DEF LancerConversion, EstReglee
<1>3. \A j \in Positions : EstEnTete(j)' <=> EstEnTete(j)
  BY <1>1, <1>2 DEF EstEnTete
<1> QED
  BY <1>1, <1>2, <1>3 DEF Tete

LEMMA TeteAjoutee ==
  ASSUME IInv, Tete, NEW r \in Demandes, NEW d \in Fichiers, ConvertirEnPdf(r, d)
  PROVE  Tete'
<1>0. PICK n \in Nat : n = Len(conversions) + 1
  BY DEF IInv, TypeOK
<1>1. /\ Positions' = Positions \cup {n} /\ n \in Nat
      /\ \A k \in Positions : conversions'[k] = conversions[k] /\ k < n
  BY <1>0, Ajout DEF IInv, TypeOK, Positions
<1>2. conversions'[n].etat = "attente"
  BY <1>0 DEF ConvertirEnPdf, IInv, TypeOK
<1>3. \A j \in Positions : EstReglee(j)' <=> EstReglee(j)
  BY <1>1 DEF EstReglee
<1>4. ~ EstReglee(n)'
  BY <1>2 DEF EstReglee
<1>5. \A h \in Positions : EstEnTete(h) => EstEnTete(h)'
  <2> SUFFICES ASSUME NEW h \in Positions, EstEnTete(h), NEW j \in Positions', j < h
               PROVE  EstReglee(j)'
    BY <1>3 DEF EstEnTete
  <2>1. j \in Positions
    BY <1>1 DEF Positions
  <2> QED
    BY <1>3, <2>1 DEF EstEnTete
<1> SUFFICES ASSUME NEW i \in Positions', ~ EstReglee(i)'
             PROVE  \E h \in Positions' : h <= i /\ EstEnTete(h)'
  BY DEF Tete
<1>6. CASE i \in Positions
  BY <1>1, <1>3, <1>5, <1>6 DEF Tete
<1>7. CASE i = n /\ \A j \in Positions : EstReglee(j)
  <2>1. \A j \in Positions' : j < n => EstReglee(j)'
    BY <1>1, <1>3, <1>7
  <2>2. n \in Positions' /\ EstEnTete(n)'
    BY <1>1, <1>4, <2>1 DEF EstEnTete
  <2> QED
    BY <1>7, <2>2
<1>8. ASSUME i = n, NEW j \in Positions, ~ EstReglee(j)
      PROVE  \E h \in Positions' : h <= i /\ EstEnTete(h)'
  <2>1. PICK h \in Positions : h <= j /\ EstEnTete(h)
    BY <1>8 DEF Tete
  <2>2. h <= n
    BY <1>1, <2>1 DEF Positions
  <2> QED
    BY <1>1, <1>5, <1>8, <2>1, <2>2
<1> QED
  BY <1>1, <1>6, <1>7, <1>8

LEMMA TetePas == IInv /\ Tete /\ [Next]_vars => Tete'
<1> SUFFICES ASSUME IInv, Tete, [Next]_vars PROVE Tete'
  OBVIOUS
<1>1. CASE conversions' = conversions
  BY <1>1 DEF Tete, EstEnTete, EstReglee, Positions
<1>2. CASE NextService
  BY <1>2, TeteLancee, TeteTerminee DEF NextService, Positions
<1>3. ASSUME NEW r \in Demandes, NextDemande(r)
      PROVE  Tete'
  BY <1>1, <1>3, DemandeSimule, TeteAjoutee
<1>4. CASE Redemarrer
  <2>1. Positions' = {}
    BY <1>4 DEF Redemarrer, Positions
  <2> QED
    BY <2>1 DEF Tete
<1> QED
  BY <1>1, <1>2, <1>3, <1>4 DEF Next, vars

\* Nobody waits for a conversion that waits for ever: whatever failed in the
\* queue, the guards of the service or of the handler let something go on.
THEOREM SansBlocage == Spec => []JamaisBloquee
<1>1. Init => Tete
  <2>1. ASSUME Init PROVE Positions = {}
    BY <2>1 DEF Init, Positions
  <2> QED
    BY <2>1 DEF Tete
<1>2. IInv /\ Tete => JamaisBloquee
  <2> SUFFICES ASSUME IInv, Tete, NEW r \in Demandes, demande[r].phase = "conversion",
                      ~ EstReglee(demande[r].attend)
               PROVE  \E h \in 1 .. demande[r].attend :
                        \/ conversions[h].etat = "lancee"
                        \/ conversions[h].etat = "attente" /\ Reglee(conversions[h].apres)
    BY DEF JamaisBloquee, EstReglee
  <2>1. demande[r].attend \in Positions
    BY DEF IInv, Collecte
  <2>2. PICK h \in Positions : h <= demande[r].attend /\ EstEnTete(h)
    BY <2>1 DEF Tete
  <2>3. h \in 1 .. demande[r].attend
    BY <2>1, <2>2 DEF Positions
  <2>4. conversions[h].etat \in {"attente", "lancee"}
    <3>1. conversions[h] \in Conversion
      BY <2>2 DEF IInv, TypeOK, Positions
    <3> QED
      BY <2>2, <3>1 DEF Conversion, EstEnTete, EstReglee
  <2>5. conversions[h].apres = h - 1
    BY <2>2 DEF IInv, Chaine
  <2>6. Reglee(h - 1)
    <3>1. h - 1 = 0 \/ h - 1 \in Positions
      BY <2>2 DEF Positions
    <3>2. h - 1 \in Positions => EstReglee(h - 1)
      BY <2>2 DEF EstEnTete, Positions
    <3> QED
      BY <3>1, <3>2 DEF Reglee, EstReglee
  <2> QED
    BY <2>3, <2>4, <2>5, <2>6
<1> QED
  BY <1>1, <1>2, TetePas, Invariant, PTL DEF Spec
=============================================================================
