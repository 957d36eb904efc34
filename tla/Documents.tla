------------------------------- MODULE Documents -------------------------------
(***************************************************************************)
(* The letters that leave: POST /documents/pdf, POST /documents/envoyer    *)
(* and POST /mail/send.  Conversions are chained on one promise of         *)
(* DocumentsService, which stands for a queue; LibreOffice and the mail    *)
(* server may fail, the process may stop.                                  *)
(* A client that leaves, or a gateway that answers 504 in its place,       *)
(* changes nothing for a handler: there is no action for it.               *)
(***************************************************************************)
EXTENDS Naturals, Sequences, FiniteSets

CONSTANTS
  Demandes,       \* requests
  Corps,          \* the lists of documents requests carry, by route
  Docx,           \* the documents that are Word documents
  Fichiers,       \* all documents
  MaxDocuments,   \* MAX_DOCUMENTS, and the bound of the DTO of /mail/send
  Nul             \* a content that is not there

Routes == {"pdf", "envoyer", "mail"}

ASSUME DocumentsAssumption ==
  /\ MaxDocuments \in Nat \ {0}
  /\ Docx \subseteq Fichiers
  /\ Corps \in [Routes -> SUBSET Seq(Fichiers)]

VARIABLES
  demande,       \* where the handler of each request is
  conversions,   \* the promises convertirEnPdf made, in the order of its calls
  file,          \* DocumentsService.file: the conversion it settles with, 0: resolved
  mails,         \* for each request, the lists of attachments the mail server took
  smtp           \* the process has a MAIL_HOST

vars == <<demande, conversions, file, mails, smtp>>

EnVie == {"conversion", "envoi"}
Finie == {"repondue", "echouee", "refusee", "perdue"}

\* What an attachment contains: a document as it came, or its conversion.
Pdf(d) == [pdf |-> d]
Contenu == {Pdf(d) : d \in Fichiers} \cup Fichiers

\* attend is the conversion the handler awaits, pieces what it has collected.
Demande ==
  [route : Routes \cup {Nul}, documents : Seq(Fichiers),
   phase : {"vierge"} \cup EnVie \cup Finie,
   attend : Nat, pieces : Seq(Contenu)]

\* apres is what this.file was when the call was made.
Conversion ==
  [demande : Demandes, document : Fichiers, apres : Nat,
   etat : {"attente", "lancee", "resolue", "rejetee"}]

TypeOK ==
  /\ demande \in [Demandes -> Demande]
  /\ conversions \in Seq(Conversion)
  /\ file \in 0 .. Len(conversions)
  /\ mails \in [Demandes -> Seq(Seq(Contenu))]
  /\ smtp \in BOOLEAN

Vierge ==
  [route |-> Nul, documents |-> <<>>, phase |-> "vierge", attend |-> 0, pieces |-> <<>>]

Init ==
  /\ demande = [r \in Demandes |-> Vierge]
  /\ conversions = <<>>
  /\ file = 0
  /\ mails = [r \in Demandes |-> <<>>]
  /\ smtp \in BOOLEAN

-----------------------------------------------------------------------------
(***************************************************************************)
(* DocumentsService: this.file.then(...), and this.file = conversion.catch *)
(***************************************************************************)
\* Mutant: this.file is not replaced.
ConvertirSansEnchainer(r, d) ==
  /\ conversions' = Append(conversions,
       [demande |-> r, document |-> d, apres |-> file, etat |-> "attente"])
  /\ UNCHANGED file

ConvertirEnPdf(r, d) ==
  /\ conversions' = Append(conversions,
       [demande |-> r, document |-> d, apres |-> file, etat |-> "attente"])
  /\ file' = Len(conversions) + 1

\* Mutant: no catch, what is chained on a failure never runs.
ReussieSeulement(k) == k # 0 => conversions[k].etat = "resolue"

\* The promise of the queue is resolved when the conversion is over, either way.
Reglee(k) == k # 0 => conversions[k].etat \in {"resolue", "rejetee"}

Changer(k, etat) == conversions' = [conversions EXCEPT ![k].etat = etat]

\* Mutant: any waiting conversion may start when nothing runs.
LancerSansOrdre(k) ==
  /\ conversions[k].etat = "attente"
  /\ \A j \in 1 .. Len(conversions) : conversions[j].etat # "lancee"
  /\ Changer(k, "lancee")
  /\ UNCHANGED <<demande, file, mails, smtp>>

LancerConversion(k) ==
  /\ conversions[k].etat = "attente"
  /\ Reglee(conversions[k].apres)
  /\ Changer(k, "lancee")
  /\ UNCHANGED <<demande, file, mails, smtp>>

\* soffice ends: with a PDF, or with an error.
TerminerConversion(k) ==
  /\ conversions[k].etat = "lancee"
  /\ \E etat \in {"resolue", "rejetee"} : Changer(k, etat)
  /\ UNCHANGED <<demande, file, mails, smtp>>

-----------------------------------------------------------------------------
(***************************************************************************)
(* The handlers.                                                           *)
(***************************************************************************)
\* What is checked before anything is done; the answer is 400 otherwise.
Recevable(route, documents) ==
  CASE route = "pdf"     -> Len(documents) = 1 /\ documents[1] \in Docx
    [] route = "envoyer" -> /\ Len(documents) \in 1 .. MaxDocuments
                            /\ \A n \in 1 .. Len(documents) : documents[n] \in Docx
    [] route = "mail"    -> Len(documents) <= MaxDocuments

Refuser(r, route, documents) ==
  /\ demande[r].phase = "vierge"
  /\ ~ Recevable(route, documents)
  /\ demande' = [demande EXCEPT ![r].phase = "refusee"]
  /\ UNCHANGED <<conversions, file, mails, smtp>>

\* POST /documents/pdf and /documents/envoyer ask for a first conversion.
Convertir(r, route, documents) ==
  /\ demande[r].phase = "vierge"
  /\ route # "mail"
  /\ Recevable(route, documents)
  /\ demande' = [demande EXCEPT ![r] =
       [route |-> route, documents |-> documents, phase |-> "conversion",
        attend |-> Len(conversions) + 1, pieces |-> <<>>]]
  /\ ConvertirEnPdf(r, documents[1])
  /\ UNCHANGED <<mails, smtp>>

\* Without a mail server a mail fails before it is sent.
GetTransporter == IF smtp THEN "envoi" ELSE "echouee"

\* POST /mail/send has its attachments ready.
SendMail(r, documents) ==
  /\ demande[r].phase = "vierge"
  /\ Recevable("mail", documents)
  /\ demande' = [demande EXCEPT ![r] =
       [route |-> "mail", documents |-> documents,
        phase |-> GetTransporter,
        attend |-> 0, pieces |-> documents]]
  /\ UNCHANGED <<conversions, file, mails, smtp>>

\* The PDF of the awaited conversion joins the others; then the next document is
\* converted, or the answer given, or the mail composed: that is where a missing
\* mail server shows, minutes after the request.
Poursuivre(r, contenu) ==
  LET q == demande[r]
      pieces == Append(q.pieces, contenu)
      encore == Len(pieces) < Len(q.documents)
  IN
  /\ demande' = [demande EXCEPT ![r] =
       [q EXCEPT !.pieces = pieces,
                 !.attend = IF encore THEN Len(conversions) + 1 ELSE 0,
                 !.phase = IF encore THEN "conversion"
                           ELSE IF q.route = "pdf" THEN "repondue" ELSE GetTransporter]]
  /\ IF encore THEN ConvertirEnPdf(r, q.documents[Len(pieces) + 1])
               ELSE UNCHANGED <<conversions, file>>

\* Mutant: await is missing, the promise itself is taken for its result.
ContinuerSansAttendre(r) ==
  /\ demande[r].phase = "conversion"
  /\ Poursuivre(r, Pdf(conversions[demande[r].attend].document))
  /\ UNCHANGED <<mails, smtp>>

\* Mutant: the error is logged and swallowed, the content stays undefined.
ContinuerApresEchec(r) ==
  /\ demande[r].phase = "conversion"
  /\ Reglee(demande[r].attend)
  /\ LET k == demande[r].attend IN
     Poursuivre(r, IF conversions[k].etat = "rejetee" THEN Nul ELSE Pdf(conversions[k].document))
  /\ UNCHANGED <<mails, smtp>>

\* The handler resumes when the conversion it awaits is over; a failure is a 500.
Continuer(r) ==
  /\ demande[r].phase = "conversion"
  /\ LET k == demande[r].attend IN
     \/ /\ conversions[k].etat = "resolue"
        /\ Poursuivre(r, Pdf(conversions[k].document))
     \/ /\ conversions[k].etat = "rejetee"
        /\ demande' = [demande EXCEPT ![r] = [Vierge EXCEPT !.phase = "echouee"]]
        /\ UNCHANGED <<conversions, file>>
  /\ UNCHANGED <<mails, smtp>>

Partir(r) == mails' = [mails EXCEPT ![r] = Append(mails[r], demande[r].pieces)]

\* Mutant: a failed delivery is tried again.
EnvoyerEnReessayant(r) ==
  /\ demande[r].phase = "envoi"
  /\ Partir(r)
  /\ \E phase \in {"envoi", "repondue"} : demande' = [demande EXCEPT ![r].phase = phase]
  /\ UNCHANGED <<conversions, file, smtp>>

\* sendMail: the server takes the mail or does not; when its acknowledgement is
\* lost the handler reports a failure for a mail that left.
Envoyer(r) ==
  /\ demande[r].phase = "envoi"
  /\ \/ /\ Partir(r)
        /\ \E phase \in {"repondue", "echouee"} :
             demande' = [demande EXCEPT ![r].phase = phase]
     \/ /\ demande' = [demande EXCEPT ![r].phase = "echouee"]
        /\ UNCHANGED mails
  /\ UNCHANGED <<conversions, file, smtp>>

\* The process stops, with everything it had in memory; a mail on its way may
\* have left.  It starts again with the environment of the moment.
Redemarrer ==
  /\ demande' = [r \in Demandes |->
       CASE demande[r].phase = "conversion" -> [Vierge EXCEPT !.phase = "perdue"]
         [] demande[r].phase = "envoi"      -> [demande[r] EXCEPT !.phase = "perdue"]
         [] OTHER                           -> demande[r]]
  /\ conversions' = <<>>
  /\ file' = 0
  /\ \E partis \in SUBSET {r \in Demandes : demande[r].phase = "envoi"} :
       mails' = [r \in Demandes |->
         IF r \in partis THEN Append(mails[r], demande[r].pieces) ELSE mails[r]]
  /\ smtp' \in BOOLEAN

NextService ==
  \E k \in 1 .. Len(conversions) : LancerConversion(k) \/ TerminerConversion(k)

NextDemande(r) ==
  \/ \E route \in Routes : \E documents \in Corps[route] :
       Refuser(r, route, documents) \/ Convertir(r, route, documents)
  \/ \E documents \in Corps["mail"] : SendMail(r, documents)
  \/ Continuer(r)
  \/ Envoyer(r)

Next == NextService \/ (\E r \in Demandes : NextDemande(r)) \/ Redemarrer

Spec == Init /\ [][Next]_vars

\* A promise that can settle does, soffice ends, the mail server answers or the
\* connection times out.
Equite ==
  /\ WF_vars(NextService)
  /\ \A r \in Demandes : WF_vars(Continuer(r)) /\ WF_vars(Envoyer(r))

SpecEquitable == Spec /\ Equite

-----------------------------------------------------------------------------
(***************************************************************************)
(* Properties.                                                             *)
(***************************************************************************)
EnCours == {k \in 1 .. Len(conversions) : conversions[k].etat = "lancee"}

\* Two LibreOffice at the same time would exceed the memory of the container.
UneALaFois == \A j, k \in EnCours : j = k

\* The chain of promises is a queue: conversions start in the order they were
\* asked for, one at a time, and a failed one neither drops nor fails those behind.
G == INSTANCE Guichet WITH
       tires <- Len(conversions),
       appeles <- {k \in 1 .. Len(conversions) : conversions[k].etat # "attente"},
       enCours <- EnCours

ServieEnFile == G!SpecGuichet

\* A request of twelve documents does not hold the queue: it never has more than
\* one conversion in it, and the one it has is the one it awaits.
UneParDemande ==
  \A k \in 1 .. Len(conversions) : conversions[k].etat \in {"attente", "lancee"} =>
    LET q == demande[conversions[k].demande] IN q.phase = "conversion" /\ q.attend = k

\* A request sends at most one mail, with all its documents, converted and in
\* their order, and none when it was refused; its success means that the mail left.
MailFidele ==
  \A r \in Demandes :
    LET q == demande[r] IN
    /\ Len(mails[r]) <= 1
    /\ mails[r] # <<>> =>
         /\ q.route \in {"envoyer", "mail"}
         /\ q.phase \in {"repondue", "echouee", "perdue"}
         /\ Len(mails[r][1]) = Len(q.documents)
         /\ \A n \in 1 .. Len(q.documents) :
              mails[r][1][n] = IF q.route = "mail" THEN q.documents[n] ELSE Pdf(q.documents[n])
    /\ q.phase = "repondue" /\ q.route # "pdf" => mails[r] # <<>>

\* Whatever fails before it in the queue, a request that was accepted ends, unless
\* the process stops under it.
TouteDemandeAboutit ==
  \A r \in Demandes : demande[r].phase \in EnVie ~> demande[r].phase \in Finie
=============================================================================
