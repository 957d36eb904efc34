----------------------------- MODULE MCDocuments -----------------------------
(***************************************************************************)
(* Two Word documents and one that is not; two per request at most.        *)
(***************************************************************************)
EXTENDS Documents

CONSTANTS a, b, p

MCCorps ==
  [route \in Routes |->
     CASE route = "pdf"     -> {<<a>>, <<p>>}
       [] route = "envoyer" -> {<<>>, <<a, b>>, <<b, p>>, <<a, b, a>>}
       [] route = "mail"    -> {<<p>>, <<p, p, p>>}]
=============================================================================
