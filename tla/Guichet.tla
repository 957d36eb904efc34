-------------------------------- MODULE Guichet --------------------------------
(***************************************************************************)
(* A counter with one clerk: tickets are drawn, called in the order they   *)
(* were drawn, one at a time, and each is served once.  Closing the        *)
(* counter sends everybody away.                                           *)
(***************************************************************************)
EXTENDS Naturals

VARIABLES
  tires,     \* the number of tickets drawn
  appeles,   \* the tickets that were called
  enCours    \* those being served

guichetVars == <<tires, appeles, enCours>>

InitGuichet == tires = 0 /\ appeles = {} /\ enCours = {}

Tirer ==
  /\ tires' = tires + 1
  /\ UNCHANGED <<appeles, enCours>>

Appeler(n) ==
  /\ enCours = {}
  /\ n \notin appeles
  /\ \A m \in 1 .. tires : m < n => m \in appeles
  /\ appeles' = appeles \cup {n}
  /\ enCours' = {n}
  /\ UNCHANGED tires

Servir ==
  /\ enCours # {}
  /\ enCours' = {}
  /\ UNCHANGED <<tires, appeles>>

Fermer == tires' = 0 /\ appeles' = {} /\ enCours' = {}

NextGuichet == Tirer \/ (\E n \in 1 .. tires : Appeler(n)) \/ Servir \/ Fermer

SpecGuichet == InitGuichet /\ [][NextGuichet]_guichetVars
=============================================================================
