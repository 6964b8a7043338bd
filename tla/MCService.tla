----------------------------- MODULE MCService -----------------------------
(***************************************************************************)
(* Small instances of Service.  A configuration names the sessions of each *)
(* kind of participant; everything else about them follows.                *)
(***************************************************************************)
EXTENDS Service, TLC

CONSTANTS
  uAnn, uBob,         \* the registered accounts
  AnnSessions,        \* sessions logged in as uAnn
  BobSessions,        \* sessions logged in as uBob
  GuestSessions,      \* anonymous people
  PersonaResponders   \* personas that answer (those that ask: PersonaAskers)

MCUsers == (IF AnnSessions = {} THEN {} ELSE {uAnn}) \cup (IF BobSessions = {} THEN {} ELSE {uBob})
MCSessions ==
  AnnSessions \cup BobSessions \cup GuestSessions \cup PersonaResponders
    \cup PersonaAskers
MCUserOf ==
  [s \in MCSessions |-> CASE s \in AnnSessions -> uAnn
                          [] s \in BobSessions -> uBob
                          [] OTHER -> NoUser]
MCKindOf ==
  [s \in MCSessions |->
     IF s \in PersonaResponders \cup PersonaAskers THEN "ai_persona" ELSE "human"]

RequestSymmetry == Permutations(Requests)
=============================================================================
