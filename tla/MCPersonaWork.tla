---------------------------- MODULE MCPersonaWork ---------------------------
(***************************************************************************)
(* Small instances of PersonaWork, with the participants of MCService.     *)
(***************************************************************************)
EXTENDS PersonaWork, MCService

WorkSymmetry == Permutations(Requests) \cup Permutations(PersonaAskers)
=============================================================================
