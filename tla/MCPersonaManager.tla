-------------------------- MODULE MCPersonaManager --------------------------
(***************************************************************************)
(* Small instances of PersonaManager.                                      *)
(***************************************************************************)
EXTENDS PersonaManager
=============================================================================
