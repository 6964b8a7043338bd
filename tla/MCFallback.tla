----------------------------- MODULE MCFallback -----------------------------
(***************************************************************************)
(* Small instances of Fallback, with the participants of MCService.        *)
(***************************************************************************)
EXTENDS Fallback, MCService
=============================================================================
