-------------------------- MODULE MCChatCompletion --------------------------
(***************************************************************************)
(* Small instances of ChatCompletion.                                      *)
(***************************************************************************)
EXTENDS ChatCompletion, TLC

TurnSymmetry == Permutations(Turns)
=============================================================================
