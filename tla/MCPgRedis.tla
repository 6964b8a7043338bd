------------------------------ MODULE MCPgRedis -----------------------------
(***************************************************************************)
(* Small instances of PgRedis.                                             *)
(***************************************************************************)
EXTENDS PgRedis, TLC

PodSymmetry == Permutations(Pods)
=============================================================================
