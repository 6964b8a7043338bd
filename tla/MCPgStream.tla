----------------------------- MODULE MCPgStream -----------------------------
(***************************************************************************)
(* Small instances of PgStream.                                            *)
(***************************************************************************)
EXTENDS PgStream, MCPgRedis
=============================================================================
