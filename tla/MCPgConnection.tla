--------------------------- MODULE MCPgConnection ---------------------------
(***************************************************************************)
(* PgConnection for TLC: two parameterised statements competing for a      *)
(* cache of one entry, so that every miss after the first evicts.          *)
(***************************************************************************)
EXTENDS PgConnection

MCSqls == {"s1", "s2"}

=============================================================================
