---------------------------- MODULE MCTableSync -----------------------------
(***************************************************************************)
(* TableSync for TLC: two programs with two versions of one struct that    *)
(* disagree on the type of a column, a third whose key is marked by its    *)
(* value, a fourth whose value has no fields, and a database that starts   *)
(* empty, with the table of the first version, or with a table that has no *)
(* key.                                                                    *)
(***************************************************************************)
EXTENDS TableSync

F(name, value) == [name |-> name, value |-> value]

MCProcs == {"p1", "p2", "p3", "p4"}
MCFields ==
    [p \in MCProcs |->
        CASE p = "p1" -> <<F("id", Val("I64")), F("a", Val("I32"))>>
          [] p = "p2" -> <<F("id", Val("I64")), F("a", Str("x")),
                           F("b", Ext("Timestamp", Val("I64")))>>
          [] p = "p3" -> <<F("k", Str("id"))>>
          [] p = "p4" -> <<>>]
MCTables0 == {NoTable, Columns(MCFields["p1"]), {Column(F("a", Val("I32")))}}

=============================================================================
