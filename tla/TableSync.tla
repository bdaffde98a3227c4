----------------------------- MODULE TableSync ------------------------------
(***************************************************************************)
(* SqliteTableSync::sync of src/src/plugin/table_sync/sqlite_table_sync.rs *)
(* run by several programs against one SQLite database: CREATE TABLE, and  *)
(* when the table already exists one ALTER TABLE ADD per field, where      *)
(* "duplicate column" is taken for success.  Every exec is an await, so    *)
(* the other programs run between any two statements.                      *)
(***************************************************************************)
EXTENDS Naturals, Sequences, FiniteSets, SequencesExt

CONSTANTS
    Procs,      \* the programs that call sync, each on its own connection
    Fields,     \* Fields[p]: the table value's entries, [name, value], in order
    Tables0,    \* the tables the database may hold at the start
    NoTable

ASSUME \A p \in Procs : IsInjective([i \in DOMAIN Fields[p] |-> Fields[p][i].name])

VARIABLES
    table,      \* the table: NoTable, or its columns, [name, type]
    pc,         \* pc[p]: "idle", "create", "alter", "done"
    at,         \* at[p]: the field the ALTER loop has reached
    res,        \* res[p]: "-", "ok", or the error: "not_struct", "db", "io"
    once        \* history: sync has answered p with Ok before

vars == <<table, pc, at, res, once>>

\* rbs::Value by its variant: a string, an extension type around a value,
\* any other variant.
Str(s) == [tag |-> "String", str |-> s]
Ext(t, v) == [tag |-> "Ext", t |-> t, of |-> v]
Val(tag) == [tag |-> tag]
Map == Val("Map")
Values == {Map, Val("Null"), Ext("T", Map), Ext("T", Str("t")), Ext("T", Ext("T", Map))}

SqlTypes == {"NULL", "BOOLEAN", "INTEGER", "INT8", "DOUBLE", "TEXT", "BLOB", "NUMERIC"}

\* Seeded fault: a variant without an arm of its own gets no type at all.
TypeStrPartial(v) ==
    CASE v.tag \in {"I32", "U32"} -> "INTEGER"
      [] v.tag = "String" -> "TEXT"
      [] OTHER -> ""

\* The column type of a value.
type_str(v) ==
    CASE v.tag = "Bool" -> "BOOLEAN"
      [] v.tag \in {"I32", "U32"} -> "INTEGER"
      [] v.tag \in {"I64", "U64"} -> "INT8"
      [] v.tag \in {"F32", "F64"} -> "DOUBLE"
      [] v.tag = "String" -> "TEXT"
      [] v.tag = "Binary" -> "BLOB"
      [] v.tag = "Ext" /\ v.t \in {"Date", "DateTime", "Time", "Uuid"} -> "TEXT"
      [] v.tag = "Ext" /\ v.t = "Timestamp" -> "INT8"
      [] v.tag = "Ext" /\ v.t = "Decimal" -> "NUMERIC"
      [] v.tag = "Ext" /\ v.t = "Json" -> "BLOB"
      [] OTHER -> "NULL"

\* Value::Ext(_, m) => self.sync(rb, *m, name)
RECURSIVE Unwrap(_)
Unwrap(v) == IF v.tag = "Ext" THEN Unwrap(v.of) ELSE v

\* k.eq("id") || v.as_str().unwrap_or_default() == "id"
IsId(f) == f.name = "id" \/ f.value = Str("id")
Column(f) == [name |-> f.name, type |-> type_str(f.value)]
Columns(fs) == {Column(fs[i]) : i \in DOMAIN fs}
Keys(fs) == {fs[i].name : i \in {j \in DOMAIN fs : IsId(fs[j])}}
Has(name) == \E c \in table : c.name = name

Return(p, r) ==
    /\ pc' = [pc EXCEPT ![p] = "done"]
    /\ res' = [res EXCEPT ![p] = r]
    /\ once' = [once EXCEPT ![p] = @ \/ r = "ok"]
Goto(p, l) == pc' = [pc EXCEPT ![p] = l] /\ UNCHANGED <<res, once>>

Sync(p, v) ==
    /\ pc[p] = "idle"
    /\ IF Unwrap(v) = Map
       THEN Goto(p, "create")
       ELSE Return(p, "not_struct")
    /\ UNCHANGED <<table, at>>

\* The program runs again and calls sync once more.
Again(p) ==
    /\ pc[p] = "done"
    /\ pc' = [pc EXCEPT ![p] = "idle"]
    /\ res' = [res EXCEPT ![p] = "-"]
    /\ UNCHANGED <<table, at, once>>

\* SQLite creates a table that has a column and at most one primary key.
Creatable(fs) == fs # <<>> /\ Cardinality(Keys(fs)) <= 1

\* Seeded fault: a table that already exists is taken for a table in sync.
CreateTrustsExisting(p) ==
    /\ pc[p] = "create"
    /\ \/ table # NoTable /\ Return(p, "ok") /\ UNCHANGED table
       \/ /\ table = NoTable /\ Creatable(Fields[p])
          /\ table' = Columns(Fields[p])
          /\ Return(p, "ok")
    /\ UNCHANGED at

\* rb.exec(&sql_create): Ok; "already exists" and on to the ALTER loop, which
\* is over at once for a value without fields; any other error.  SQLite
\* looks the table up when it has read its name, before the column list: a
\* table that exists is reported also for `CREATE TABLE t ();`, the empty
\* list only for a table that does not exist.
Create(p) ==
    /\ pc[p] = "create"
    /\ \/ /\ table # NoTable
          /\ IF Fields[p] = <<>>
             THEN Return(p, "ok") /\ UNCHANGED at
             ELSE Goto(p, "alter") /\ at' = [at EXCEPT ![p] = 1]
          /\ UNCHANGED table
       \/ /\ table = NoTable /\ Creatable(Fields[p])
          /\ table' = Columns(Fields[p])
          /\ Return(p, "ok") /\ UNCHANGED at
       \/ /\ table = NoTable /\ ~Creatable(Fields[p])
          /\ Return(p, "db") /\ UNCHANGED <<table, at>>
       \/ Return(p, "io") /\ UNCHANGED <<table, at>>

\* The for loop goes to its next field, or return Ok(()) after the last.
Continue(p) ==
    IF at[p] = Len(Fields[p])
    THEN Return(p, "ok") /\ UNCHANGED at
    ELSE at' = [at EXCEPT ![p] = @ + 1] /\ UNCHANGED <<pc, res, once>>

\* Seeded fault: "duplicate column" is an error like any other.
AlterRefusesDuplicate(p) ==
    /\ pc[p] = "alter"
    /\ LET f == Fields[p][at[p]] IN
         \/ /\ ~Has(f.name) /\ ~IsId(f)
            /\ table' = table \cup {Column(f)}
            /\ Continue(p)
         \/ /\ Has(f.name) \/ IsId(f)
            /\ Return(p, "db") /\ UNCHANGED <<table, at>>
         \/ Return(p, "io") /\ UNCHANGED <<table, at>>

\* rb.exec("alter table .. add ..") for one field: Ok, "duplicate column"
\* and continue, or any other error: SQLite's refusal to add a primary key
\* to a table that exists ("db"), or a failure of the exec itself ("io").
Alter(p) ==
    /\ pc[p] = "alter"
    /\ LET f == Fields[p][at[p]] IN
         \/ Has(f.name) /\ Continue(p) /\ UNCHANGED table
         \/ /\ ~Has(f.name) /\ ~IsId(f)
            /\ table' = table \cup {Column(f)}
            /\ Continue(p)
         \/ /\ ~Has(f.name) /\ IsId(f)
            /\ Return(p, "db") /\ UNCHANGED <<table, at>>
         \/ Return(p, "io") /\ UNCHANGED <<table, at>>

Init ==
    /\ table \in Tables0
    /\ pc = [p \in Procs |-> "idle"]
    /\ at = [p \in Procs |-> 1]
    /\ res = [p \in Procs |-> "-"]
    /\ once = [p \in Procs |-> FALSE]

Next ==
    \E p \in Procs :
        (\E v \in Values : Sync(p, v)) \/ Create(p) \/ Alter(p) \/ Again(p)

Spec == Init /\ [][Next]_vars

-----------------------------------------------------------------------------
TypeOK ==
    /\ table \in {NoTable} \cup
          SUBSET [name : UNION {{Column(f).name : f \in ToSet(Fields[p])} : p \in Procs},
                  type : SqlTypes]
    /\ pc \in [Procs -> {"idle", "create", "alter", "done"}]
    /\ \A p \in Procs : at[p] \in 1..Len(Fields[p]) \cup {1}
    /\ res \in [Procs -> {"-", "ok", "not_struct", "db", "io"}]
    /\ once \in [Procs -> BOOLEAN]

\* When sync answers Ok the table exists and has a column for every field of
\* the value, whichever program created the table and however the CREATE and
\* ALTER statements of the programs interleaved: "already exists" leads to
\* the ALTER loop, and the loop ends in Ok only after the last field.
OkMeansSynced ==
    \A p \in Procs :
        res[p] = "ok" =>
            table # NoTable /\ \A i \in DOMAIN Fields[p] : Has(Fields[p][i].name)

\* sync can be repeated: once it has answered Ok to a program, the database
\* refuses no statement of a later sync of that program, whatever the other
\* programs have added meanwhile (CREATE answers "already exists", every
\* ALTER "duplicate column"); a later sync fails only as any exec can ("io").
ResyncSucceeds ==
    \A p \in Procs : once[p] => res[p] # "db"

=============================================================================
