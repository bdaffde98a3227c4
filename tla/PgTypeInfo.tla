----------------------------- MODULE PgTypeInfo -----------------------------
(***************************************************************************)
(* impl TypeInfo for Value of src/rbdc-pg/src/types/mod.rs: the PostgreSQL *)
(* type PgConnection::exec declares for an argument when it prepares a     *)
(* statement.  A Value is the record SerRef builds: t its variant, n the   *)
(* name of an Ext, c the elements of an Array.                             *)
(***************************************************************************)
EXTENDS Naturals, Sequences

CONSTANTS
    NULL,               \* Option::None
    to_array_element(_) \* PgTypeInfo::to_array_element, defined outside this file

\* Value::Ext(type_name, _): the names with a type of their own; Custom,
\* DeclareWithName, DeclareWithOid and every other name are UNKNOWN.
ExtType ==
    [Uuid |-> "UUID", Decimal |-> "NUMERIC", Date |-> "DATE", Time |-> "TIME",
     Timestamp |-> "TIMESTAMP", DateTime |-> "TIMESTAMP", Bool |-> "BOOL",
     Bytea |-> "BYTEA", Char |-> "CHAR", Name |-> "NAME", Int8 |-> "INT8",
     Int2 |-> "INT2", Int4 |-> "INT4", Text |-> "TEXT", Oid |-> "OID",
     Json |-> "JSON", Point |-> "POINT", Lseg |-> "LSEG", Path |-> "PATH",
     Box |-> "BOX", Polygon |-> "POLYGON", Line |-> "LINE", Cidr |-> "CIDR",
     Float4 |-> "FLOAT4", Float8 |-> "FLOAT8", Unknown |-> "UNKNOWN",
     Circle |-> "CIRCLE", Macaddr8 |-> "MACADDR8", Macaddr |-> "MACADDR",
     Inet |-> "INET", Bpchar |-> "BPCHAR", Varchar |-> "VARCHAR",
     Timestamptz |-> "TIMESTAMPTZ", Interval |-> "INTERVAL", Timetz |-> "TIMETZ",
     Bit |-> "BIT", Varbit |-> "VARBIT", Numeric |-> "NUMERIC",
     Record |-> "RECORD", Jsonb |-> "JSONB", Int4Range |-> "INT4_RANGE",
     NumRange |-> "NUM_RANGE", TsRange |-> "TS_RANGE", TstzRange |-> "TSTZ_RANGE",
     DateRange |-> "DATE_RANGE", Int8Range |-> "INT8_RANGE",
     Jsonpath |-> "JSONPATH", Money |-> "MONEY", Void |-> "VOID"]

\* The variants that are a type by themselves.
Plain ==
    [Null |-> "UNKNOWN", Bool |-> "BOOL", I32 |-> "INT4", I64 |-> "INT8",
     U32 |-> "INT4", U64 |-> "INT8", F32 |-> "FLOAT4", F64 |-> "FLOAT8",
     String |-> "VARCHAR", Binary |-> "BYTEA_ARRAY", Map |-> "UNKNOWN"]

unwrap_or(option, default) == IF option = NULL THEN default ELSE option

\* Seeded fault: every integer is declared an INT4.
TypeInfoNarrow(v) ==
    IF v.t \in {"I32", "U32", "I64", "U64"} THEN "INT4" ELSE "UNKNOWN"

\* An Array is declared by its first element alone, an empty one not at all.
RECURSIVE type_info(_)
type_info(v) ==
    CASE v.t \in DOMAIN Plain -> Plain[v.t]
      [] v.t = "Array" ->
            IF Len(v.c) = 0 THEN "UNKNOWN"
            ELSE unwrap_or(to_array_element(type_info(v.c[1])), "UNKNOWN")
      [] v.t = "Ext" -> IF v.n \in DOMAIN ExtType THEN ExtType[v.n] ELSE "UNKNOWN"

=============================================================================
