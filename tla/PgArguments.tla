---------------------------- MODULE PgArguments ----------------------------
(***************************************************************************)
(* A Rust value on its way to PostgreSQL: serialized by SerRef, and        *)
(* declared to the server, when PgConnection::exec prepares the statement, *)
(* with the type impl TypeInfo for Value gives it.  Value and ValueRef     *)
(* have the same variants; type_info is applied to what SerRef answered.   *)
(***************************************************************************)
EXTENDS SerRef

CONSTANTS
    Bits,                \* bound: the bits the model gives a width of 8, 16, 32, 64
    to_array_element(_)  \* PgTypeInfo::to_array_element

Pg == INSTANCE PgTypeInfo

\* The width of the integers of Rust, of ValueRef and of PostgreSQL.
Width ==
    [i8 |-> 8, i16 |-> 16, i32 |-> 32, i64 |-> 64, u8 |-> 8, u16 |-> 16,
     u32 |-> 32, u64 |-> 64, char |-> 32, I32 |-> 32, U32 |-> 32, I64 |-> 64,
     U64 |-> 64, INT4 |-> 32, INT8 |-> 64]
Unsigneds == {"u8", "u16", "u32", "u64", "char", "U32", "U64"}

Numbers(ty) ==
    LET b == Bits[Width[ty]]
    IN IF ty \in Unsigneds THEN 0..(2^b - 1) ELSE -(2^(b - 1))..(2^(b - 1) - 1)

\* An integer passed to the serializer on its own arrives at the server
\* under a type of the width of its variant, which holds it: the casts of
\* serialize_i8 .. serialize_char widen, and type_info declares an INT4 or
\* an INT8 by the variant.  An unsigned variant is declared as the signed
\* type of its width, which holds its lower half only.
DeclaredTypeHoldsNumber ==
    arg # NULL /\ arg.k \in DOMAIN Width =>
        LET ty == Pg!type_info(out) IN
        /\ out.v = arg.v /\ arg.v \in Numbers(out.t)
        /\ ty \in DOMAIN Width /\ Width[ty] = Width[out.t]
        /\ out.t \notin Unsigneds => out.v \in Numbers(ty)

=============================================================================
