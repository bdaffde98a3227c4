------------------------------ MODULE MCValues ------------------------------
(***************************************************************************)
(* SerRef and the PostgreSQL type of what it answers, for TLC.              *)
(***************************************************************************)
EXTENDS PgArguments, FiniteSetsExt

MCBits == [w \in {8, 16, 32, 64} |-> CASE w = 8 -> 2 [] w = 16 -> 3 [] w = 32 -> 4 [] w = 64 -> 5]

\* An array type has no array type of its own, and UNKNOWN has none.
MCArrayElement(ty) ==
    IF ty \in {"UNKNOWN", "BYTEA_ARRAY"} \/ ty \in {e \o "_ARRAY" : e \in Range(Pg!Plain)}
    THEN NULL ELSE ty \o "_ARRAY"

\* Every primitive is passed on its own and in an Option or a newtype, an
\* integer as the least and the greatest of its type, a text and bytes
\* from a field of the argument and from a temporary; inside the builders
\* a number, a text and a None stand for them, None being the Null a map's
\* key is pushed with.
Leaf(k, v) == [k |-> k, n |-> (IF k = "unit_variant" THEN "A" ELSE ""), v |-> v]

TopLeaves ==
    {Leaf(k, 1) : k \in (DOMAIN Variant \ DOMAIN Width)
                        \cup {"none", "unit", "unit_struct", "unit_variant"}}
    \cup UNION {{Leaf(k, Min(Numbers(k))), Leaf(k, Max(Numbers(k)))} :
                   k \in DOMAIN Variant \cap DOMAIN Width}
    \cup {Leaf(k, Temporary) : k \in {"str", "bytes"}}
InnerLeaves == {Leaf(k, 1) : k \in {"i8", "str", "none"}}

MCLeaves(depth) == IF depth <= 1 THEN TopLeaves ELSE InnerLeaves

=============================================================================
