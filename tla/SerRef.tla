------------------------------- MODULE SerRef -------------------------------
(***************************************************************************)
(* The serde Serializer of src/rbs/src/value/ext/se_ref.rs: SerRef and its *)
(* seven builders, which turn the calls a Serialize implementation makes   *)
(* into a ValueRef.                                                        *)
(*                                                                         *)
(* The implementation being serialized is the environment: it decides,     *)
(* call by call, what it hands to the serializer.  `stack` is the Rust     *)
(* call stack of to_value_ref: the builders that are open, the builder     *)
(* methods and the wrappers (serialize_some, ..) that wait for the value   *)
(* passed to them.  `arg` records what was called, as a tree, and is read  *)
(* by the properties only.  Numbers, texts and bytes are integers: the     *)
(* number itself, or the buffer a text lies in; the buffer Temporary is    *)
(* one the implementation made for the call (the to_string of serde's      *)
(* collect_str, a formatted date) and frees when it returns.               *)
(***************************************************************************)
EXTENDS Integers, Sequences, SequencesExt

CONSTANTS
    NULL,       \* no value yet
    Err,        \* Result::Err of the implementation's own making
    Leaves(_),  \* the primitive calls made under so many open calls: [k, n, v]
    Names,      \* the names of newtype structs
    Keys,       \* the names of struct fields
    MaxDepth,   \* bound: calls of serialize that have not returned
    MaxLen      \* bound: values passed to one builder

VARIABLES
    stack,      \* the calls that wait for a value, innermost last
    out,        \* what to_value_ref returned
    arg         \* history: the calls made, as the tree they describe

vars == <<stack, out, arg>>

-----------------------------------------------------------------------------
(* ValueRef.  c holds the elements of an Array, the pairs of a Map and the *)
(* one value of an Ext; n the static text of a key, a variant or a name.   *)
ValueRef(t, n, v, c) == [t |-> t, n |-> n, v |-> v, c |-> c]
Null == ValueRef("Null", "", 0, <<>>)
String(key) == ValueRef("String", key, 0, <<>>)
Array(inner) == ValueRef("Array", "", 0, inner)
Map(inner) == ValueRef("Map", "", 0, inner)
Ext(name, v) == ValueRef("Ext", name, 0, <<v>>)
Pair(k, v) == [key |-> k, val |-> v]

\* serialize_bool .. serialize_bytes: the variant each primitive becomes.
\* The casts (v as i32, v as u32, v as i64) widen and keep the number.
Variant ==
    [bool |-> "Bool", i8 |-> "I32", i16 |-> "I32", i32 |-> "I32", i64 |-> "I64",
     u8 |-> "U32", u16 |-> "U32", u32 |-> "U32", u64 |-> "U64",
     f32 |-> "F32", f64 |-> "F64", char |-> "I64",
     str |-> "String", bytes |-> "Binary"]

Temporary == 0

\* What a primitive call answers; none, unit and a unit struct are Null, a
\* unit variant is its name.
Primitive(l) ==
    CASE l.k \in {"none", "unit", "unit_struct"} -> Null
      [] l.k = "unit_variant" -> String(l.n)
      [] OTHER -> ValueRef(Variant[l.k], "", l.v, <<>>)

\* The builders, by the ValueRef their end() answers, and the wrappers.
Arrays == {"seq", "tuple", "tuple_struct", "tuple_variant", "struct_variant"}
Maps == {"struct", "map"}
Builders == Arrays \cup Maps
Wrappers == {"some", "newtype_struct", "newtype_variant"}

\* The methods of a builder that take a value.
Methods(kind) ==
    CASE kind \in {"seq", "tuple"} -> {"serialize_element"}
      [] kind = "map" -> {"serialize_key", "serialize_value"}
      [] OTHER -> {"serialize_field"}

\* Seeded fault: serialize_value adds a pair of its own.
PushValue(b, m, v) ==
    CASE b.k \in Arrays -> Append(b.inner, v)
      [] b.k = "struct" -> Append(b.inner, Pair(String(m.n), v))
      [] m.k = "serialize_key" -> Append(b.inner, Pair(v, Null))
      [] OTHER -> Append(b.inner, Pair(Null, v))

\* Seeded fault: a struct variant keeps the names of its fields, as a
\* struct does.
PushNamed(b, m, v) ==
    CASE b.k \in Arrays \ {"struct_variant"} -> Append(b.inner, v)
      [] b.k \in {"struct", "struct_variant"} -> Append(b.inner, Pair(String(m.n), v))
      [] m.k = "serialize_key" -> Append(b.inner, Pair(v, Null))
      [] OTHER -> [b.inner EXCEPT ![Len(b.inner)].val = v]

\* inner after method m of builder b was given v: pushed, pushed under the
\* field's name, pushed as a key without a value, or written over the value
\* of the last pair.
Push(b, m, v) ==
    CASE b.k \in Arrays -> Append(b.inner, v)
      [] b.k = "struct" -> Append(b.inner, Pair(String(m.n), v))
      [] m.k = "serialize_key" -> Append(b.inner, Pair(v, Null))
      [] OTHER -> [b.inner EXCEPT ![Len(b.inner)].val = v]

\* Seeded fault: every builder ends as a sequence does.
EndOfSeq(b) == Array(b.inner)

\* end() of a builder.
End(b) == IF b.k \in Arrays THEN Array(b.inner) ELSE Map(b.inner)

-----------------------------------------------------------------------------
(* The calls made, for the properties: a node is a primitive, a wrapper    *)
(* around one node or a builder with the nodes passed to it.               *)
Node(k, n, v, c) == [k |-> k, n |-> n, v |-> v, c |-> c]
Passed(m, node) == [m |-> m.k, key |-> m.n, of |-> node]

Frame(k, n) == [k |-> k, n |-> n, inner |-> <<>>, seen |-> <<>>]

\* v, the result of the calls in node, is returned to the innermost call of
\* stk: the end of to_value_ref, a wrapper (which returns in turn) or the
\* method of a builder.
RECURSIVE Return(_, _, _)
Return(stk, v, node) ==
    IF stk = <<>> THEN [stack |-> <<>>, out |-> v, arg |-> node]
    ELSE LET top == Last(stk)
             under == Node(top.k, top.n, 0, <<Passed(top, node)>>)
         IN CASE top.k = "newtype_struct" -> Return(Front(stk), Ext(top.n, v), under)
              [] top.k \in Wrappers -> Return(Front(stk), v, under)
              [] OTHER ->
                   LET b == stk[Len(stk) - 1]
                       after == [b EXCEPT !.inner = Push(b, top, v),
                                          !.seen = Append(@, Passed(top, node))]
                   IN [stack |-> Append(SubSeq(stk, 1, Len(stk) - 2), after),
                       out |-> NULL, arg |-> NULL]

Returned(r) == stack' = r.stack /\ out' = r.out /\ arg' = r.arg

\* A value was handed to the serializer and its implementation runs.
Called == out = NULL /\ (stack # <<>> => Last(stack).k \notin Builders)
\* The implementation holds a builder.
Building == stack # <<>> /\ Last(stack).k \in Builders

-----------------------------------------------------------------------------
\* serialize_bool .. serialize_unit_variant.
SerializePrimitive(l) ==
    /\ Called
    /\ Returned(Return(stack, Primitive(l), Node(l.k, l.n, l.v, <<>>)))

\* serialize_some, serialize_newtype_struct, serialize_newtype_variant call
\* value.serialize(self).
SerializeWrapped(kind, name) ==
    /\ Called /\ Len(stack) < MaxDepth
    /\ stack' = Append(stack, Frame(kind, name))
    /\ UNCHANGED <<out, arg>>

\* serialize_seq .. serialize_struct_variant answer an empty builder.
SerializeBuilder(kind) ==
    /\ Called /\ Len(stack) < MaxDepth
    /\ stack' = Append(stack, Frame(kind, ""))
    /\ UNCHANGED <<out, arg>>

\* serialize_value of a map without a pair (inner.last_mut() is None).
NoPair(m) == m = "serialize_value" /\ Last(stack).inner = <<>>

\* serialize_element, serialize_field, serialize_key and serialize_value
\* call value.serialize(self.s.clone()) first.
SerializeInto(m, key) ==
    /\ Building /\ Len(stack) < MaxDepth
    /\ m \in Methods(Last(stack).k) /\ ~NoPair(m)
    /\ key # "" <=> Last(stack).k \in {"struct", "struct_variant"}
    /\ Len(Last(stack).seen) < MaxLen
    /\ stack' = Append(stack, Frame(m, key))
    /\ UNCHANGED <<out, arg>>

\* serialize_value before the first serialize_key answers Ok(()) and does
\* not serialize what it was given.
SerializeValueSkipped ==
    /\ Building /\ Last(stack).k = "map" /\ NoPair("serialize_value")
    /\ Len(Last(stack).seen) < MaxLen
    /\ stack' = [stack EXCEPT ![Len(stack)].seen =
                     Append(@, [m |-> "serialize_value", key |-> "", of |-> NULL])]
    /\ UNCHANGED <<out, arg>>

\* end() of the builder the implementation holds.
BuilderEnd ==
    /\ Building
    /\ LET b == Last(stack)
       IN Returned(Return(Front(stack), End(b), Node(b.k, "", 0, b.seen)))

\* The implementation of a value answers an error of its own: every `?`
\* on the way hands it on, and what the builders held is dropped.
Failed ==
    /\ Called
    /\ stack' = <<>> /\ out' = Err /\ arg' = NULL

Init == stack = <<>> /\ out = NULL /\ arg = NULL

Next ==
    \/ \E l \in Leaves(Len(stack)) : SerializePrimitive(l)
    \/ \E kind \in Wrappers :
          \E name \in (IF kind = "newtype_struct" THEN Names ELSE {""}) :
             SerializeWrapped(kind, name)
    \/ \E kind \in Builders : SerializeBuilder(kind)
    \/ \E m \in {"serialize_element", "serialize_field", "serialize_key",
                 "serialize_value"}, key \in Keys \cup {""} : SerializeInto(m, key)
    \/ SerializeValueSkipped
    \/ BuilderEnd
    \/ Failed

Spec == Init /\ [][Next]_vars

-----------------------------------------------------------------------------
RECURSIVE IsValueRef(_)
IsValueRef(x) ==
    /\ DOMAIN x = DOMAIN Null /\ x.v \in Int
    /\ CASE x.t = "Array" -> \A i \in DOMAIN x.c : IsValueRef(x.c[i])
         [] x.t = "Map" -> \A i \in DOMAIN x.c : IsValueRef(x.c[i].key) /\ IsValueRef(x.c[i].val)
         [] x.t = "Ext" -> x.n \in Names /\ Len(x.c) = 1 /\ IsValueRef(x.c[1])
         [] OTHER -> x.t \in Range(Variant) \cup {"Null"} /\ x.c = <<>>

\* The stack is the builders that are open, each but the innermost under
\* the method that waits for a value, with wrappers between them.
TypeOK ==
    /\ Len(stack) <= MaxDepth
    /\ \A i \in DOMAIN stack :
          LET f == stack[i] IN
          /\ f.k \in Builders \cup Wrappers \cup UNION {Methods(b) : b \in Builders}
          /\ f.k \notin Builders => f.inner = <<>> /\ f.seen = <<>>
          /\ f.k \in Builders /\ i < Len(stack) => stack[i + 1].k \in Methods(f.k)
          /\ f.k \in Methods("map") \cup Methods("seq") \cup Methods("struct")
                => i > 1 /\ f.k \in Methods(stack[i - 1].k)
    /\ out \in {NULL, Err} \/ IsValueRef(out)
    /\ out \in {NULL, Err} <=> arg = NULL

\* A map under construction has one entry for each key it was passed,
\* whatever was passed as a value and when: serialize_value writes into
\* the last entry (last_mut) and adds none, and is without effect before
\* the first key.
EntryPerKey ==
    \A i \in DOMAIN stack :
        stack[i].k = "map" =>
            Len(stack[i].inner) =
                Len(SelectSeq(stack[i].seen, LAMBDA p : p.m = "serialize_key"))

\* An implementation keeps to the contract of SerializeMap when it passes
\* keys and values in turn, a key first and a value last.
RECURSIVE WellFormed(_)
WellFormed(node) ==
    /\ node.k = "map" =>
          /\ Len(node.c) % 2 = 0
          /\ \A i \in DOMAIN node.c :
                node.c[i].m = (IF i % 2 = 1 THEN "serialize_key" ELSE "serialize_value")
    /\ \A i \in DOMAIN node.c : WellFormed(node.c[i].of)

\* What the calls in node describe: the elements of a sequence or a tuple
\* in their order, the fields of a struct under their names, the entries
\* of a map as pairs of key and value, a newtype struct as an Ext of its
\* name, an Option or a newtype variant as what it holds.
RECURSIVE Image(_)
Image(node) ==
    LET of(i) == Image(node.c[i].of) IN
    CASE node.k \in Arrays -> Array([i \in DOMAIN node.c |-> of(i)])
      [] node.k = "struct" ->
            Map([i \in DOMAIN node.c |-> Pair(String(node.c[i].key), of(i))])
      [] node.k = "map" ->
            Map([j \in 1..(Len(node.c) \div 2) |-> Pair(of(2 * j - 1), of(2 * j))])
      [] node.k = "newtype_struct" -> Ext(node.n, of(1))
      [] node.k \in Wrappers -> of(1)
      [] OTHER -> Primitive(node)

\* to_value_ref answers the image of its argument: the builders, filled
\* one call at a time and nested in each other (a map's value is written
\* over the Null its key was pushed with, after the value's own builders
\* have come and gone), put every value where the argument has it.
ResultIsImage ==
    arg # NULL /\ WellFormed(arg) => out = Image(arg)

-----------------------------------------------------------------------------
(* What the signature says and the code does not do.                       *)

\* The buffers a ValueRef points into.  Keys, names of variants and names
\* of newtypes are &'static str.
RECURSIVE Texts(_)
Texts(x) ==
    CASE x.t \in {"String", "Binary"} -> IF x.n = "" THEN {x.v} ELSE {}
      [] x.t = "Map" -> UNION {Texts(x.c[i].key) \cup Texts(x.c[i].val) : i \in DOMAIN x.c}
      [] OTHER -> UNION {Texts(x.c[i]) : i \in DOMAIN x.c}

\* to_value_ref<T>(a: &T) -> Result<ValueRef, Error> and
\* ValueRef<'a>::serialize(&mut self, arg: &'a T): the ValueRef borrows
\* from the argument, and from nothing that is gone when the call returns
\* (serialize_str and serialize_bytes cast the lifetime of what they are
\* given away).
BorrowsFromArgument ==
    out \notin {NULL, Err} => Temporary \notin Texts(out)

=============================================================================
