----------------------------- MODULE StringUtil -----------------------------
(***************************************************************************)
(* The scanners of src/rbatis-codegen/src/string_util.rs as operators on   *)
(* byte sequences: find_convert_string, which lists the #{..} and ${..}    *)
(* placeholders of a text once per name, count_string_num and              *)
(* un_packing_string.  The one variable is the text, grown a byte at a     *)
(* time, so that TLC applies them to every text up to MaxLen.  Positions   *)
(* count from 1 here and from 0 in the code; "no placeholder open" is 0    *)
(* here and -1 there.                                                      *)
(***************************************************************************)
EXTENDS Naturals, Sequences, FiniteSets, SequencesExt

CONSTANTS
    Bytes,      \* the bytes a text is made of
    MaxLen      \* bound: the length of the longest text

\* The bytes that quote a column: single quote, backquote, double quote (dq).
Quotes == {"sq", "bq", "dq"}

VARIABLE arg

\* cache.get(&item).is_some(): the names listed so far.
\* Seeded fault: the cache is never consulted.
NeverSeen(list, item) == FALSE

Seen(list, item) == \E k \in DOMAIN list : list[k][1] = item

\* One turn of the loop at byte i, on [last, list].
Scan(s, acc, i) ==
    CASE acc.last = 0 /\ s[i] \in {"#", "$"} ->
            IF i < Len(s) /\ s[i + 1] = "{" THEN [acc EXCEPT !.last = i] ELSE acc
      [] acc.last # 0 /\ s[i] = "}" ->
            LET item == SubSeq(s, acc.last + 2, i - 1)
                value == SubSeq(s, acc.last, i)
            IN [last |-> 0,
                list |-> IF Seen(acc.list, item) THEN acc.list
                         ELSE Append(acc.list, <<item, value>>)]
      [] OTHER -> acc

find_convert_string(s) ==
    FoldLeftDomain(LAMBDA acc, i : Scan(s, acc, i), [last |-> 0, list |-> <<>>], s).list

\* Seeded fault: the count starts at one.
CountFromOne(s, c) ==
    FoldLeft(LAMBDA num, x : IF x = c THEN num + 1 ELSE num, 1, s)

count_string_num(s, c) ==
    FoldLeft(LAMBDA num, x : IF x = c THEN num + 1 ELSE num, 0, s)

\* Seeded fault: one byte is enough to be its own opening and closing quote.
Packed1(column) ==
    Len(column) >= 1 /\ \E q \in Quotes : column[1] = q /\ Last(column) = q

\* column.len() >= 2, starts_with and ends_with the same quote.
Packed(column) ==
    Len(column) >= 2 /\ \E q \in Quotes : column[1] = q /\ Last(column) = q

un_packing_string(column) ==
    IF Packed(column) THEN SubSeq(column, 2, Len(column) - 1) ELSE column

-----------------------------------------------------------------------------
Init == arg = <<>>

Type(b) == Len(arg) < MaxLen /\ arg' = Append(arg, b)

Next == \E b \in Bytes : Type(b)

Spec == Init /\ [][Next]_arg

-----------------------------------------------------------------------------
(* What a placeholder is, without a scan.                                  *)

Opens(s, i) == s[i] \in {"#", "$"} /\ i < Len(s) /\ s[i + 1] = "{"

\* The first "}" after i, or a position past the end.
Closes(s, i) ==
    CHOOSE j \in (i + 1)..(Len(s) + 1) :
        /\ j <= Len(s) => s[j] = "}"
        /\ \A k \in (i + 1)..(j - 1) : s[k] # "}"

\* A placeholder begins where one opens outside every earlier placeholder.
Begins(s) ==
    LET B[i \in DOMAIN s] ==
            Opens(s, i) /\ \A k \in 1..(i - 1) : B[k] => Closes(s, k) < i
    IN {i \in DOMAIN s : B[i]}

Name(s, i) == SubSeq(s, i + 2, Closes(s, i) - 1)

\* The placeholders that are closed, each name at its first occurrence, in
\* the order of the text.
Placeholders(s) ==
    LET closed == {i \in Begins(s) : Closes(s, i) <= Len(s)}
        first == {i \in closed : \A k \in closed : k < i => Name(s, k) # Name(s, i)}
        order == SetToSortSeq(first, <)
    IN [n \in DOMAIN order |->
            <<Name(s, order[n]), SubSeq(s, order[n], Closes(s, order[n]))>>]

TypeOK ==
    /\ arg \in Seq(Bytes) /\ Len(arg) <= MaxLen
    /\ \A c \in Bytes : count_string_num(arg, c) \in 0..Len(arg)
    /\ un_packing_string(arg) \in Seq(Bytes)

\* find_convert_string lists exactly the placeholders of the text: every
\* closed #{..} or ${..} that does not lie inside another, once per name, in
\* the order of their first occurrence, with the text it stands for (the
\* loop's last_index and cache against the definition by positions).
FindsThePlaceholders == find_convert_string(arg) = Placeholders(arg)

\* un_packing_string undoes one quoting, of any text and the empty one too,
\* and changes nothing else: what it changes began and ended with the same
\* quote, two bytes apart or more (the test on len comes before the slice).
UnpackingUndoesQuoting ==
    /\ \A q \in Quotes : un_packing_string(<<q>> \o arg \o <<q>>) = arg
    /\ un_packing_string(arg) # arg =>
          Len(arg) >= 2 /\ arg[1] = Last(arg) /\ arg[1] \in Quotes

=============================================================================
