------------------------------ MODULE SqlMacro ------------------------------
(***************************************************************************)
(* The #[sql] macro of src/rbatis-macro-driver/src/sql.rs: the function it *)
(* generates from the function it is put on, as the call that function     *)
(* makes.  The statement is the lexemes of its literal, quotes included:   *)
(* the three spellings of select, any other word (x), a blank (sp) and the *)
(* quote (dq).  The parameters are their names.                            *)
(***************************************************************************)
EXTENDS Naturals, Sequences, SequencesExt

CONSTANTS
    Lexemes,        \* what a statement is made of
    Params,         \* the names of parameters
    rbatis_name,    \* the first argument of the macro: the handle
    MaxSql,         \* bound: the lexemes of a statement
    MaxParams       \* bound: the parameters of a function

VARIABLES
    sql_ident,      \* the second argument of the macro
    fn_args         \* get_fn_args(target_fn)

macroVars == <<sql_ident, fn_args>>

\* str::trim.
RECURSIVE trim(_)
trim(s) ==
    CASE s # <<>> /\ Head(s) = "sp" -> trim(Tail(s))
      [] s # <<>> /\ Last(s) = "sp" -> trim(Front(s))
      [] OTHER -> s

\* Seeded fault: the blank after the keyword is not asked for.
SelectAnything(sql) ==
    \E prefix \in {<<"select">>, <<"SELECT">>, <<"dq", "select">>, <<"dq", "SELECT">>} :
        IsPrefix(prefix, sql)

is_select(sql) ==
    \E prefix \in {<<"select", "sp">>, <<"SELECT", "sp">>,
                   <<"dq", "select", "sp">>, <<"dq", "SELECT", "sp">>} :
        IsPrefix(prefix, sql)

\* Seeded fault: tx_id stays among the arguments of the statement.
PushTxId(gen, item) ==
    CASE item = rbatis_name -> gen
      [] item = "tx_id" -> [tx_id |-> item, args |-> Append(gen.args, item)]
      [] OTHER -> [gen EXCEPT !.args = Append(@, item)]

\* One turn of the loop of filter_args_tx_id.
Filter(gen, item) ==
    CASE item = rbatis_name -> gen
      [] item = "tx_id" -> [gen EXCEPT !.tx_id = item]
      [] OTHER -> [gen EXCEPT !.args = Append(@, item)]

filter_args_tx_id(names) ==
    FoldLeft(Filter, [tx_id |-> "", args |-> <<>>], names)

\* The call of the generated function.
impl_macro_sql(target_fn, sql) ==
    LET gen == filter_args_tx_id(target_fn)
    IN [call_method |-> IF is_select(trim(sql)) THEN "fetch_prepare" ELSE "exec_prepare",
        tx_id |-> gen.tx_id, sql |-> sql, args |-> gen.args]

-----------------------------------------------------------------------------
MacroInit == sql_ident = <<>> /\ fn_args = <<>>

\* The statement and the signature the macro is given, written one lexeme
\* and one parameter at a time.
WriteSql(b) ==
    /\ Len(sql_ident) < MaxSql
    /\ sql_ident' = Append(sql_ident, b)
    /\ UNCHANGED fn_args

Declare(name) ==
    /\ Len(fn_args) < MaxParams /\ name \notin ToSet(fn_args)
    /\ fn_args' = Append(fn_args, name)
    /\ UNCHANGED sql_ident

MacroNext ==
    \/ \E b \in Lexemes : WriteSql(b)
    \/ \E name \in Params : Declare(name)

MacroSpec == MacroInit /\ [][MacroNext]_macroVars

-----------------------------------------------------------------------------
Call == impl_macro_sql(fn_args, sql_ident)

\* The first word of a statement: what stands between its opening quote,
\* blanks aside, and the next blank or quote.
Inside(s) == IF s # <<>> /\ Head(s) = "dq" THEN trim(Tail(s)) ELSE s
FirstWord(s) ==
    LET t == Inside(trim(s))
        end == SelectInSeq(t, LAMBDA b : b \in {"sp", "dq"})
    IN IF end = 0 THEN t ELSE SubSeq(t, 1, end - 1)

\* A statement the generated function fetches the rows of is a query: its
\* first word is select, in one of the two spellings is_select knows, and
\* nothing more (is_select asks for the keyword with the blank that ends it).
FetchesOnlyQueries ==
    Call.call_method = "fetch_prepare" =>
        FirstWord(sql_ident) \in {<<"select">>, <<"SELECT">>}

\* Every parameter but the handle and tx_id is an argument of the
\* statement, once and in the order of the signature, and tx_id is handed on
\* when the function has it (the two `continue` of filter_args_tx_id).
ArgsAreTheParameters ==
    /\ Call.args = SelectSeq(fn_args, LAMBDA name : name \notin {rbatis_name, "tx_id"})
    /\ Call.tx_id = (IF "tx_id" \in ToSet(fn_args) THEN "tx_id" ELSE "")

=============================================================================
