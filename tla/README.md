# rbatis: TLA+ models and what TLC shows about them

This directory holds the formal models of rbatis that are kept beside the
code: TLA+ modules translated from the Rust sources, the TLC configurations
that check them, and `PROJECT.json`, which maps every definition to the lines
it models and lists the runs, the seeded faults, the findings and the hazards.

Run one check with `tlc -workers 2 -config <file>.cfg <module>`; the module and
the configuration of every run are in the table of section 6.

## 1. The system

rbatis is an asynchronous ORM. A call travels through three layers:

| part | source | what it owns |
|---|---|---|
| Executor abstraction | `src/src/executor.rs` 21-163, 222-302, 459-539 | `exec` / `fetch` on a connection, a transaction, a guard or the pooled handle: `is_prepared`, the interceptor chain, the call on the connection |
| TransactionExecutor / TransactionGuard | `src/src/executor.rs` 171-188, 310-457 | the `done` flag, the guard's `Option<RBatisTxExecutor>`, the flume channel to the task `defer_async` spawns |
| ProtocolConnection | `src/rbdc-pg/src/connection/mod.rs` | the stream and its write buffer, `pending_ready_for_query_count`, `transaction_status`, `cache_statement`, `next_statement_id` |
| StatementCache | used at `mod.rs` 56, 126-147, 202, 242 | bounded map sql -> (statement id, metadata) in recency order |
| PageRequest / Page | `src/src/sql/page.rs` | page number, page size, total, stored page count |
| SqliteTableSync | `src/src/plugin/table_sync/sqlite_table_sync.rs` | CREATE TABLE, falling back to one ALTER TABLE per column |
| placeholder scanner | `src/rbatis-codegen/src/string_util.rs` | `#{..}` / `${..}` extraction with de-duplication |
| Value serializer | `src/rbs/src/value/ext/se_ref.rs` | `SerRef` and its seven builders: the `ValueRef` of a Rust value, built call by call |
| PostgreSQL type registry | `src/rbdc-pg/src/types/mod.rs` | the type an argument is declared with when a statement is prepared |
| SQLite chrono codecs | `src/rbdc-sqlite/src/types/chrono.rs` | dates and times written as text, read from text, integer or float |
| `sql` macro | `src/rbatis-macro-driver/src/sql.rs` | the function generated for a statement: fetch or exec, `tx_id`, the arguments |
| data | `template.rs`, `when_node.rs`, `foreach_node.rs` | keyword table, syntax-tree records |

How they interact. An executor owns its connection (`Box<dyn Connection>`)
exclusively: `RBatisConnExecutor::begin(self)` moves it into an
`RBatisTxExecutor`, `defer_async(self)` moves that into a guard, the guard's
`Drop` sends it over a channel to a task spawned earlier, whose callback
(usually `tx.rollback()`) is the last user. At the bottom a `PgConnection`
pipelines: requests are written to a buffer, flushed, and answered by the
server strictly in order; every `Query` and every `Sync` is owed one
`ReadyForQuery`, and the connection counts how many it is owed.

Arguments reach the connection as `Value`s. `SerRef` makes a value from
whatever implements `Serialize`, one call of the implementation at a time;
`Connection::exec` (mod.rs 238-241) asks every argument for its `type_info`
and prepares the statement with those types. On SQLite a date is stored as
text and read back by trying a list of formats in order. The `sql` macro
decides at compile time, from the first bytes of the statement, whether the
generated function fetches or executes.

What is hard in it:

* **The pipeline counter.** `queue_simple_query` writes a request nobody waits
  for. A call may be dropped at any await (a timeout around the future), after
  its request was sent and before its answer was read. The next call must skip
  exactly the answers that are left over, and not one of its own.
* **Two copies of the truth.** `transaction_status` mirrors the server's
  status, `cache_statement` mirrors the server's prepared statements. Each is
  updated at a different moment than the server changes.
* **Eviction is a conversation.** Removing a cached statement means `Close`,
  `Sync`, flush, as many `CloseComplete` as were asked for, one
  `ReadyForQuery`; the entry leaves the cache before the first byte is sent.
* **A flag computed too early.** `exec` and `fetch` tell every interceptor
  whether the call is prepared, from the arguments as they were passed; the
  interceptors may change the arguments, and the connection decides by what
  it is given.
* **Layers that believe each other.** `commit` believes the connection's Ok;
  the connection believes that the answer it reads belongs to the request it
  sent. After a dropped call, or with a session that ended, either belief
  may be stale.
* **Ownership across a task boundary.** The guard, the channel and the spawned
  task pass one connection between them; calls fail or are dropped between
  `take()` and the assignment that puts the value back.
* **Arithmetic at the edges.** Page size 0, totals on a page boundary, a
  product that passes 2^64.
* **A schema shared by programs that start together.** `sync` is three kinds
  of statement with an await after each, and it reads the database only
  through error texts; other programs change the table in between.
* **A scanner with one piece of memory.** Which bytes of a text form a
  placeholder depends on `last_index`, that is, on everything before them.
* **A value assembled by its own subject.** The serializer does not walk a
  value: the value's `Serialize` implementation calls the serializer, in any
  order it likes, nesting builders in builders; a map's value is written into
  "the last pair", whatever happened since its key.
* **A reference without a lifetime.** `serialize_str` casts the lifetime of
  its argument away; whether the `ValueRef` stays valid depends on where the
  implementation got the text from.
* **Parsers tried in order.** A date text is read by the first of two parsers
  times twelve formats that accepts it, and one of the two drops the offset.

## 2. Modules

| module | models | state | actions |
|---|---|---|---|
| `PgConnection` | `rbdc-pg/src/connection/mod.rs` and the server | `todo`, `call`, `wbuf`, `pending`, `status`, `cache`, `nextId`, `closed`; `inbox`, `outbox`, `srvStatus`, `srvStmts`, `srvUp`; `cancels`, `abandoned` | calls `Exec`, `GetRows`, `Ping`, `Flush`, `ClearCachedStatements`, `Close`, `QueueSimpleQuery`, `Cancel`; steps `StreamWrite`, `StreamFlush`, `FlushFails`, `Drain`, `Rows`, `RecvReadyForQuery`, `RecvParseComplete`, `WaitForCloseComplete`, `EvictAll`, `Admit`, `Shutdown`, `StreamEnded`; server `ServeQuery`, `ServeExecute`, `ServeParse`, `ServeClose`, `ServeSync`, `ServeTerminate`, `ConnectionLost` |
| `StatementCache` | what the connection's statement cache promises | `entries`, `live`, `up` | `Get`, `Insert`, `RemoveLru`, `Prepare`, `Close`, `Lost` |
| `MCPgConnection` | the instance TLC checks | | `MCSqls`: two statements |
| `TxExecutor` | `executor.rs`: the four executors, the guard, `defer_async` | `connExec`, `tx`, `guard`, `guardTx`, `chan`, `task`, `cbTx`, `rawConn`, `db`, `last`, `handoff`, `panicked` | `ConnRun`, `ConnBegin`, `TxRun`, `TxBegin`, `TxFinish`, `RbRun`, `TxTakeConn`, `DeferAsync`, `GuardRun`, `GuardBegin`, `GuardFinish`, `GuardTakeConn`, `GuardDrop`, `GuardDerefPanics`, `TaskRecv`, `TaskRecvErr`, `Callback`, `SessionLost` |
| `TxOverPg` | the executors running on a `PgConnection` | the variables of both, and `cur`, the executor call suspended in the connection | `Suspend`, `Resume`, `Dropped`, `Refused`, `Local`, `Connection` |
| `MCTxOverPg` | the instance TLC checks | | `MCSqls`: one statement |
| `SerRef` | `rbs/src/value/ext/se_ref.rs` | `stack` (the calls that wait for a value: builders, builder methods, wrappers), `out`, `arg` (history: the calls made, as a tree) | `SerializePrimitive`, `SerializeWrapped`, `SerializeBuilder`, `SerializeInto`, `SerializeValueSkipped`, `BuilderEnd`, `Failed` |
| `PgTypeInfo` | `rbdc-pg/src/types/mod.rs` | none | operator `type_info` with the tables `Plain` and `ExtType` |
| `PgArguments` | `SerRef` with `PgTypeInfo` applied to what it answers | those of `SerRef` | those of `SerRef` |
| `MCValues` | the instance TLC checks | | the primitives passed at each depth, the scaled widths, `to_array_element` |
| `SqliteChrono` | `rbdc-sqlite/src/types/chrono.rs` | `cell` (the column), `wrote`, `got` | `Encode`, `Store`, `Decode`; operators `encode`, `decode`, `decode_datetime` and its three readers |
| `SqlMacro` | `rbatis-macro-driver/src/sql.rs` | `sql_ident`, `fn_args` (the macro's two inputs) | `WriteSql`, `Declare`; operators `impl_macro_sql`, `filter_args_tx_id`, `is_select` |
| `MCSqlHelpers` | `StringUtil`, `SqlMacro`, `SqliteChrono` and `Page` in one instance | the variables of the four | `Scanner`, `Macro`, `Codec`, `Paging`: a step of one of them while the others are at rest |
| `Page` | `sql/page.rs` | `it` (the Page or PageRequest), `panicked` | `RequestNew`, `RequestNewPlugin`, `New`, `NewTotal`, `PageDefault`, `RequestSet`, `Set`, `SetRecords`, `From`; operators `get_pages`, `offset`, the table `Settable` |
| `TableSync` | `plugin/table_sync/sqlite_table_sync.rs` and the SQLite table | `table`, `pc`, `at`, `res`, `once` | `Sync`, `Create`, `Alter`, `Again`; operators `type_str`, `Unwrap` |
| `MCTableSync` | the instance TLC checks | | four programs, three initial tables |
| `StringUtil` | `rbatis-codegen/src/string_util.rs` | `arg` (the text) | `Type`; operators `find_convert_string`, `count_string_num`, `un_packing_string` |

### PgConnection

A call of the connection is an `async fn`: it runs until its next await, and
there the server (or the caller, by dropping the future) may act. The module
keeps the rest of the call in progress as `todo`, a sequence of steps, and has
one action per kind of step; a step is the synchronous code between two
awaits. `WaitUntilReady`, `Simple`, `RunStatement`, `Prepare` and
`CloseAndDrain` are the step sequences of the corresponding functions.

| code | model |
|---|---|
| `wait_until_ready` (76-90) | `WaitUntilReady` = flush, then `Drain`, which reads answers while `pending > 0` and hands every `ReadyForQuery` to `HandleReadyForQuery`; `FlushFails` is the `?` of the flush on a transport that has ended: the call returns the error with `wbuf` and `pending` as they were |
| `recv_ready_for_query` (92-102) | `RecvReadyForQuery`: the next answer must be `ReadyForQuery` |
| `handle_ready_for_query` (104-109) | `HandleReadyForQuery`: `pending - 1`, status from the message |
| `queue_simple_query` (114-117) | `QueueSimpleQuery`: `pending + 1`, `Query` appended to `wbuf` |
| `clear_cached_statements` (130-151) | `ClearCachedStatements` = `WaitUntilReady`, then `EvictAll`, then `CloseAndDrain(cleared)` |
| `flush` (157-159) | `Flush` = `WaitUntilReady` |
| `do_close`, `close` (162-180) | `Close` = write `Terminate`, flush, `Shutdown`; the flush (169) and the shutdown (170) are two awaits, and the call may fail or be dropped at either |
| `ping` (182-185) | `Ping`: a simple query |
| `get_rows`, `exec` (187-263) | `Run`: without parameters `Simple(q)`, with parameters `PrepareWith(q)` and `RunStatement(id)`; `Rows` keeps data rows for `get_rows` and command results for `exec` |

`PgStream`, `prepare_with`, `fetch_many`, `write_sync`,
`wait_for_close_complete` and `StatementCache` are used by this file and
defined elsewhere; they are modelled from the specification and marked
`spec_modelled` in the map. The server is the PostgreSQL backend as far as the
connection can tell: requests served one at a time in order, `ReadyForQuery`
after every `Query` and `Sync`, a transaction status among `I`, `T`, `E`, a
table of prepared statements.

`Cancel` is the caller dropping the future of the call in progress at one of
its awaits (`Suspended`): a flush that has something to send, a receive, or
the shutdown of `do_close`. A close dropped after its `Terminate` was sent
leaves a connection that is not `closed` and whose server has gone; the next
call on it fails at its flush or at its first receive. `abandoned` is a history variable: the statement ids a dropped
call had taken and not yet put in the cache. Nothing in the program reads it;
`NoStatementLeak` uses it to say which statements the server may hold that
the connection no longer knows.

Data is abstracted to what the properties tell apart: a simple query is one of
`begin`, `end`, `stmt` (what it does to the transaction status), a
parameterised statement is a member of `Sqls`, a row is the text of the
request that produced it.

### StatementCache

The cache type is not in this repository; the module states what the
connection relies on. `entries` is the list of cached statements from least
to most recently used, `live` the statement each id names on the server
(`None` for an id that names nothing). `Get` moves a hit to the recent end,
`Insert` needs room and a key that is not listed and, while the server is up,
a handle the server holds for that key; `RemoveLru(n)` drops the `n` oldest
entries; the server may `Prepare` under an unused id and `Close` only ids
that are no longer listed; `Lost` ends the session and every statement with
it.

### TxExecutor

One caller and the spawned task. A call on an executor borrows it mutably for
its whole duration, so nothing else can touch it meanwhile: every call is one
action, and what varies is how it ends (`Outcome`: Ok, Err with or without the
server having applied it, or dropped while suspended, and in each case with
the session still there or lost). `db` is the server's side (a transaction is
open or not), `last` records the latest call for the properties.

`exec` and `fetch` are `Run`: a request is the arguments (`none` or `some`)
and a chain of up to `MaxIntercepts` interceptors, each of which keeps, fills
or clears the arguments or fails the call (`Intercept`, folded over the chain
by `Intercepted`). `last.flag` is the `is_prepared` the interceptors were
shown, computed from the arguments as passed; `last.path` is the protocol the
connection takes for the arguments it is given (`Path`), or `none` when the
call ended before any I/O. `RbRun` is a call on the pooled handle `Rbatis`:
a connection is acquired for this call alone, or the pool refuses.
`SessionLost` is the server ending the session, which rolls back what is
open.

`fetch_decode` is the third inherent method of every executor (`Queries`):
`Executor::fetch`, then `decode` of the value it answered. `Decoded` is what
the caller sees: rows that do not fit the type asked for turn the Ok of a
statement the server has run into an Err. The method of `RBatisTxExecutor`
is declared to return `Value`, so it decodes into `Value` whatever type the
caller names; the guard has no method of its own and reaches the
transaction's through `Deref`, which panics on an empty guard.

### TxOverPg

`TxExecutor` lets a call end in one step with an outcome it assumes.
`TxOverPg` puts the two modules together: `Suspend` is the call up to its
await on the connection (interceptors run, `begin` has taken the executor by
value, the connection's `Exec` or `GetRows` has started); the connection and
the server then take their own steps (`Connection`); `Resume` is the return
with what the connection answered; `Dropped` is the caller dropping the call,
which is the connection's `Cancel`. `begin`, `commit` and `rollback` are simple
queries (the defaults of the `Connection` trait, which `PgConnection` does not
override). `Refused` and `Local` are the steps that need no I/O, taken from
`TxExecutor` as they are. A connection that no holder owns any more is closed
(`Orphaned`). `db` of `TxExecutor` is no variable here: it is `SessionAfter`,
what the server's transaction status will be once it has served the requests
on their way.

### Page

`it` is built by a constructor and changed by the setters, all values taken
from `0 .. 2^Width - 1`. Division by zero sets `panicked` and ends the
behaviour. Multiplication is modulo `2^Width`, which is what a release build
computes; a build with overflow checks panics on the same inputs.

`Settable` lists the fields the setters of `IPageRequest` assign and the
values each may be given: `total`, `page_size`, `page_no` and `search_count`.
`RequestSet` and `Set` are the setter of one field on a `PageRequest` and on
a `Page`; neither touches another field, so a `Page` keeps the `pages` it
was built with whatever `total` or `page_size` it is given later (run
`page_contract`). The records of a `Page` are kept as their number
(`0 .. MaxRecords`) and their element type (`of`): `SetRecords` is
`set_records` and what a caller does through `get_records_mut`, `From`
converts every record and copies every other field, `pages` included.

### TableSync

Each program is at one of the awaits of `sync`: before `CREATE TABLE`
(`create`), before the `ALTER TABLE` of field `at` (`alter`), or returned
(`done`, with `res`). `Sync` is the match on the value (`Value::Ext` is
unwrapped, anything but a map answers the error `not_struct`), `Create` and
`Alter` are one statement each together with what the code does with its
answer. The table is `NoTable` or a set of columns `[name, type]`, the type
from `type_str`. What SQLite answers is modelled from SQLite: a `CREATE` of a
table that exists says "already exists" (before it looks at the columns, so
also for a value without fields); a table needs a column and has at most one
primary key; `ADD` of a column whose name exists says "duplicate column";
`ADD` of a primary key is refused. Any statement may also fail for a
reason of its own (`io`, where a refusal by SQLite is `db`). `Again` is the
next start of the program; `once` remembers that a program was answered Ok
before.

### StringUtil

The three functions are operators on sequences of bytes; `arg` grows by one
byte per step, so the reachable states are the texts up to `MaxLen`.
`find_convert_string` is a fold of `Scan`, the loop body, over the positions
of the text, carrying `last_index` and the list (the `HashSet` is the set of
names in the list). Positions count from 1 and "none" is 0, where the code
counts from 0 and uses -1. `Placeholders` says what the result should be
without scanning: a placeholder begins at an opener that lies in no earlier
placeholder and ends at the first `}` after it. The three quote bytes are
written `sq`, `bq`, `dq`.

### SerRef

serde turns serialization inside out: `to_value_ref(a)` calls
`a.serialize(SerRef {})`, and from then on the implementation of `a` decides
which method of the serializer is called next. The implementation is the
environment of the model; the module is the serializer's side of every call.

`stack` is the Rust call stack. A frame is a builder the implementation
holds (`seq`, `tuple`, `tuple_struct`, `tuple_variant`, `struct_variant`,
`struct`, `map`, with its `inner`), a method of a builder that has called
`value.serialize(..)` and waits for the result (`serialize_element`,
`serialize_field`, `serialize_key`, `serialize_value`), or a wrapper that
waits likewise (`serialize_some`, `serialize_newtype_struct`,
`serialize_newtype_variant`).

| code | model |
|---|---|
| `serialize_bool` .. `serialize_unit_variant` (200-282) | `SerializePrimitive(l)`: the value is `Primitive(l)` and is returned down the stack by `Return` |
| `serialize_some`, `serialize_newtype_struct`, `serialize_newtype_variant` (260-306) | `SerializeWrapped`: a frame; on return a newtype struct wraps the value in `Ext(name, ..)`, the other two hand it on |
| `serialize_seq` .. `serialize_struct_variant` (308-375) | `SerializeBuilder`: an empty builder |
| `serialize_element`, `serialize_field`, `serialize_key`, `serialize_value` | `SerializeInto`: a frame; on return `Push` changes `inner` as the method does |
| `serialize_value` with no pair (149-150) | `SerializeValueSkipped`: answers Ok and does not serialize its argument |
| `end` of the builders | `BuilderEnd`: `Array(inner)` or `Map(inner)`, returned down the stack |
| the `?` after every `value.serialize(..)` | `Failed`: the error of an implementation unwinds every frame |

A number is itself; a text or a byte string is the buffer it lies in, and
`Temporary` is a buffer the implementation made for the call and frees when
the call returns. Static texts (field names, variant names, newtype names)
are kept in `n`. `arg` is a history variable: the tree of the calls made,
from which `Image` computes what the result should be.

### PgTypeInfo and PgArguments

`type_info` is a table look-up, recursive for arrays (the type of the first
element, passed through `to_array_element`). `PgArguments` extends `SerRef`
and applies `type_info` to `out`, which is what `Connection::exec` does with
every parameter before it prepares. Integer widths are scaled (`Bits`: 8, 16,
32 and 64 bits are 2, 3, 4 and 5 in the instance), which keeps their order
and the relation of each signed type to the unsigned one of its width.
`TypeInfo` is implemented for `Value` (types/mod.rs 33) and `SerRef` answers
a `ValueRef`; the two have the same variants, and the module applies
`type_info` to what `SerRef` answered, variant for variant.

### SqliteChrono

`cell` is a column of SQLite. `Encode(kind, dt)` stores a value of one of the
six chrono types the way the code does; `Store(value)` is another program
(or SQLite's own `datetime()`, `julianday()`, `strftime('%s')`) storing a
text in any of the documented formats, an integer, a float, or something
that is no date; `Decode(kind)` reads the column as one of the six types.

Time is counted in ticks, `Res` to the second. A `DateTime` is `[utc, off]`.
A text is what chrono's parsers can tell apart: its form (date, time,
date-time), the separator, the precision (`R` minutes, `T` seconds), the
zone (none, `Z`, an offset) and the wall clock and offset its digits spell.
`parse_from_rfc3339`, `DateTime::parse_from_str` and the naive
`parse_from_str` are modelled from chrono's documentation: a `DateTime`
parser needs an offset in the text; a naive parser reads an offset the
format names and drops it. `decode_datetime_from_text` is RFC 3339 first and
then `FirstOk` over the twelve formats with `Attempt` (with offset, else
naive) as the loop body. `decode_datetime_from_float` rounds the seconds
towards zero and takes a negative fraction for 0, as `as i64` and `as u32`
do.

The first of the time formats is written `"%T.f"` in the code (190): a
format that ends in the two bytes `.f`, which matches no time. The model
keeps it as a format no text has; the next format reads what it was meant
to.

### SqlMacro

The macro's inputs are the statement and the names of the parameters of the
function it is put on; both are written one piece at a time, so the
reachable states are all statements up to `MaxSql` lexemes and all
signatures up to `MaxParams` names. `impl_macro_sql` answers the call the
generated function makes: `fetch_prepare` or `exec_prepare`, the `tx_id`
and the arguments pushed. The generated code calls an executor interface
with a `tx_id` parameter, which `executor.rs` of this repository does not
have; the macro is therefore modelled up to the call and not composed with
`TxExecutor`.

### MCSqlHelpers

`StringUtil`, `SqlMacro`, `SqliteChrono` and `Page` share nothing. They are
checked in one instance whose next-state relation lets one of them step
while the other three are in their initial state, so the reachable states
are the sum of the four state spaces and not their product, and every
invariant is evaluated on exactly the states of its own module.

## 3. Properties

`PgConnection`

| property | kind | says |
|---|---|---|
| `TypeOK` | invariant | types; `pending` within `MaxPending`; the cache within `Capacity` |
| `PipelineAccounting` | invariant | the counter equals the `Query`/`Sync` requests not yet served plus the `ReadyForQuery` not yet read |
| `ReadyIsSynchronised` | invariant | nothing owed and nothing buffered implies `transaction_status` is the server's |
| `ResultsBelongToRequest` | invariant | what a call collects is the answer to its own request |
| `CachedStatementsArePrepared` | invariant | every cached handle names a statement the server holds for that sql |
| `NoStatementLeak` | invariant | every statement the server holds is cached, being closed, or being admitted; the one exception is the statement a dropped call was preparing |
| `NoProtocolError` | invariant | no call meets an answer it does not expect |
| `CallReturns` | liveness | every call that is not dropped returns |
| `ImplementsStatementCache` | refinement | every step of the connection and the server is a step of `StatementCache`, or leaves the cache and the server's statements as they were |
| `EvictionSettledBeforeAdmit` | action property | in the state an entry enters the cache, no `Close` is on its way, no `CloseComplete` is unread and no acknowledgement is owed: the eviction that made room is over, also when the call that evicted was dropped and a later call admits |

`TxExecutor`

| property | kind | says |
|---|---|---|
| `TypeOK` | invariant | types; at most one transaction in the channel |
| `DoneOnlyOnSuccess` | action property | `done` turns true only in a commit or rollback answered Ok, with no transaction left open |
| `DisposalSettles` | liveness | after the guard is dropped the task ends, with the callback run if the guard held a transaction |

`TxOverPg`

| property | kind | says |
|---|---|---|
| `ImplementsTxExecutor` | refinement | whatever the connection does between the start and the end of a call, the caller and the holders see a call that ended in one of the ways `TxExecutor` allows |
| `FinishedMeansIdle` | invariant | a commit or rollback of a transaction that was not done answers Ok(true) only when the server has ended the transaction, the connection's status says so, and nothing is owed |
| `DisposalSettles` | liveness | the deferred rollback of a dropped guard runs to its end on the connection, whatever earlier dropped calls left in the pipeline |

`Page` (in `sql_helpers` the type invariant is named `PageTypeOK`)

| property | kind | says |
|---|---|---|
| `TypeOK` | invariant | every field stays within the width, the records within `MaxRecords` |
| `GetPagesIsCeiling` | invariant | `get_pages` equals the least `n` with `n * page_size >= total`, 0 for page size 0 |
| `PagesCoverTotal` | invariant | every page up to `get_pages` has its offset inside the total, and the last one reaches the end |

`TableSync`

| property | kind | says |
|---|---|---|
| `TypeOK` | invariant | types; every column has a name of some field and a type `type_str` can give |
| `OkMeansSynced` | invariant | when `sync` has answered Ok the table exists and has a column for every field, however the statements of the programs interleaved and wherever one failed |
| `ResyncSucceeds` | invariant | a program that was answered Ok once is never refused by the database on a later `sync` |

Two things the model reaches and no property speaks of, because nothing
says what `sync` promises there: "duplicate column" is success by the name
alone, so `sync` answers Ok for a column another version made with another
type; and for a table that exists without the key column `sync` fails at the
key on every run.

`StringUtil`

| property | kind | says |
|---|---|---|
| `TypeOK` | invariant | the text, and what `count_string_num` and `un_packing_string` answer for it, stay in range |
| `FindsThePlaceholders` | invariant | `find_convert_string` = `Placeholders`: the closed outermost placeholders, once per name, in order, each with its text |
| `UnpackingUndoesQuoting` | invariant | quoting any text and unpacking gives the text back; what unpacking changes was quoted |

The scanner's cache is keyed by the name alone: after `#{a}` a later `${a}`
is not listed. `FindsThePlaceholders` states that as the behaviour.

`SerRef` and `PgArguments`

| property | kind | says |
|---|---|---|
| `TypeOK` | invariant | the stack is builders, each but the innermost under one of its own methods, with wrappers between; what `to_value_ref` answers is a `ValueRef` (elements of arrays are values, entries of maps are pairs) |
| `ResultIsImage` | invariant | for an implementation that passes keys and values of maps in turn, the result is `Image(arg)`: every value where the argument has it, however the builders were nested |
| `EntryPerKey` | invariant | a map under construction has one entry per key passed, whatever was passed as a value and when |
| `DeclaredTypeHoldsNumber` | invariant | an integer arrives unchanged, in a variant that holds it, and is declared with the INT4 or INT8 of the variant's width; a signed one lies in the declared type's range |

`SqliteChrono`

| property | kind | says |
|---|---|---|
| `ChronoTypeOK` | invariant | what is read is an error or a value of the type asked for: no offset on a naive value or a `DateTime<Utc>`, the local one on a `DateTime<Local>` |
| `RoundTrip` | invariant | what `Encode` stored, `Decode` of the same type reads back, instant and offset, and the column's type is one the type calls compatible |
| `TextIsItsInstant` | invariant | a date-time text in any of the twelve formats, written by anyone, is read as the instant it spells (UTC where it names no zone) |
| `JulianDayWithinASecond` | invariant | a float is read as its instant from 1970 on; before 1970 never early and less than a second late |

`SqlMacro`

| property | kind | says |
|---|---|---|
| `FetchesOnlyQueries` | invariant | a statement whose rows are fetched has `select` or `SELECT` as its first word (the two spellings `is_select` knows), and not a longer word that begins with it |
| `ArgsAreTheParameters` | invariant | every parameter but the handle and `tx_id` is an argument, once and in order; `tx_id` is handed on when the function has it |

The converse of `FetchesOnlyQueries` does not hold and is not claimed:
`Select`, or `select` followed by anything but a blank, is executed and its
rows are dropped.

Every property of a passing run has a seeded fault (`mutants` in
`PROJECT.json`): a definition, written next to the one it replaces, that
changes it the way a slip in the code would (the counter not incremented, an
`if` for the `while`, the drain left out of `wait_until_ready`, a query
counted twice, `done` set on any return, `begin` handing back an executor after a
failure, a map's value pushed as a pair of its own, the naive parser tried
first, the seconds of a float rounded down, the blank after `select` not
asked for). TLC finds the property violated with the fault in place.

## 4. Refinements

**PgConnection implements StatementCache.** The mapping is
`entries <- cache`, `live <- srvStmts`, `up <- srvUp`. It is checked as the
property `ImplementsStatementCache` of `pg_pipeline`. What it rules out is an
order of steps, not a state: an entry inserted before the server has the
statement, a statement closed on the server while it is still listed, an
eviction that is not from the old end. The connection removes the entries in
`EvictAll` and closes them afterwards, which is the order the abstract `Close`
demands; the seeded fault that keeps the entries while closing is caught here.

**TxOverPg implements TxExecutor.** The mapping hides a call in progress:
while a call is suspended, `db` is the session as the call found it
(`cur.db0`) and an executor that `begin` has taken is still where it was
(`cur.held`); when no call is suspended `db` is `SessionAfter`. The step that
ends the call (`Resume` or `Dropped`) is the one abstract step, so that the
abstract outcome is no longer chosen freely: it is what the connection, the
server and the transport did. The property is `TxExecutor`'s `Safety` (its
initial condition and next-state relation, without its fairness).

The composition changed the abstract specification once. With a session that
may end at any moment, a call can return Ok for a `begin` whose session is
already gone: the answer was written before the transport failed and read
after. `TxExecutor` had no outcome for that; `Outcome` now carries `lost`, and
the properties of `TxExecutor` hold with it.

## 5. What the specification says and the code does not do

Each of these is a run that expects a violation; the finding is in
`PROJECT.json`.

| run | property | the code |
|---|---|---|
| `tx_finished_still_sends` | `FinishedTxIssuesNoMessage` | `commit`, `rollback`, `exec`, `fetch` never test `done` (executor.rs 315-326) |
| `tx_guard_begin_loses_tx` | `TxLeavesGuardOnlyByHandoff` | the guard's `begin` takes the transaction before the await and loses it on failure (361-370); `Deref` and `get_rbatis` then unwrap the empty Option (426-457) |
| `exec_flag_not_path` | `PathFollowsFlag` | `is_prepared` is computed before the interceptors run, the connection decides after them (87-107) |
| `tx_failed_commit_is_ok` | `FailedFinishSurfaces` | a refused commit answers `Ok(false)` (315-320) |
| `page_contract` | `PageKeepsAPromise` | `Page::new_total` divides by `page_size` unguarded (page.rs 163-194), and the setters leave the field `pages` as it was (229-237) |
| `text_outlives_its_buffer` | `BorrowsFromArgument` | `serialize_str` and `serialize_bytes` return a reference of any lifetime to what they were given (se_ref.rs 248-254) |

`PageKeepsAPromise` is the disjunction of the two promises the
specification makes of a `Page` (no constructor panics; the stored `pages`
is the ceiling): the counterexample is a `Page` whose total was set, so that
its stored count is stale, followed by a construction with page size 0. Each
of the two is a finding of its own in `PROJECT.json`, and each is an
invariant of `Page` (`ConstructionNeverPanics`, `StoredPagesAgree`) that can
be checked alone by naming it in the configuration.

`BorrowsFromArgument`: the signatures `to_value_ref<T>(a: &T) ->
Result<ValueRef, Error>` and `ValueRef<'a>::serialize(&mut self, arg: &'a T)`
tie the result to the argument. `Serializer::Ok` is `ValueRef<'static>`, and
`serialize_str` gets there with `unsafe { &*(v as *const str) }`. An
implementation that formats its value and passes the text (serde's default
`collect_str` does, for every type serialized through `Display`) passes a
`String` that is freed when `serialize_str` returns; the `ValueRef` still
points to it. The counterexample is one step long.

Others of the same kind are reached by the models and have no run of their
own. `impl Type` calls a column of type `Datetime` compatible with the three
`DateTime` types and `NaiveDateTime` (chrono.rs 19-34), and `decode_datetime`
has no arm for it (102-109): `Decode` of such a value is an error. An unsigned
integer is declared as the signed type of its width (types/mod.rs 40-41), so
the upper half of `u32` does not fit the `INT4` it is sent as. `begin` after `commit` leaves `done = true` over an open transaction
(executor.rs 311-314); that is one of the calls on a finished transaction
`tx_finished_still_sends` is about. `offset` multiplies in u64 (page.rs 37),
so a page number far beyond the last page gives a product modulo 2^64;
`PagesCoverTotal` shows that no page up to `get_pages` is affected.

One statement of the specification is contradicted by a run that passes.
Section 5 of the specification says that a pipelined request abandoned
mid-flight leaves the pending-acknowledgement counter permanently
inconsistent. In `pg_pipeline` a call is dropped at any of its awaits, and
`PipelineAccounting`, `ReadyIsSynchronised` and `ResultsBelongToRequest` hold:
the counter is incremented in the same synchronous step that writes the
request, so it is right wherever the call is dropped, and the next
`wait_until_ready` reads what was left. `tx_over_pg` shows the same one layer
up: a `commit` after a dropped `begin` or `exec` answers Ok(true) only for a
transaction the server has ended. What a dropped call does leave behind is a
statement the server prepared and the cache never learnt of (`abandoned`).

## 6. Runs, bounds, fairness

| run | module, cfg | expects | states | shows |
|---|---|---|---|---|
| `pg_pipeline` | `MCPgConnection`, `PgConnection.cfg` | pass | 888,297 | the ten properties of the connection, with a dropped call and a transport that may end at any time |
| `tx_over_pg` | `MCTxOverPg`, `TxOverPg.cfg` | pass | 707,347 | the executors on the connection implement `TxExecutor`; Ok(true) means ended; the deferred rollback completes |
| `tx_lifecycle` | `TxExecutor`, `TxExecutor.cfg` | pass | 2,449 | `done` and disposal, over every interceptor chain of up to two |
| `table_sync` | `MCTableSync`, `TableSync.cfg` | pass | 64,904 | Ok means synced and `sync` can be repeated, with four programs and failing statements |
| `sql_helpers` | `MCSqlHelpers`, `SqlHelpers.cfg` | pass | 469,143 | the scanner against the definition by positions, unpacking and counting; the macro's call; the paging arithmetic against its definition; the date codecs on what they and others stored |
| `values` | `MCValues`, `Values.cfg` | pass | 746,509 | the serializer against the image of its argument, over every sequence of calls, and the type each integer is declared with |
| the six runs of section 5 | | violation | | |

Bounds, and why they are enough:

* `pg_pipeline`: `Sqls = {s1, s2}`, `Capacity = 1`: the second statement
  always finds the cache full, so every miss after the first evicts, and a
  hit, a miss and an eviction all occur; a third statement adds no new case.
  `MaxPending = 2`: `queue_simple_query` may be called twice before the next
  call, so `wait_until_ready` has to loop; with one, a loop and a single read
  could not be told apart. `MaxStatementId = 2`: prepare, and evict-and-prepare
  under a new id. `MaxCancels = 1`: one call dropped, at any await of any
  call, also of the call that drains what queued queries left; a second
  dropped call multiplies the states past what a run of minutes explores.
  `Lossy = TRUE`: the transport may end in any
  state. `Close` is not started while a `Terminate` is still in `wbuf`: a
  close that failed or was dropped before its flush is not tried again on
  top of itself, which would grow the buffer without a new case. Three
  statements and a cache of two take more than the minutes a run is given
  here (section 8).
* `tx_over_pg`: one statement, `Capacity = 1`, `MaxPending = 1`,
  `MaxStatementId = 1`, `MaxCancels = 1`, `Lossy = TRUE`, `MaxIntercepts = 1`.
  The cases this run is for need one of each: a call dropped mid-flight
  followed by a call that must drain its answers; a session lost under a
  call; an interceptor that changes the path or refuses; one prepared
  statement beside the simple queries. Eviction and the drain loop are the
  business of `pg_pipeline`: the executors never call `queue_simple_query`,
  so `pending` does not pass 1 here whatever `MaxPending` allows.
* `tx_lifecycle`: `MaxIntercepts = 2`, so that a later interceptor sees what
  an earlier one did (fill then clear, clear then veto). Everything else in
  `TxExecutor` is finite as it stands (one connection, one guard, a channel
  that holds at most one transaction).
* `Page` (in `sql_helpers` and `page_contract`): `Width = 3`,
  `DEFAULT_PAGE_SIZE = 2`: totals, sizes and page numbers 0..7 contain zero,
  one, exact multiples, remainders, a page size above the total and products
  beyond the width. `MaxRecords = 1`: a Page without records and with some,
  which is all `From` and the setters tell apart.
* `TableSync`: four programs. Two hold versions of one struct (`id, a` and
  `id, a, b`, with `a` of another type), so that each meets columns the other
  made; one marks its key by the value `"id"`; one has no fields. The
  database starts empty, with the first version's table, or with a table
  without key. A program may sync any number of times; the state is finite
  because the table only grows.
* `StringUtil` (in `sql_helpers`): texts up to 7 bytes over `# $ { }` and two quotes, which
  are the bytes of names as well. They hold two complete placeholders with
  the same name (`#{}${}`) and with different ones (`#{sq}#{}`), a
  placeholder inside another, openers at the last byte, closers without
  opener; and the single quote byte, the empty quoted text, mixed and nested
  quotes.
* `SqlMacro` (in `sql_helpers`): `MaxSql = 4` lexemes over `select`,
  `SELECT`, `Select`, another word, a blank and a quote: blanks before and
  after the statement (trim), the quoted and the unquoted literal, the
  keyword with and without its blank, a keyword glued to another word
  (`select` `x` is `selectx`), and the spelling the test does not know.
  `MaxParams = 3` of `rb`, `tx_id`, `a`, `b`: the handle and `tx_id` at any
  position among the arguments, or absent.
* `SqliteChrono` (in `sql_helpers`): `Res = 2` ticks to the second and
  `Clock = -3 .. 3`, so that there are instants before and after 1970, on a
  second and between two; `Offsets = {-4, 0, 4}` and `Local = 4`, offsets of
  more than the span between two instants, so that a dropped offset always
  shows; `MaxTimestamp = 2`, with integers stored up to one beyond it on
  either side, so that `from_timestamp_opt` refuses some.
* `values`: `MaxDepth = 4` calls that have not returned and `MaxLen = 2`
  values to a builder: a map whose value is a map (builder, method, builder,
  method), a key that is itself built, two keys in a row, a value before any
  key, a wrapper around a builder and inside one. At the top, and inside
  one wrapper, every primitive is passed, the integers as the least and the
  greatest of their type and texts from the argument and from a temporary;
  inside builders `i8`, `str` and `None` stand for all of them, since a
  builder treats every value alike. `Bits` scales the widths 8, 16, 32, 64
  to 2, 3, 4, 5 bits.

Fairness:

* `PgConnection`: `WF(Steps)`, because a future that is awaited and not
  dropped is polled until it returns, and `WF(Server)`, because a server that
  is up answers what it received. Nothing is assumed of the caller (it need
  not call again), of `Cancel`, or of `ConnectionLost`: the transport is not
  obliged to fail, and a call has to return whether it does or not.
* `TxExecutor`: `WF(Task)`, because the runtime polls a spawned task that can
  proceed (`rbdc::rt::spawn`). The callback is the caller's closure; the
  model fixes it to the one the documentation of `defer_async` gives, a
  rollback of the transaction it is handed, and `DisposalSettles` is a
  statement about that callback: a closure that never returns keeps the task
  alive whatever the executor does. The caller owes nothing: a guard that is never
  dropped keeps the task waiting, and `DisposalSettles` speaks only of guards
  that were dropped.
* `TxOverPg`: `WF(Progress)` and `WF(Server)`. `Progress` is the steps of the
  connection for a call nobody dropped, the return of that call, and the
  spawned task (its receive and the callback's rollback), for the two reasons
  above. The caller's own calls, `Dropped` and the loss of the session are
  under no obligation.
* `Page`, `TableSync`, `StringUtil`, `SqlMacro`, `SqliteChrono` and `SerRef`
  have no liveness property and no fairness: the first five are functions of
  their input, and the serializer makes no step of its own; whether
  `to_value_ref` returns is up to the implementation it serializes.

Deadlock checking is on for `TableSync`, where some program can always
start again. It is off in the other runs, for a reason each time: a closed
`PgConnection` accepts no call; a caller that has given its connection away
(`take_conn`) or whose task has ended has nothing left to do; a panic in
`Page` ends the program; a text of `MaxLen` bytes is complete; `to_value_ref`
has returned.

## 7. Not modelled

* The SQL text, the rows and the parameter values: a request is a member of a
  small set, and the answer carries the name of its request.
* TLS, SASL, the startup handshake, notices, notifications and parameter
  status messages: they do not touch the counter, the status or the cache.
* A server that breaks the protocol. `NoProtocolError` says the connection
  never meets such an answer from a server that keeps it. For the same reason
  a `ReadyForQuery` that fails to decode (mod.rs 105, after the counter was
  decremented) is a hazard without a property.
* A write that the transport takes in part. `FlushFails` is a flush that
  sends nothing; `StreamFlush` sends the whole buffer.
* The panic of `offset` and `pages` in a build with overflow checks: `Mul`
  wraps, as the release build does.
* The wrap of `next_statement_id` after 2^32 prepares: the increment is in
  `prepare_with`, outside this repository, and the model stops preparing at
  `MaxStatementId`.
* The declared parameter types of a prepared statement. `get_rows` prepares
  with none (mod.rs 202), `exec` with the `type_info` of its parameters
  (238-242), and the cache is keyed by the SQL text: the model has one entry
  per text, whoever prepared it, and so reaches a statement prepared by one
  and run by the other. What the server makes of parameters bound to other
  declared types is decided by the encoder, outside this repository.
* The two log records of `exec`/`fetch`, and the connection pool behind
  `Rbatis::acquire`: the pool is not in this repository, and `RbRun` knows of
  it only that it hands out a connection or refuses.
* The text of the SQL that `sync` builds (table name, commas): only the
  columns, their types and the key reach the database of the model.
* `template.rs` and the syntax-tree records `when_node.rs`,
  `foreach_node.rs`: a table of keyword strings filled once by `Default`, and
  two records with a constant name. They have no operation; the code that
  reads them (the template compiler) is not in this repository.
* What is left unmapped of `executor.rs`, `page.rs` and
  `connection/mod.rs` is imports, `Debug` implementations, getters and
  methods that only delegate (`get_rbatis`, `driver_type`, `Deref`, the
  getters of `IPageRequest`, the inherent `exec` and `fetch` of
  `RBatisTxExecutor`, which call the trait's): nothing that changes state.
* The encoding of an array's elements, and `to_array_element`: outside this
  repository. `type_info` of an array is modelled; that every element has
  the declared type is not something the code under `src/` decides.
* chrono's parsers character by character, leap seconds, dates out of
  chrono's range, and the time zone database: a text is the features the
  parsers tell apart, and `Local` is a fixed offset.
* The tokens the `sql` macro emits, beyond the call they make.

## 8. Plan

Done: `PgConnection` with `StatementCache` as its abstract cache,
`TxExecutor` with the interceptor chain and the pooled handle, their
composition `TxOverPg`, `Page`, `TableSync`, `StringUtil`, `SerRef` with
`PgTypeInfo`, `SqliteChrono`, `SqlMacro`.

Next, in this order:

1. `fetch_decode` in `TxOverPg`: the composition runs `exec` and `fetch`
   only, `tx_lifecycle` has the third method with the outcome assumed. The
   method added to `Suspend` and `Resume` doubles the run.
2. A second dropped call in `pg_pipeline` (`MaxCancels = 2`), for a call
   dropped while it drains what another dropped call left.
3. Larger instances as runs of their own: `pg_pipeline` with three
   statements and a cache of two, `tx_over_pg` with two statements, where a
   deferred rollback can meet an eviction a dropped call left half-way.
