---------------------------- MODULE PgConnection ----------------------------
(***************************************************************************)
(* The pipelined PostgreSQL connection of                                  *)
(* src/rbdc-pg/src/connection/mod.rs and the server it talks to.           *)
(*                                                                         *)
(* A call of the connection is the sequence of steps it still has to take  *)
(* (todo): the synchronous code up to the next await is one step, so the   *)
(* server runs between any two of them.  Requests travel wbuf -> inbox,    *)
(* answers outbox -> the call, both in FIFO order.                         *)
(***************************************************************************)
EXTENDS Naturals, Sequences, SequencesExt

CONSTANTS
    Sqls,            \* the statements submitted with parameters (cache keys)
    Capacity,        \* capacity of cache_statement
    MaxPending,      \* bound: queue_simple_query stops at this many owed answers
    MaxStatementId,  \* bound: the last value next_statement_id may hand out
    MaxCancels,      \* bound: how many suspended calls the caller may drop
    Lossy            \* the transport may end at any time

\* Simple queries, by what they do to the transaction status.
Kinds == {"begin", "end", "stmt"}

ASSUME /\ Sqls \cap (Kinds \cup {"-"}) = {}
       /\ Capacity \in Nat \ {0} /\ MaxPending \in Nat \ {0}
       /\ MaxStatementId \in Nat /\ MaxCancels \in Nat /\ Lossy \in BOOLEAN

VARIABLES
    todo,       \* the steps the call in progress has left; <<>> between calls
    call,       \* the call in progress or the latest one, and how it went
    wbuf,       \* stream.wbuf: requests written and not flushed
    pending,    \* pending_ready_for_query_count
    status,     \* transaction_status
    cache,      \* cache_statement, least recently used first
    nextId,     \* next_statement_id
    closed,     \* the stream was shut down
    inbox,      \* requests flushed and not yet served
    outbox,     \* answers sent and not yet received
    srvStatus,  \* the server's transaction status
    srvStmts,   \* the server's prepared statements: id -> sql, "-" if none
    srvUp,      \* the transport is up
    cancels,    \* the calls dropped so far
    abandoned   \* history: the ids whose prepare_with was dropped

client == <<wbuf, pending, status, cache, nextId, closed>>
server == <<inbox, outbox, srvStatus, srvStmts, srvUp>>
caller == <<cancels, abandoned>>
apart == <<server, caller>>                              \* not the connection's
beyond == <<inbox, srvStatus, srvStmts, srvUp, caller>>  \* not a receive's
vars == <<todo, call, client, apart>>

Fe(t, q, id) == [t |-> t, q |-> q, id |-> id]       \* a frontend message
Be(t, x) == [t |-> t, x |-> x]                       \* a backend message
Sync == Fe("Sync", "-", 0)
Step(do, q, n) == [do |-> do, q |-> q, n |-> n]
Do(do) == Step(do, "-", 0)

Owing(msgs) == Len(SelectSeq(msgs, LAMBDA m : m.t \in {"Query", "Sync"}))
Ids == 1..MaxStatementId

-----------------------------------------------------------------------------
(* The calls, as step sequences.                                           *)

\* Seeded fault: the buffer is flushed, what is pending is not waited for.
WaitWithoutDrain == <<Do("flush")>>
WaitUntilReady == <<Do("flush"), Do("drain")>>
Simple(q) == WaitUntilReady \o <<Step("query", q, 0), Do("flush"), Do("rows")>>
RunStatement(id) ==
    WaitUntilReady \o <<Step("execute", "-", id), Do("flush"), Do("rows")>>
Prepare(q, id) ==
    WaitUntilReady \o <<Step("parse", q, id), Do("flush"), Do("parse_complete"),
                        Do("ready"), Step("admit", q, id)>>
\* Seeded fault: the CloseComplete answers are not waited for.
CloseWithoutDrain(n) == <<Do("flush"), Do("ready")>>

CloseAndDrain(n) == <<Do("flush"), Step("close_complete", "-", n), Do("ready")>>

Idle == todo = <<>> /\ ~closed
Start(op, q, steps) ==
    /\ Idle
    /\ call' = [op |-> op, req |-> q, got |-> "-", err |-> "-"]
    /\ todo' = steps

\* prepare_with: a hit reuses the cached handle and marks it most recently
\* used; a miss takes the next statement id and prepares.
PrepareWith(q) ==
    LET hit == SelectSeq(cache, LAMBDA e : e.sql = q) IN
    IF hit # <<>>
    THEN /\ cache' = SelectSeq(cache, LAMBDA e : e.sql # q) \o hit
         /\ todo' = RunStatement(hit[1].id)
         /\ UNCHANGED nextId
    ELSE /\ nextId <= MaxStatementId
         /\ nextId' = nextId + 1
         /\ todo' = Prepare(q, nextId) \o RunStatement(nextId)
         /\ UNCHANGED cache

\* exec and get_rows: no parameters, the simple query; parameters, prepare_with
\* and the extended protocol.
Run(op, q) ==
    /\ Idle
    /\ call' = [op |-> op, req |-> q, got |-> "-", err |-> "-"]
    /\ \/ q \in Kinds /\ todo' = Simple(q) /\ UNCHANGED <<cache, nextId>>
       \/ q \in Sqls /\ PrepareWith(q)
    /\ UNCHANGED <<wbuf, pending, status, closed, apart>>

Exec(q) == Run("exec", q)
GetRows(q) == Run("get_rows", q)
Ping == Start("ping", "stmt", Simple("stmt")) /\ UNCHANGED <<client, apart>>
Flush == Start("flush", "-", WaitUntilReady) /\ UNCHANGED <<client, apart>>
\* do_close does not drain first.  Bound: a close that was dropped or failed
\* before its Terminate was sent is not tried again while that Terminate is
\* still in wbuf.
Close ==
    /\ \A m \in ToSet(wbuf) : m.t # "Terminate"
    /\ Start("close", "-", <<Do("terminate"), Do("flush"), Do("shutdown")>>)
    /\ UNCHANGED <<client, apart>>
ClearCachedStatements ==
    Start("clear", "-", WaitUntilReady \o <<Do("evict_all")>>)
        /\ UNCHANGED <<client, apart>>

\* Seeded fault: the query is queued and not counted.
QueueUncounted(q) ==
    /\ Idle
    /\ wbuf' = Append(wbuf, Fe("Query", q, 0))
    /\ UNCHANGED <<todo, call, pending, status, cache, nextId, closed, apart>>

\* Seeded fault: the query is counted when queued and again when written.
QueueCountedTwice(q) ==
    /\ Idle
    /\ pending < MaxPending
    /\ pending' = pending + 2
    /\ wbuf' = Append(wbuf, Fe("Query", q, 0))
    /\ UNCHANGED <<todo, call, status, cache, nextId, closed, apart>>

QueueSimpleQuery(q) ==
    /\ Idle
    /\ pending < MaxPending
    /\ pending' = pending + 1
    /\ wbuf' = Append(wbuf, Fe("Query", q, 0))
    /\ UNCHANGED <<todo, call, status, cache, nextId, closed, apart>>

-----------------------------------------------------------------------------
(* The steps of a call.                                                    *)

At(do) == todo # <<>> /\ Head(todo).do = do
Pop == todo' = Tail(todo)
Fail(why) == todo' = <<>> /\ call' = [call EXCEPT !.err = why]
Recv == outbox # <<>> /\ outbox' = Tail(outbox)
Refused(m) == IF m.t = "ErrorResponse" THEN "db" ELSE "protocol"

\* Seeded fault: the acknowledgement is counted and its status dropped.
HandleWithoutStatus(m) == pending' = pending - 1 /\ status' = status

HandleReadyForQuery(m) == pending' = pending - 1 /\ status' = m.x

\* stream.write of what the step sends; every Query and Sync is owed an answer.
StreamWrite ==
    /\ todo # <<>>
    /\ LET s == Head(todo)
           out == CASE s.do = "query"     -> <<Fe("Query", s.q, 0)>>
                    [] s.do = "parse"     -> <<Fe("Parse", s.q, s.n), Sync>>
                    [] s.do = "execute"   -> <<Fe("Execute", "-", s.n), Sync>>
                    [] s.do = "terminate" -> <<Fe("Terminate", "-", 0)>>
                    [] OTHER              -> <<>>
       IN /\ out # <<>>
          /\ wbuf' = wbuf \o out
          /\ pending' = pending + Owing(out)
    /\ Pop
    /\ UNCHANGED <<call, status, cache, nextId, closed, apart>>

StreamFlush ==
    /\ At("flush")
    /\ inbox' = IF srvUp THEN inbox \o wbuf ELSE inbox
    /\ wbuf' = <<>>
    /\ Pop
    /\ UNCHANGED <<call, pending, status, cache, nextId, closed, outbox,
                   srvStatus, srvStmts, srvUp, caller>>

\* flush().await? on a transport that has ended: the call returns the error
\* with what it had written still in wbuf and counted in pending.
FlushFails ==
    /\ At("flush") /\ wbuf # <<>>
    /\ ~srvUp
    /\ Fail("io")
    /\ UNCHANGED <<client, apart>>

\* Seeded fault: an if for the while; one acknowledgement is read, not all.
DrainOnce ==
    /\ At("drain")
    /\ \/ pending = 0 /\ Pop /\ UNCHANGED <<call, pending, status, outbox>>
       \/ /\ pending > 0
          /\ Recv
          /\ LET m == Head(outbox) IN
               CASE m.t = "ErrorResponse" ->
                        Fail("db") /\ UNCHANGED <<pending, status>>
                 [] m.t = "ReadyForQuery" ->
                        HandleReadyForQuery(m) /\ Pop /\ UNCHANGED call
                 [] OTHER -> UNCHANGED <<todo, call, pending, status>>
    /\ UNCHANGED <<wbuf, cache, nextId, closed, beyond>>

\* The loop of wait_until_ready: answers are read until none is owed.
Drain ==
    /\ At("drain")
    /\ \/ pending = 0 /\ Pop /\ UNCHANGED <<call, pending, status, outbox>>
       \/ /\ pending > 0
          /\ Recv
          /\ LET m == Head(outbox) IN
               CASE m.t = "ErrorResponse" ->
                        Fail("db") /\ UNCHANGED <<pending, status>>
                 [] m.t = "ReadyForQuery" ->
                        HandleReadyForQuery(m) /\ UNCHANGED <<todo, call>>
                 [] OTHER -> UNCHANGED <<todo, call, pending, status>>
    /\ UNCHANGED <<wbuf, cache, nextId, closed, beyond>>

\* The answers to the call's own request, up to its ReadyForQuery; exec
\* keeps the command results, get_rows the rows.
Rows ==
    /\ At("rows")
    /\ Recv
    /\ LET m == Head(outbox)
           kept == IF call.op = "get_rows" THEN "DataRow" ELSE "CommandComplete"
       IN CASE m.t = "ErrorResponse" ->
                   Fail("db") /\ UNCHANGED <<pending, status>>
            [] m.t = "ReadyForQuery" ->
                   HandleReadyForQuery(m) /\ Pop /\ UNCHANGED call
            [] m.t = kept ->
                   call' = [call EXCEPT !.got = m.x]
                       /\ UNCHANGED <<todo, pending, status>>
            [] OTHER -> UNCHANGED <<todo, call, pending, status>>
    /\ UNCHANGED <<wbuf, cache, nextId, closed, beyond>>

RecvReadyForQuery ==
    /\ At("ready")
    /\ Recv
    /\ LET m == Head(outbox) IN
         IF m.t = "ReadyForQuery"
         THEN HandleReadyForQuery(m) /\ Pop /\ UNCHANGED call
         ELSE Fail(Refused(m)) /\ UNCHANGED <<pending, status>>
    /\ UNCHANGED <<wbuf, cache, nextId, closed, beyond>>

RecvParseComplete ==
    /\ At("parse_complete")
    /\ Recv
    /\ LET m == Head(outbox) IN
         IF m.t = "ParseComplete" THEN Pop /\ UNCHANGED call ELSE Fail(Refused(m))
    /\ UNCHANGED <<client, beyond>>

WaitForCloseComplete ==
    /\ At("close_complete")
    /\ LET n == Head(todo).n IN
         \/ n = 0 /\ Pop /\ UNCHANGED <<call, outbox>>
         \/ /\ n > 0
            /\ Recv
            /\ IF Head(outbox).t = "CloseComplete"
               THEN todo' = [todo EXCEPT ![1].n = n - 1] /\ UNCHANGED call
               ELSE Fail(Refused(Head(outbox)))
    /\ UNCHANGED <<client, beyond>>

Closes(entries) == [i \in DOMAIN entries |-> Fe("Close", "-", entries[i].id)]

\* Seeded fault: the cache is emptied and the server is told nothing.
EvictAllWithoutClose ==
    /\ At("evict_all")
    /\ cache' = <<>>
    /\ todo' = <<>>
    /\ UNCHANGED <<call, wbuf, pending, status, nextId, closed, apart>>

\* Seeded fault: the statements are closed and stay in the cache.
EvictAllKeepsEntries ==
    /\ At("evict_all")
    /\ cache' = cache
    /\ wbuf' = wbuf \o Closes(cache) \o (IF cache = <<>> THEN <<>> ELSE <<Sync>>)
    /\ pending' = pending + (IF cache = <<>> THEN 0 ELSE 1)
    /\ todo' = IF cache = <<>> THEN <<>> ELSE CloseAndDrain(Len(cache))
    /\ UNCHANGED <<call, status, nextId, closed, apart>>

\* clear_cached_statements after its wait_until_ready: every entry is removed
\* and a Close written for it; if there was one, Sync, flush and the answers.
EvictAll ==
    /\ At("evict_all")
    /\ cache' = <<>>
    /\ wbuf' = wbuf \o Closes(cache) \o (IF cache = <<>> THEN <<>> ELSE <<Sync>>)
    /\ pending' = pending + (IF cache = <<>> THEN 0 ELSE 1)
    /\ todo' = IF cache = <<>> THEN <<>> ELSE CloseAndDrain(Len(cache))
    /\ UNCHANGED <<call, status, nextId, closed, apart>>

\* The prepared statement enters the cache; at capacity the least recently
\* used entry is removed and closed on the server first.
Admit ==
    /\ At("admit")
    /\ IF Len(cache) >= Capacity
       THEN /\ cache' = Tail(cache)
            /\ wbuf' = wbuf \o Closes(<<Head(cache)>>) \o <<Sync>>
            /\ pending' = pending + 1
            /\ todo' = CloseAndDrain(1) \o todo
       ELSE /\ cache' = Append(cache, [sql |-> Head(todo).q, id |-> Head(todo).n])
            /\ Pop
            /\ UNCHANGED <<wbuf, pending>>
    /\ UNCHANGED <<call, status, nextId, closed, apart>>

Shutdown ==
    /\ At("shutdown")
    /\ closed' = TRUE
    /\ Pop
    /\ UNCHANGED <<call, wbuf, pending, status, cache, nextId, apart>>

Receiving(s) ==
    \/ s.do \in {"rows", "ready", "parse_complete"}
    \/ s.do = "drain" /\ pending > 0
    \/ s.do = "close_complete" /\ s.n > 0

\* stream.recv().await? when the transport has ended.
StreamEnded ==
    /\ todo # <<>> /\ Receiving(Head(todo))
    /\ outbox = <<>> /\ ~srvUp
    /\ Fail("io")
    /\ UNCHANGED <<client, apart>>

\* The awaits of a call: a flush that has something to send, a receive, and
\* the shutdown of do_close.
Suspended(s) ==
    \/ s.do = "flush" /\ wbuf # <<>>
    \/ s.do = "shutdown"
    \/ Receiving(s)

\* The caller drops the call's future at one of its awaits; a statement id
\* the call took and has not cached yet is known to nobody any more.
Cancel ==
    /\ cancels < MaxCancels
    /\ cancels' = cancels + 1
    /\ abandoned' = abandoned \cup {s.n : s \in {t \in ToSet(todo) : t.do = "admit"}}
    /\ todo # <<>> /\ Suspended(Head(todo))
    /\ Fail("cancelled")
    /\ UNCHANGED <<client, server>>

-----------------------------------------------------------------------------
(* The server: one request at a time, in the order received.               *)

Serving(t) == srvUp /\ inbox # <<>> /\ Head(inbox).t = t
Reply(msgs) ==
    /\ inbox' = Tail(inbox)
    /\ outbox' = outbox \o msgs
    /\ UNCHANGED <<todo, call, client, srvUp, caller>>
Results(good, x) ==
    IF good THEN <<Be("DataRow", x), Be("CommandComplete", x)>>
            ELSE <<Be("ErrorResponse", x)>>
Spoilt(good) == IF good \/ srvStatus = "I" THEN srvStatus ELSE "E"

ServeQuery(ok) ==
    /\ Serving("Query")
    /\ LET q == Head(inbox).q
           good == CASE q = "end" -> TRUE
                     [] q = "begin" -> srvStatus # "E"
                     [] OTHER -> ok /\ srvStatus # "E"
           st == CASE good /\ q = "begin" -> "T"
                   [] good /\ q = "end" -> "I"
                   [] OTHER -> Spoilt(good)
       IN /\ srvStatus' = st
          /\ Reply(Results(good, q) \o <<Be("ReadyForQuery", st)>>)
    /\ UNCHANGED srvStmts

ServeExecute(ok) ==
    /\ Serving("Execute")
    /\ LET sql == srvStmts[Head(inbox).id]
           good == ok /\ sql # "-" /\ srvStatus # "E"
       IN /\ srvStatus' = Spoilt(good)
          /\ Reply(Results(good, sql))
    /\ UNCHANGED srvStmts

\* In a failed transaction nothing is prepared.
ServeParse ==
    /\ Serving("Parse")
    /\ IF srvStatus = "E"
       THEN Reply(<<Be("ErrorResponse", "-")>>) /\ UNCHANGED srvStmts
       ELSE /\ srvStmts' = [srvStmts EXCEPT ![Head(inbox).id] = Head(inbox).q]
            /\ Reply(<<Be("ParseComplete", "-")>>)
    /\ UNCHANGED srvStatus

ServeClose ==
    /\ Serving("Close")
    /\ srvStmts' = [srvStmts EXCEPT ![Head(inbox).id] = "-"]
    /\ Reply(<<Be("CloseComplete", "-")>>)
    /\ UNCHANGED srvStatus

ServeSync ==
    /\ Serving("Sync")
    /\ Reply(<<Be("ReadyForQuery", srvStatus)>>)
    /\ UNCHANGED <<srvStatus, srvStmts>>

\* The transport ends: the server met Terminate, or the network failed.  The
\* session goes with it: its transaction is rolled back, its statements freed.
Hangup ==
    /\ srvUp' = FALSE
    /\ inbox' = <<>>
    /\ srvStatus' = "I"
    /\ srvStmts' = [i \in Ids |-> "-"]
    /\ UNCHANGED <<todo, call, client, outbox, caller>>

ServeTerminate == Serving("Terminate") /\ Hangup
ConnectionLost == Lossy /\ srvUp /\ Hangup

-----------------------------------------------------------------------------
Init ==
    /\ todo = <<>>
    /\ call = [op |-> "none", req |-> "-", got |-> "-", err |-> "-"]
    /\ wbuf = <<>> /\ inbox = <<>> /\ outbox = <<>>
    /\ pending = 0
    /\ status = "I" /\ srvStatus = "I"
    /\ cache = <<>>
    /\ nextId = 1
    /\ srvStmts = [i \in Ids |-> "-"]
    /\ closed = FALSE
    /\ srvUp = TRUE
    /\ cancels = 0
    /\ abandoned = {}

Caller ==
    \/ \E q \in Kinds \cup Sqls : Exec(q) \/ GetRows(q)
    \/ \E q \in Kinds : QueueSimpleQuery(q)
    \/ Ping \/ Flush \/ ClearCachedStatements \/ Close
    \/ Cancel

Steps ==
    \/ StreamWrite \/ StreamFlush \/ FlushFails \/ Drain \/ Rows
    \/ RecvReadyForQuery \/ RecvParseComplete \/ WaitForCloseComplete
    \/ EvictAll \/ Admit \/ Shutdown \/ StreamEnded

Server ==
    \/ \E ok \in BOOLEAN : ServeQuery(ok) \/ ServeExecute(ok)
    \/ ServeParse \/ ServeClose \/ ServeSync \/ ServeTerminate

Next == Caller \/ Steps \/ Server \/ ConnectionLost

\* A call that is not dropped is polled until it returns, and a server that
\* is up answers what it received.  The caller need not call again, and the
\* transport need not fail.
Spec == Init /\ [][Next]_vars /\ WF_vars(Steps) /\ WF_vars(Server)

-----------------------------------------------------------------------------
TypeOK ==
    /\ todo \in Seq([do : STRING, q : STRING, n : Nat])
    /\ call \in [op : {"none", "exec", "get_rows", "ping", "flush", "clear", "close"},
                 req : Kinds \cup Sqls \cup {"-"},
                 got : Kinds \cup Sqls \cup {"-"},
                 err : {"-", "db", "protocol", "io", "cancelled"}]
    /\ wbuf \in Seq([t : STRING, q : STRING, id : Nat])
    /\ inbox \in Seq([t : STRING, q : STRING, id : Nat])
    /\ outbox \in Seq([t : STRING, x : STRING])
    /\ pending \in 0..MaxPending
    /\ {status, srvStatus} \subseteq {"I", "T", "E"}
    /\ cache \in Seq([sql : Sqls, id : Ids]) /\ Len(cache) <= Capacity
    /\ nextId \in 1..MaxStatementId + 1
    /\ srvStmts \in [Ids -> Sqls \cup {"-"}]
    /\ {closed, srvUp} \subseteq BOOLEAN
    /\ cancels \in 0..MaxCancels
    /\ abandoned \subseteq Ids

\* While the transport is up, pending_ready_for_query_count is exactly the
\* number of ReadyForQuery still to come: one for every Query and Sync not
\* yet served, one for every ReadyForQuery not yet read (queue_simple_query
\* and write_sync count up, handle_ready_for_query counts down).
PipelineAccounting ==
    srvUp => pending = Owing(wbuf \o inbox)
                         + Len(SelectSeq(outbox, LAMBDA m : m.t = "ReadyForQuery"))

\* When nothing is owed and nothing is buffered, transaction_status is the
\* server's: wait_until_ready takes the status of the last acknowledgement.
ReadyIsSynchronised ==
    srvUp /\ pending = 0 /\ wbuf = <<>> => status = srvStatus

\* What exec or get_rows collects is the answer to its own request, never
\* the answer to a query queued or abandoned before it: the call drains the
\* pipeline before it sends, and a cached handle names the statement asked for.
ResultsBelongToRequest ==
    call.got \in {"-", call.req}

\* Every handle in cache_statement names a statement the server holds under
\* that id and for that sql: an entry goes before its Close is written.
CachedStatementsArePrepared ==
    srvUp => \A i \in DOMAIN cache : srvStmts[cache[i].id] = cache[i].sql

\* The connection implements the statement cache of the specification:
\* cache_statement changes only by a hit that moves an entry to the most
\* recently used end, by an insert below capacity of a handle the server has
\* prepared, and by removal from the least recently used end; the server is
\* asked to close a statement only after it left the cache (prepare_with,
\* the remove_lru loop of clear_cached_statements, and the server's steps).
StatementCache ==
    INSTANCE StatementCache WITH entries <- cache, live <- srvStmts,
                                 up <- srvUp, None <- "-"
ImplementsStatementCache == StatementCache!Spec

\* A statement the server holds is in the cache, has its Close on the way,
\* or belongs to the call that is preparing it: eviction closes what it
\* removes, also when the call that evicts is dropped half-way.  The one
\* statement a connection can lose track of is the one a dropped call was
\* preparing (exec and get_rows dropped inside prepare_with).
Tracked(id) ==
    \/ \E i \in DOMAIN cache : cache[i].id = id
    \/ \E m \in ToSet(wbuf \o inbox) : m.t = "Close" /\ m.id = id
    \/ \E s \in ToSet(todo) : s.do = "admit" /\ s.n = id
NoStatementLeak ==
    \A id \in Ids \ abandoned : srvStmts[id] # "-" => Tracked(id)

\* An eviction is settled before the entry it made room for is admitted
\* (specification 3): when prepare_with inserts into cache_statement, no
\* Close is on its way, no CloseComplete is unread and no acknowledgement is
\* owed, also when the call that evicted was dropped and a later one admits.
Closing ==
    \/ \E m \in ToSet(wbuf \o inbox) : m.t = "Close"
    \/ \E m \in ToSet(outbox) : m.t = "CloseComplete"
EvictionSettledBeforeAdmit ==
    [][ToSet(cache') \subseteq ToSet(cache) \/ (~Closing /\ pending = 0)']_vars

\* The answers arrive as the call expects them: as many CloseComplete as
\* Close were written, then the ReadyForQuery of the Sync.
NoProtocolError ==
    call.err # "protocol"

\* Every call returns: the acknowledgements it waits for were all requested.
CallReturns ==
    todo # <<>> ~> todo = <<>>

=============================================================================
