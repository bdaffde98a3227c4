------------------------------ MODULE TxOverPg ------------------------------
(***************************************************************************)
(* The executors of src/src/executor.rs on the connection of               *)
(* src/rbdc-pg/src/connection/mod.rs.                                      *)
(*                                                                         *)
(* TxExecutor lets a call of an executor end in one step, with an outcome  *)
(* it assumes.  Here the call is suspended in a PgConnection: it starts    *)
(* the connection's exec or get_rows (Suspend), the connection and the     *)
(* server take their steps, and the call returns what the connection       *)
(* answered (Resume) or is dropped at one of the connection's awaits       *)
(* (Dropped).  What needs no I/O is TxExecutor's own action.               *)
(***************************************************************************)
EXTENDS Naturals, Sequences, SequencesExt

CONSTANTS
    NULL, MaxIntercepts,                                \* of TxExecutor
    Sqls, Capacity, MaxPending, MaxStatementId, MaxCancels, Lossy  \* of PgConnection

VARIABLES
    todo, call, wbuf, pending, status, cache, nextId, closed,
    inbox, outbox, srvStatus, srvStmts, srvUp, cancels, abandoned,
    connExec, tx, guard, guardTx, chan, task, cbTx, rawConn, last, handoff,
    panicked,
    cur         \* the executor call suspended in the connection, or NULL

Pg == INSTANCE PgConnection

pg == <<todo, call, wbuf, pending, status, cache, nextId, closed,
        inbox, outbox, srvStatus, srvStmts, srvUp, cancels, abandoned>>
holders == <<connExec, tx, guardTx, cbTx, task>>
others == <<guard, chan, rawConn, handoff, panicked>>
vars == <<pg, holders, others, last, cur>>

\* Whether the session will have a transaction open once the server has
\* served what the connection wrote: the last begin, commit or rollback on
\* its way decides, else the server's own status, and a session that is gone
\* has none.
SessionAfter ==
    LET sent == inbox \o wbuf
        marks == {i \in DOMAIN sent : sent[i].t = "Query"
                                      /\ sent[i].q \in {"begin", "end"}}
    IN CASE ~srvUp       -> "idle"
         [] marks # {}   -> IF sent[Max(marks)].q = "begin" THEN "intx" ELSE "idle"
         [] OTHER        -> IF srvStatus = "I" THEN "idle" ELSE "intx"

Tx == INSTANCE TxExecutor WITH db <- SessionAfter

-----------------------------------------------------------------------------
Callers == {"conn", "tx", "guard", "cb"}

\* The transaction a call is made on: the connection executor has none yet,
\* the callback has the one the guard sent.
On(who) ==
    CASE who = "conn"  -> IF connExec THEN [done |-> FALSE] ELSE NULL
      [] who = "tx"    -> tx
      [] who = "guard" -> IF guard = "live" THEN guardTx ELSE NULL
      [] who = "cb"    -> IF task = "callback" THEN cbTx ELSE NULL

Ops(who) ==
    CASE who = "conn" -> {"begin"} \cup Tx!Running
      [] who = "cb"   -> {"rollback"}
      [] OTHER        -> {"begin"} \cup Tx!Finishing \cup Tx!Running

\* begin, commit and rollback are simple queries of the connection; exec and
\* fetch go by their arguments.
Sent(op, args) ==
    CASE op = "begin"        -> {"begin"}
      [] op \in Tx!Finishing -> {"end"}
      [] args = "none"       -> {"stmt"}
      [] OTHER               -> Sqls

Plain == [args |-> "none", chain |-> <<>>]
Beginning(who) == cur # NULL /\ cur.who = who /\ cur.op = "begin"

\* The call up to its await on the connection: the interceptors have run,
\* begin has taken the executor it was called on (self by value, and
\* self.tx.take() in the guard), the request is with the connection.
Suspend(who, op, req) ==
    /\ cur = NULL
    /\ On(who) # NULL
    /\ LET args == Tx!Intercepted(req) IN
         /\ args # "veto"
         /\ \E q \in Sent(op, args) :
               IF op = "fetch" THEN Pg!GetRows(q) ELSE Pg!Exec(q)
         /\ cur' = [who |-> who, op |-> op, held |-> On(who),
                    db0 |-> SessionAfter,
                    flag |-> op \in Tx!Running /\ req.args # "none",
                    path |-> IF op \in Tx!Running THEN Tx!Path(args) ELSE "simple"]
    /\ connExec' = (connExec /\ ~(who = "conn" /\ op = "begin"))
    /\ tx' = IF who = "tx" /\ op = "begin" THEN NULL ELSE tx
    /\ guardTx' = IF who = "guard" /\ op = "begin" THEN NULL ELSE guardTx
    /\ UNCHANGED <<cbTx, task, others, last>>

Seen(ret) ==
    [op |-> cur.op, dead |-> cur.held.done, flag |-> cur.flag,
     path |-> cur.path, ret |-> ret]

\* Seeded fault: begin gives the executor back whatever the connection said.
BackAlways(o) == IF cur.op \in Tx!Finishing THEN Tx!Finish(cur.held, o) ELSE cur.held

\* What the call leaves where it was made: begin the executor if it
\* succeeded, commit and rollback the done flag they set on Ok.
Back(o) ==
    CASE cur.op = "begin"        -> Tx!Begin(cur.held, o)
      [] cur.op \in Tx!Finishing -> Tx!Finish(cur.held, o)
      [] OTHER                   -> cur.held

\* The connection answered: the call returns.  The callback ends with it.
Resume ==
    /\ cur # NULL /\ todo = <<>>
    /\ LET o == [res |-> IF call.err = "-" THEN "ok" ELSE "err"] IN
         /\ last' = Seen(IF cur.op \in Tx!Finishing
                         THEN Tx!Finished(cur.held, o) ELSE o.res)
         /\ tx' = IF cur.who = "tx" \/ Beginning("conn") THEN Back(o) ELSE tx
         /\ guardTx' = IF cur.who = "guard" THEN Back(o) ELSE guardTx
    /\ cbTx' = IF cur.who = "cb" THEN NULL ELSE cbTx
    /\ task' = IF cur.who = "cb" THEN "done" ELSE task
    /\ cur' = NULL
    /\ UNCHANGED <<pg, connExec, others>>

\* The caller drops the call's future; what begin had taken goes with it.
Dropped ==
    /\ cur # NULL /\ cur.who # "cb"
    /\ Pg!Cancel
    /\ last' = Seen("cancel")
    /\ cur' = NULL
    /\ UNCHANGED <<holders, others>>

\* The calls that end before any I/O: an interceptor's Err, and the guard
\* whose transaction is gone.
Refused ==
    /\ cur = NULL
    /\ UNCHANGED <<pg, cur>>
    /\ LET o == [res |-> "err", applied |-> FALSE, lost |-> FALSE] IN
         \/ \E op \in Tx!Running, req \in Tx!Requests :
               /\ Tx!Intercepted(req) = "veto"
               /\ Tx!ConnRun(op, req, o) \/ Tx!TxRun(op, req, o)
                                         \/ Tx!GuardRun(op, req, o)
         \/ /\ guardTx = NULL
            /\ \/ Tx!GuardBegin(o)
               \/ \E op \in Tx!Finishing : Tx!GuardFinish(op, o)
               \/ \E op \in Tx!Running : Tx!GuardRun(op, Plain, o)

\* What the caller and the spawned task do without the connection.
Local ==
    /\ cur = NULL
    /\ UNCHANGED <<pg, cur>>
    /\ \/ Tx!TxTakeConn \/ Tx!DeferAsync
       \/ Tx!GuardTakeConn \/ Tx!GuardDrop \/ Tx!GuardDerefPanics
       \/ Tx!TaskRecv \/ Tx!TaskRecvErr

Owned ==
    \/ connExec \/ rawConn \/ cur # NULL \/ chan # <<>>
    \/ \E h \in {tx, guardTx, cbTx} : h # NULL

\* A connection nobody holds any more is closed, and its session ends.
Orphaned == ~Owned /\ srvUp /\ Pg!Hangup

Connection ==
    /\ Pg!Steps \/ Pg!Server \/ Pg!ConnectionLost \/ Orphaned
    /\ UNCHANGED <<holders, others, last, cur>>

-----------------------------------------------------------------------------
Init ==
    /\ Pg!Init
    /\ Tx!Init
    /\ cur = NULL

Calls ==
    \E who \in Callers :
        \/ \E op \in Ops(who) \ Tx!Running : Suspend(who, op, Plain)
        \/ \E op \in Ops(who) \cap Tx!Running, req \in Tx!Requests :
              Suspend(who, op, req)

Next == Calls \/ Resume \/ Dropped \/ Refused \/ Local \/ Connection

\* A suspended call that is not dropped is polled until it returns, the
\* server answers what it received, and the runtime runs the spawned task.
Progress ==
    \/ Pg!Steps /\ UNCHANGED <<holders, others, last, cur>>
    \/ Resume
    \/ UNCHANGED <<pg, cur>> /\ (Tx!TaskRecv \/ Tx!TaskRecvErr)
    \/ Suspend("cb", "rollback", Plain)

Spec ==
    /\ Init /\ [][Next]_vars
    /\ WF_vars(Progress)
    /\ WF_vars(Pg!Server /\ UNCHANGED <<holders, others, last, cur>>)

-----------------------------------------------------------------------------
\* The executors on a PgConnection implement TxExecutor: whatever the
\* connection does between the start and the end of exec, fetch, begin,
\* commit and rollback (answers late, fails, loses the session, finds the
\* answers of a dropped call in its way), the caller sees a call that ended
\* in one of the ways TxExecutor assumes.  Until the call ends the executor
\* it took is still where it was and the session is as the call found it; a
\* session that ended under the call is what the outcome's `lost` stands for.
Abs == INSTANCE TxExecutor WITH
    db <- IF cur = NULL THEN SessionAfter ELSE cur.db0,
    connExec <- connExec \/ Beginning("conn"),
    tx <- IF Beginning("tx") THEN cur.held ELSE tx,
    guardTx <- IF Beginning("guard") THEN cur.held ELSE guardTx
ImplementsTxExecutor == Abs!Safety

\* commit and rollback of a transaction that was not done answer Ok(true)
\* only when the server has ended the transaction and the connection knows it: the call drains what dropped
\* calls left in the pipeline before it sends, and reads its own
\* ReadyForQuery (RBatisTxExecutor::commit over Connection::exec).
FinishedMeansIdle ==
    cur = NULL /\ last.op \in Tx!Finishing /\ last.ret = "true" /\ ~last.dead
               /\ srvUp
        => srvStatus = "I" /\ status = "I" /\ pending = 0

\* Once the guard is dropped with its transaction, the deferred rollback
\* runs to its end on the connection, whatever state dropped calls left the
\* pipeline in; without a transaction the task ends with a RecvError.
DisposalSettles ==
    guard = "dropped" ~> (IF handoff THEN task = "done" ELSE task = "recv_err")

=============================================================================
