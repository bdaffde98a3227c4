----------------------------- MODULE TxExecutor -----------------------------
(***************************************************************************)
(* The transaction life cycle of src/src/executor.rs: a connection         *)
(* executor begins a transaction (RBatisConnExecutor::begin), the          *)
(* RBatisTxExecutor commits or rolls back, defer_async wraps it in a       *)
(* RBatisTxExecutorGuard and spawns the task that waits on a flume channel *)
(* for the guard's Drop to hand the transaction over.                      *)
(*                                                                         *)
(* One caller and one spawned task.  Every call of the caller is one       *)
(* action: while a call is suspended nothing else can touch the objects it *)
(* borrows, so the only choice is how the call ends (Outcome).             *)
(***************************************************************************)
EXTENDS Naturals, Sequences, SequencesExt

CONSTANTS
    NULL,           \* Option::None
    MaxIntercepts   \* bound: the longest sql_intercepts chain considered

VARIABLES
    connExec,   \* the caller holds the RBatisConnExecutor
    tx,         \* the RBatisTxExecutor the caller holds, or NULL
    guard,      \* the RBatisTxExecutorGuard: "none", "live", "dropped"
    guardTx,    \* RBatisTxExecutorGuard.tx
    chan,       \* what was sent on the flume channel and not yet received
    task,       \* the spawned task of defer_async
    cbTx,       \* the transaction the running callback owns
    rawConn,    \* take_conn gave the Box<dyn Connection> back to the caller
    db,         \* the server: "idle" or "intx" (a transaction is open)
    last,       \* the caller-visible record of the latest call
    handoff,    \* history: the guard held a transaction when it was dropped
    panicked    \* an unwrap() on None unwound the caller

vars == <<connExec, tx, guard, guardTx, chan, task, cbTx, rawConn, db, last,
          handoff, panicked>>

Tx == [done : BOOLEAN]

(***************************************************************************)
(* How a call on the connection ends.  "ok": the server applied it and the *)
(* caller saw Ok.  "err": the caller saw Err, after or before the server   *)
(* applied it.  "cancel": the caller's future was dropped while suspended. *)
(* However it ends, the session may have ended under it (lost).            *)
(***************************************************************************)
Outcome == [res : {"ok"}, applied : {TRUE}, lost : BOOLEAN]
              \cup [res : {"err", "cancel"}, applied : BOOLEAN, lost : BOOLEAN]
Finishing == {"commit", "rollback"}
Running == {"exec", "fetch"}
\* The inherent methods of an executor: the two of the trait, and fetch_decode.
Queries == Running \cup {"fetch_decode"}

(***************************************************************************)
(* The arguments of exec and fetch are "none" (an empty Vec) or "some".    *)
(* An interceptor leaves them, fills them, clears them, or fails the call; *)
(* a request is the arguments passed and the chain they go through.        *)
(***************************************************************************)
Args == {"none", "some"}
Deeds == {"keep", "fill", "clear", "veto"}
Requests == [args : Args,
             chain : UNION {[1..n -> Deeds] : n \in 0..MaxIntercepts}]

\* item.do_intercept(rb, &mut sql, &mut args, is_prepared)?
Intercept(args, deed) ==
    CASE "veto" \in {args, deed} -> "veto"
      [] deed = "fill"           -> "some"
      [] deed = "clear"          -> "none"
      [] OTHER                   -> args

\* The loop over sql_intercepts: the arguments the connection is given, or
\* "veto" when an interceptor returned Err.
Intercepted(req) == FoldLeft(Intercept, req.args, req.chain)

\* The connection takes the simple query protocol for no arguments and
\* prepares the statement otherwise.
Path(args) == IF args = "none" THEN "simple" ELSE "prepared"

\* What the caller sees and what the server does in a call `op` ending as `o`
\* on a transaction whose done flag was `dead`.
Call(op, dead, o, ret) ==
    /\ last' = [op |-> op, dead |-> dead, flag |-> FALSE, path |-> "simple",
                ret |-> IF o.res = "cancel" THEN "cancel" ELSE ret]
    /\ db' = CASE o.lost                       -> "idle"
               [] o.applied /\ op = "begin"    -> "intx"
               [] o.applied /\ op \in Finishing -> "idle"
               [] OTHER                         -> db

\* ok_or_else(|| Error::from("[rbatis] tx is committed")) and "the tx is done!"
Reject(op) ==
    /\ db' = db
    /\ last' = [op |-> op, dead |-> TRUE, flag |-> FALSE, path |-> "none",
                ret |-> "err"]

\* Executor::exec and ::fetch: is_prepared is taken from the arguments as
\* passed, the interceptors run, and what they left goes to the connection,
\* whose result is the call's; an interceptor's Err is returned before any I/O.
Run(op, dead, req, o) ==
    LET args == Intercepted(req)
        sent == args # "veto"
    IN /\ last' = [op |-> op, dead |-> dead, flag |-> req.args # "none",
                   path |-> IF sent THEN Path(args) ELSE "none",
                   ret |-> CASE ~sent            -> "err"
                             [] o.res = "cancel" -> "cancel"
                             [] OTHER            -> o.res]
       /\ db' = IF sent /\ o.lost THEN "idle" ELSE db

\* fetch_decode is Executor::fetch and decode(v)? on its Ok: rows that do not
\* fit the type asked for make an Err of a statement the server has run.
Decoded(o, fits) == IF o.res = "ok" /\ ~fits THEN [o EXCEPT !.res = "err"] ELSE o

\* Seeded fault: done is set whenever the call returns, Ok or Err.
FinishRegardless(t, o) == [t EXCEPT !.done = @ \/ o.res # "cancel"]

\* RBatisTxExecutor::commit and ::rollback: done is set only on Ok(()).
Finish(t, o) == [t EXCEPT !.done = @ \/ o.res = "ok"]
Finished(t, o) == IF Finish(t, o).done THEN "true" ELSE "false"

\* RBatisTxExecutor::begin(mut self): self is given back only on success.
Begin(t, o) == IF o.res = "ok" THEN t ELSE NULL

-----------------------------------------------------------------------------
(* The caller on the RBatisConnExecutor and on the bare RBatisTxExecutor.   *)

ConnRun(op, req, o) ==
    /\ connExec
    /\ Run(op, FALSE, req, o)
    /\ UNCHANGED <<connExec, tx, guard, guardTx, chan, task, cbTx, rawConn,
                   handoff, panicked>>

ConnBegin(o) ==
    /\ connExec
    /\ connExec' = FALSE
    /\ tx' = Begin([done |-> FALSE], o)
    /\ Call("begin", FALSE, o, o.res)
    /\ UNCHANGED <<guard, guardTx, chan, task, cbTx, rawConn, handoff, panicked>>

TxRun(op, req, o) ==
    /\ tx # NULL
    /\ Run(op, tx.done, req, o)
    /\ UNCHANGED <<connExec, tx, guard, guardTx, chan, task, cbTx, rawConn,
                   handoff, panicked>>

TxBegin(o) ==
    /\ tx # NULL
    /\ tx' = Begin(tx, o)
    /\ Call("begin", tx.done, o, o.res)
    /\ UNCHANGED <<connExec, guard, guardTx, chan, task, cbTx, rawConn,
                   handoff, panicked>>

TxFinish(op, o) ==
    /\ tx # NULL
    /\ tx' = Finish(tx, o)
    /\ Call(op, tx.done, o, Finished(tx, o))
    /\ UNCHANGED <<connExec, guard, guardTx, chan, task, cbTx, rawConn,
                   handoff, panicked>>

\* exec and fetch on the Rbatis handle: acquire a connection of the pool,
\* then the call on it; the transaction of the caller is another session,
\* which the loss of this one leaves alone.
RbRun(op, acquired, req, o) ==
    /\ IF acquired THEN Run(op, FALSE, req, [o EXCEPT !.lost = FALSE])
                   ELSE Reject(op)
    /\ UNCHANGED <<connExec, tx, guard, guardTx, chan, task, cbTx, rawConn,
                   handoff, panicked>>

TxTakeConn ==
    /\ tx # NULL
    /\ tx' = NULL
    /\ rawConn' = TRUE
    /\ UNCHANGED <<connExec, guard, guardTx, chan, task, cbTx, db, last,
                   handoff, panicked>>

\* defer_async: the channel is created, the task spawned, self moved in.
DeferAsync ==
    /\ tx # NULL
    /\ guard = "none"
    /\ guard' = "live"
    /\ guardTx' = tx
    /\ tx' = NULL
    /\ chan' = <<>>
    /\ task' = "recv"
    /\ UNCHANGED <<connExec, cbTx, rawConn, db, last, handoff, panicked>>

-----------------------------------------------------------------------------
(* The caller on the guard.                                                *)

GuardRun(op, req, o) ==
    /\ guard = "live"
    /\ \/ guardTx = NULL /\ Reject(op)
       \/ guardTx # NULL /\ Run(op, guardTx.done, req, o)
    /\ UNCHANGED <<connExec, tx, guard, guardTx, chan, task, cbTx, rawConn,
                   handoff, panicked>>

\* self.tx.take() comes first: a begin that fails or is cancelled leaves None.
GuardBegin(o) ==
    /\ guard = "live"
    /\ \/ guardTx = NULL /\ Reject("begin") /\ UNCHANGED guardTx
       \/ /\ guardTx # NULL
          /\ guardTx' = Begin(guardTx, o)
          /\ Call("begin", guardTx.done, o, o.res)
    /\ UNCHANGED <<connExec, tx, guard, chan, task, cbTx, rawConn, handoff,
                   panicked>>

GuardFinish(op, o) ==
    /\ guard = "live"
    /\ \/ guardTx = NULL /\ Reject(op) /\ UNCHANGED guardTx
       \/ /\ guardTx # NULL
          /\ guardTx' = Finish(guardTx, o)
          /\ Call(op, guardTx.done, o, Finished(guardTx, o))
    /\ UNCHANGED <<connExec, tx, guard, chan, task, cbTx, rawConn, handoff,
                   panicked>>

\* Seeded fault: a destructor, the transaction is dropped where it is.
ReleaseWithoutSend(keep) ==
    /\ guard' = "dropped"
    /\ guardTx' = NULL
    /\ handoff' = (keep # NULL)
    /\ chan' = chan

\* Seeded fault: the Option itself is sent, Some or None.
ReleaseSendsOption(keep) ==
    /\ guard' = "dropped"
    /\ guardTx' = NULL
    /\ handoff' = (keep # NULL)
    /\ chan' = Append(chan, keep)

\* Drop: a transaction still held is sent; a send to a dropped receiver only logs.
Release(keep) ==
    /\ guard' = "dropped"
    /\ guardTx' = NULL
    /\ handoff' = (keep # NULL)
    /\ chan' = IF keep # NULL /\ task = "recv" THEN Append(chan, keep) ELSE chan

GuardDrop ==
    /\ guard = "live"
    /\ Release(guardTx)
    /\ UNCHANGED <<connExec, tx, task, cbTx, rawConn, db, last, panicked>>

\* take_conn(mut self) empties the guard, which is then dropped.
GuardTakeConn ==
    /\ guard = "live"
    /\ rawConn' = (guardTx # NULL)
    /\ Release(NULL)
    /\ UNCHANGED <<connExec, tx, task, cbTx, db, last, panicked>>

\* Deref, DerefMut and get_rbatis (&self.rb) unwrap the Option; the panic
\* unwinds the caller, which drops the guard.
GuardDerefPanics ==
    /\ guard = "live"
    /\ guardTx = NULL
    /\ panicked' = TRUE
    /\ Release(NULL)
    /\ UNCHANGED <<connExec, tx, task, cbTx, rawConn, db, last>>

-----------------------------------------------------------------------------
(* The spawned task.                                                       *)

TaskRecv ==
    /\ task = "recv"
    /\ chan # <<>>
    /\ cbTx' = Head(chan)
    /\ chan' = Tail(chan)
    /\ task' = "callback"
    /\ UNCHANGED <<connExec, tx, guard, guardTx, rawConn, db, last, handoff,
                   panicked>>

\* recv_async fails once the channel is empty and its only sender is gone.
TaskRecvErr ==
    /\ task = "recv"
    /\ chan = <<>>
    /\ guard = "dropped"
    /\ task' = "recv_err"
    /\ UNCHANGED <<connExec, tx, guard, guardTx, chan, cbTx, rawConn, db, last,
                   handoff, panicked>>

\* The documented callback: |mut tx| async { tx.rollback().await; }
Callback(o) ==
    /\ task = "callback"
    /\ o.res # "cancel"
    /\ Call("rollback", cbTx.done, o, Finished(cbTx, o))
    /\ cbTx' = NULL
    /\ task' = "done"
    /\ UNCHANGED <<connExec, tx, guard, guardTx, chan, rawConn, handoff,
                   panicked>>

\* The session ends under the executors (the transport fails, or the
\* connection was dropped with its owner): the server rolls back what is open.
SessionLost ==
    /\ db = "intx"
    /\ db' = "idle"
    /\ UNCHANGED <<connExec, tx, guard, guardTx, chan, task, cbTx, rawConn, last,
                   handoff, panicked>>

-----------------------------------------------------------------------------
Init ==
    /\ connExec = TRUE
    /\ tx = NULL
    /\ guard = "none"
    /\ guardTx = NULL
    /\ chan = <<>>
    /\ task = "none"
    /\ cbTx = NULL
    /\ rawConn = FALSE
    /\ db = "idle"
    /\ last = [op |-> "none", dead |-> FALSE, flag |-> FALSE, path |-> "none",
               ret |-> "none"]
    /\ handoff = FALSE
    /\ panicked = FALSE

Caller ==
    \/ TxTakeConn \/ DeferAsync
    \/ GuardTakeConn \/ GuardDrop \/ GuardDerefPanics
    \/ \E o \in Outcome :
          \/ ConnBegin(o) \/ TxBegin(o) \/ GuardBegin(o)
          \/ \E op \in Finishing : TxFinish(op, o) \/ GuardFinish(op, o)
    \/ \E op \in Running, req \in Requests, o \in Outcome :
          \/ ConnRun(op, req, o) \/ TxRun(op, req, o) \/ GuardRun(op, req, o)
          \/ \E acquired \in BOOLEAN : RbRun(op, acquired, req, o)
    \/ \E req \in Requests, o \in Outcome, fits \in BOOLEAN :
          LET seen == Decoded(o, fits) IN
          \/ ConnRun("fetch_decode", req, seen) \/ TxRun("fetch_decode", req, seen)
          \/ guardTx # NULL /\ GuardRun("fetch_decode", req, seen)
          \/ \E acquired \in BOOLEAN : RbRun("fetch_decode", acquired, req, seen)

Task == TaskRecv \/ TaskRecvErr \/ \E o \in Outcome : Callback(o)

Next == Task \/ SessionLost \/ Caller

\* What the executors may do, with no promise that anything happens.  The
\* stuttering step is written out: TLC tries the disjuncts in this order when
\* it checks the steps of another specification against this one.
Safety == Init /\ [][UNCHANGED vars \/ Next]_vars

\* The runtime keeps polling a spawned task that can make progress; the
\* caller owes nothing.
Spec == Init /\ [][Next]_vars /\ WF_vars(Task)

-----------------------------------------------------------------------------
TypeOK ==
    /\ connExec \in BOOLEAN /\ rawConn \in BOOLEAN
    /\ tx \in Tx \cup {NULL} /\ guardTx \in Tx \cup {NULL}
    /\ cbTx \in Tx \cup {NULL}
    /\ guard \in {"none", "live", "dropped"}
    /\ chan \in Seq(Tx) /\ Len(chan) <= 1
    /\ task \in {"none", "recv", "callback", "done", "recv_err"}
    /\ db \in {"idle", "intx"}
    /\ last \in [op : {"none", "begin"} \cup Finishing \cup Queries,
                 dead : BOOLEAN, flag : BOOLEAN,
                 path : {"none", "simple", "prepared"},
                 ret : {"none", "ok", "err", "cancel", "true", "false"}]
    /\ handoff \in BOOLEAN /\ panicked \in BOOLEAN

\* Every RBatisTxExecutor there is, wherever it currently lives.
Holders == {h \in {tx, guardTx, cbTx} : h # NULL} \cup {chan[i] : i \in DOMAIN chan}
\* done turns true only in a commit or rollback that the connection answered
\* with Ok and that left no transaction open on the server (commit and
\* rollback set self.done inside `if let Ok(()) = ...`).
DoneOnlyOnSuccess ==
    [][ (\E h \in Holders' : h.done) /\ ~(\E h \in Holders : h.done)
          => last'.op \in Finishing /\ last'.ret = "true" /\ db' = "idle" ]_vars

\* Once the guard is dropped the spawned task ends: with the callback having
\* run on the transaction if the guard still held one (Drop sends it), with
\* a RecvError otherwise.
DisposalSettles ==
    guard = "dropped" ~> (IF handoff THEN task = "done" ELSE task = "recv_err")

-----------------------------------------------------------------------------
(* What the specification says and the code does not do.                   *)

\* spec 4.4 and 8: exec, fetch, commit or rollback on a Finished transaction,
\* or on a guard whose transaction was taken, fails and issues no protocol
\* message.
FinishedTxIssuesNoMessage ==
    last.op \in Finishing \cup Queries /\ last.dead
        => last.path = "none" /\ last.ret = "err"

\* spec 1 and 4.4: the guard returns its transaction to the deferred cleanup
\* path however the scope is left; it gives it up only to take_conn or to
\* the disposal channel.
TxLeavesGuardOnlyByHandoff ==
    [][ guardTx # NULL /\ guardTx' = NULL
          => rawConn' \/ chan' = Append(chan, guardTx) ]_vars

\* spec 7: a ConnectionError or ProtocolError is surfaced unchanged, never
\* swallowed; a commit or rollback the connection refused answers Err
\* (commit and rollback return Ok(self.done) whatever the connection said).
FailedFinishSurfaces ==
    last.op \in Finishing /\ ~last.dead => last.ret # "false"

\* spec 4.3: is_prepared, the flag every interceptor is shown, is true iff
\* the arguments are non-empty, and this one flag decides whether the simple
\* or the prepared path is used downstream (Executor::exec and ::fetch take it
\* before the interceptors, which may fill or clear the arguments; the
\* connection decides by the arguments it is given).
PathFollowsFlag ==
    last.op \in Queries /\ last.path # "none"
        => (last.flag <=> last.path = "prepared")

=============================================================================
