--------------------------- MODULE StatementCache ---------------------------
(***************************************************************************)
(* What a connection's statement cache promises (specification 3, 4.2 and  *)
(* 8): a bounded list of handles in order of recency, every one of them    *)
(* prepared on the server for as long as it is listed.  The cache itself   *)
(* does no I/O; Prepare, Close and Lost are the server's side of it.       *)
(***************************************************************************)
EXTENDS Naturals, Sequences

CONSTANTS
    Sqls,       \* the keys
    Ids,        \* the remote identifiers
    Capacity,   \* fixed at construction
    None

VARIABLES
    entries,    \* [sql, id], least recently used first
    live,       \* live[id]: the sql the server holds under id, or None
    up          \* the session that holds the statements exists

vars == <<entries, live, up>>

Holds(i, k) == entries[i].sql = k
Cached(id) == \E i \in DOMAIN entries : entries[i].id = id

\* get(key) on a hit: the entry becomes the most recently used.
Get(k) ==
    /\ \E i \in DOMAIN entries : Holds(i, k)
    /\ entries' = SelectSeq(entries, LAMBDA e : e.sql # k)
                      \o SelectSeq(entries, LAMBDA e : e.sql = k)
    /\ UNCHANGED <<live, up>>

\* insert(key, handle): below capacity, a key that is not listed, a handle
\* the server has prepared for that key.
Insert(k, id) ==
    /\ Len(entries) < Capacity
    /\ \A i \in DOMAIN entries : ~Holds(i, k)
    /\ up => live[id] = k
    /\ entries' = Append(entries, [sql |-> k, id |-> id])
    /\ UNCHANGED <<live, up>>

\* remove_lru(), n times: the n least recently used entries go.
RemoveLru(n) ==
    /\ entries' = SubSeq(entries, n + 1, Len(entries))
    /\ UNCHANGED <<live, up>>

\* The server prepares under an identifier that is free, and closes only
\* what is no longer listed.
Prepare(k, id) ==
    /\ up /\ live[id] = None
    /\ live' = [live EXCEPT ![id] = k]
    /\ UNCHANGED <<entries, up>>

Close(id) ==
    /\ up /\ ~Cached(id)
    /\ live' = [live EXCEPT ![id] = None]
    /\ UNCHANGED <<entries, up>>

\* The session ends and its statements with it.
Lost ==
    /\ up /\ up' = FALSE
    /\ live' = [id \in Ids |-> None]
    /\ UNCHANGED entries

Init ==
    /\ entries = <<>>
    /\ live = [id \in Ids |-> None]
    /\ up = TRUE

Next ==
    \/ \E k \in Sqls : Get(k) \/ \E id \in Ids : Insert(k, id) \/ Prepare(k, id)
    \/ \E n \in 1..Len(entries) : RemoveLru(n)
    \/ \E id \in Ids : Close(id)
    \/ Lost

Spec == Init /\ [][Next]_vars

=============================================================================
