----------------------------- MODULE TrinoSession -----------------------------
(***************************************************************************)
(* A Trino session and its cursor (crates/qh-driver-trino/src/lib.rs).     *)
(* Every statement is a POST that starts a query on the coordinator; its   *)
(* pages are fetched one GET at a time; a Stop and a reset DELETE the page *)
(* the shared `running` cell names.  Answers are lost at every request,    *)
(* and a Stop runs while a page is on its way.                             *)
(***************************************************************************)
EXTENDS Naturals, Sequences, FiniteSets

CONSTANTS
    MaxQueries,   \* bound on the statements of a behaviour
    MaxPages,     \* bound on the pages of a query
    RowLimit,     \* the row cap of a capped read
    None

VARIABLES
    query,      \* the queries the coordinator has been given, in order
    running,    \* TrinoSession::running: the query and page a cancel would DELETE
    cursor,     \* the TrinoCursor the caller reads, or None
    got,        \* a page answer on its way to fetch_page, or None
    seen,       \* the rows the cursor has handed out
    busy,       \* the call in progress: "free", "post", "reset"
    scheme,     \* the scheme of `base`
    reserve     \* TrinoSession::fallback is still there

vars == <<query, running, cursor, got, seen, busy, scheme, reserve>>

\* A query has `pages` pages, of which those in `full` carry one row, named after its page.
QueryIds == 1 .. Len(query)
Alive(q) == query[q].st = "running"

\* Page p of a query: its rows, and the page it names as next (0 for the last).
PageRows(q, p) == IF p \in query[q].full THEN <<p>> ELSE <<>>
NextOf(q, p) == IF p < query[q].pages THEN p + 1 ELSE 0

Init ==
    /\ query = <<>> /\ running = None /\ cursor = None /\ got = None /\ seen = <<>>
    /\ busy = "free"
    /\ scheme \in {"http", "https"} /\ reserve \in BOOLEAN
    /\ scheme = "http" => ~reserve

--------------------------------------------------------------------------------
(* execute                                                                      *)

Execute ==
    /\ busy = "free" /\ got = None
    /\ Len(query) < MaxQueries
    /\ busy' = "post" /\ cursor' = None /\ seen' = <<>>
    /\ UNCHANGED <<query, running, got, scheme, reserve>>

Started(pages, full) == Append(query, [st |-> IF pages = 1 THEN "ended" ELSE "running",
                                       pages |-> pages, full |-> full])

\* post: the first page is in the answer; a query that has more pages is the running one now.
PostAnswered(pages, full, limit) ==
    LET q == Len(query) + 1 IN
    /\ busy = "post"
    /\ query' = Started(pages, full)
    /\ running' = IF pages > 1 THEN [id |-> q, page |-> 2] ELSE running
    /\ cursor' = [id |-> q, next |-> IF pages > 1 THEN 2 ELSE 0,
                  pending |-> IF 1 \in full THEN <<1>> ELSE <<>>,
                  finished |-> pages = 1, emitted |-> 0, limit |-> limit]
    /\ busy' = "free"
    /\ UNCHANGED <<got, seen, scheme, reserve>>

\* The statement is refused: the answer carries an error, or the coordinator is not reached.
PostRefused ==
    /\ busy = "post"
    /\ busy' = "free"
    /\ UNCHANGED <<query, running, cursor, got, seen, scheme, reserve>>

\* The coordinator started it and the answer is lost, or a Stop dropped the call meanwhile.
PostLost(pages, full) ==
    /\ busy = "post"
    /\ query' = Started(pages, full)
    /\ busy' = "free"
    /\ UNCHANGED <<running, cursor, got, seen, scheme, reserve>>

\* not_a_tls_server: the one downgrade, with the plaintext client in reserve; the POST is sent again.
Downgrade ==
    /\ busy = "post" /\ scheme = "https" /\ reserve
    /\ scheme' = "http" /\ reserve' = FALSE
    /\ UNCHANGED <<query, running, cursor, got, seen, busy>>

--------------------------------------------------------------------------------
(* The cursor: next_batch, refill, fetch_page                                   *)

\* budget: what one call may hand out, for a caller that asks for one row at a time.
Budget == IF cursor.limit = 0 THEN 1
          ELSE IF cursor.emitted < cursor.limit THEN 1 ELSE 0

Reading == cursor # None /\ busy = "free" /\ got = None

TakeRow ==
    /\ Reading /\ cursor.pending # <<>> /\ Budget > 0
    /\ cursor' = [cursor EXCEPT !.pending = Tail(@), !.emitted = @ + 1]
    /\ seen' = Append(seen, Head(cursor.pending))
    /\ UNCHANGED <<query, running, got, busy, scheme, reserve>>

\* The row limit is reached: the rest of the query is not read.
LimitReached ==
    /\ Reading /\ Budget = 0 /\ ~cursor.finished
    /\ cursor' = [cursor EXCEPT !.finished = TRUE]
    /\ UNCHANGED <<query, running, got, seen, busy, scheme, reserve>>

\* The GET of the page the cursor is at, as the coordinator answers it.  A page may be asked for
\* again: until the next one is asked for it is served as before.
AskPage ==
    /\ Reading /\ cursor.pending = <<>> /\ Budget > 0 /\ ~cursor.finished
    /\ LET q == cursor.id IN
       LET p == cursor.next IN
       IF Alive(q)
       THEN /\ got' = [rows |-> PageRows(q, p), next |-> NextOf(q, p), error |-> FALSE]
            /\ query' = [query EXCEPT ![q].st = IF NextOf(q, p) = 0 THEN "ended" ELSE @]
       ELSE /\ got' = [rows |-> PageRows(q, p), next |-> 0, error |-> query[q].st = "failed"]
            /\ UNCHANGED query
    /\ UNCHANGED <<running, cursor, seen, busy, scheme, reserve>>

\* fetch_page takes the answer: rows, then the page that comes next and what a cancel would DELETE.
PageArrives ==
    /\ got # None /\ ~got.error
    /\ cursor' = [cursor EXCEPT !.pending = @ \o got.rows, !.next = got.next,
                                !.finished = (got.next = 0)]
    /\ running' = IF got.next = 0 THEN None ELSE [id |-> cursor.id, page |-> got.next]
    /\ got' = None
    /\ UNCHANGED <<query, seen, busy, scheme, reserve>>

\* The query failed or was cancelled: the page carries the error.
PageFailed ==
    /\ got # None /\ got.error
    /\ cursor' = [cursor EXCEPT !.finished = TRUE]
    /\ got' = None
    /\ UNCHANGED <<query, running, seen, busy, scheme, reserve>>

\* The answer is lost: a transient error, and the cursor is where it was for the retry.
PageLost ==
    /\ got # None
    /\ got' = None
    /\ UNCHANGED <<query, running, cursor, seen, busy, scheme, reserve>>

\* A query that still runs ends with an error; one that ended stays as it is.
Stopped(q) == [query EXCEPT ![q].st = IF @ = "running" THEN "failed" ELSE @]

\* The query fails on the coordinator.
QueryFails(q) ==
    /\ Alive(q)
    /\ query' = Stopped(q)
    /\ UNCHANGED <<running, cursor, got, seen, busy, scheme, reserve>>

--------------------------------------------------------------------------------
(* delete_running, behind a Stop and behind reset                               *)

\* DELETE on the page the cell names: 2xx, or 404 for a query that is gone.
Deleted ==
    /\ running # None
    /\ query' = Stopped(running.id)
    /\ running' = None

\* The DELETE did not end the query, or its answer is lost; nothing is forgotten.
NotDeleted(acted) ==
    /\ running # None
    /\ query' = IF acted THEN Stopped(running.id) ELSE query
    /\ UNCHANGED running

\* A Stop may come while a page is on its way.
Cancel ==
    /\ busy = "free"
    /\ \/ Deleted
       \/ \E acted \in BOOLEAN : NotDeleted(acted)
    /\ UNCHANGED <<cursor, got, seen, busy, scheme, reserve>>

\* reset at the end of a run.  A DELETE the server refused keeps the cell and fails the reset, and
\* the pool closes the session; any other failure is swallowed and the cell is cleared.
ResetRefused ==
    /\ busy = "free" /\ got = None /\ running # None
    /\ busy' = "closed" /\ cursor' = None
    /\ UNCHANGED <<query, running, got, seen, scheme, reserve>>

Reset ==
    /\ busy = "free" /\ got = None
    /\ \/ running = None /\ UNCHANGED <<query, running>>
       \/ Deleted
       \/ running # None /\ running' = None /\ UNCHANGED query
    /\ cursor' = None /\ seen' = <<>>
    /\ UNCHANGED <<got, busy, scheme, reserve>>

Next ==
    \/ Execute
    \/ \E pages \in 1 .. MaxPages : \E full \in SUBSET (1 .. pages) :
          \/ \E limit \in {0, RowLimit} : PostAnswered(pages, full, limit)
          \/ PostLost(pages, full)
    \/ PostRefused \/ Downgrade
    \/ TakeRow \/ LimitReached \/ AskPage \/ PageArrives \/ PageFailed \/ PageLost
    \/ \E q \in QueryIds : QueryFails(q)
    \/ Cancel \/ ResetRefused \/ Reset

Spec == Init /\ [][Next]_vars

--------------------------------------------------------------------------------
(* Properties                                                                   *)

\* The cursor hands out each row of the query once and in order, through lost pages that are asked
\* for again (crates/qh-ffi/src/retry.rs RetryCursor) and a Stop in between.
RowsInOrder ==
    cursor # None =>
        LET upto == IF cursor.next = 0 THEN query[cursor.id].pages ELSE cursor.next - 1
            out == seen \o cursor.pending IN
        /\ {out[i] : i \in DOMAIN out} = query[cursor.id].full \cap (1 .. upto)
        /\ \A i, j \in DOMAIN out : i < j => out[i] < out[j]
        /\ cursor.limit # 0 => Len(seen) <= cursor.limit

\* While a query that is being read still runs, a Stop has the query's own current page to DELETE.
CancelReaches ==
    cursor # None /\ ~cursor.finished /\ busy = "free" /\ Alive(cursor.id)
        => running = [id |-> cursor.id, page |-> cursor.next]
================================================================================
