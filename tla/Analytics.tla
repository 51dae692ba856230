------------------------------ MODULE Analytics ------------------------------
(***************************************************************************)
(* The protocol loop of the analytics helper (helpers/analytics: server.rs,*)
(* output.rs, remote_table.rs).  A reader thread, a writer thread behind a *)
(* bounded channel and one task per query; a query's scan deals the chunks *)
(* of a result to its partitions, each of which asks the app for its own,  *)
(* and the reader hands the answers over.  The query modelled is a scan of *)
(* the whole result.                                                       *)
(***************************************************************************)
EXTENDS Naturals, Sequences, SequencesExt

CONSTANTS
    Runs,      \* statements the app asks for
    IdOf,      \* the query id it gives each of them
    Shares,    \* partitions a scan may have, for what its leases pay
    Chunks,    \* chunks of the registered result
    PerChunk,  \* rows of a chunk; a piece of output has one
    Caps,      \* row caps the app may ask for
    Endings,   \* how the app may end: "closesession", "shutdown", "eof"
    Credits,   \* CREDITS: requests a scan may have open
    Backlog,   \* capacity of the outgoing channel
    MaxInbox   \* bound on the frames the app has written and the reader has not read

VARIABLES
    inbox,    \* frames on their way from the app
    out,      \* the outgoing channel
    asked,    \* chunk requests the app has read and not answered
    got,      \* per query id, the frames the app has read (history)
    open,     \* the session is open
    pending,  \* Shared.pending: requests somebody waits for
    task,     \* the query tasks
    serving   \* "yes", "closing" once the reader has left its loop, "gone"

vars == <<inbox, out, asked, got, open, pending, task, serving>>

Frame(k, q, n, m) == [kind |-> k, run |-> q, chunk |-> n, rows |-> m]

\* Of a scan: how many partitions it has, which of them run, the next chunk and the open requests of
\* each, and the batches of several partitions on their way to the pump.
Idle == [pc |-> "off", cap |-> 0, parts |-> 0, cancel |-> FALSE, scans |-> {}, next |-> <<>>,
         asks |-> <<>>, ready |-> <<>>, chunk |-> 0, left |-> 0, cut |-> FALSE, rows |-> 0,
         end |-> "none"]

\* A task that is over: only what was asked of it and how many partitions it had are remembered, and
\* the partitions that have not ended yet.
Over(t) == [Idle EXCEPT !.pc = "ended", !.cap = t.cap, !.parts = t.parts,
                        !.scans = t.scans, !.next = t.next, !.asks = t.asks]

\* Where a task stands, the stream of its query being alive in the middle three.
Streaming == {"columns", "pull", "send"}

Init ==
    /\ inbox = <<>> /\ out = <<>> /\ asked = {} /\ pending = {} /\ open = TRUE
    /\ got = [i \in Range(IdOf) |-> <<>>]
    /\ task = [q \in Runs |-> Idle]
    /\ serving = "yes"

\* Shared.queries: a query stands under its id until its outcome is known.
Listed(q) == task[q].pc \in {"plan", "finish"} \cup Streaming

HasRoom == Len(out) < Backlog
Say(f) == HasRoom /\ out' = Append(out, f)

-----------------------------------------------------------------------------
(* The app (external).                                                     *)

Writes(f) == serving = "yes" /\ Len(inbox) < MaxInbox /\ inbox' = Append(inbox, f)

AppRuns(q, cap) ==
    /\ task[q].pc = "off"
    /\ Writes(Frame("run", q, 0, 0))
    /\ task' = [task EXCEPT ![q].pc = "sent", ![q].cap = cap]
    /\ UNCHANGED <<out, asked, got, open, pending, serving>>

AppCancels(i) ==
    /\ \E q \in Runs : IdOf[q] = i /\ task[q].pc \notin {"off", "ended"} /\ ~task[q].cancel
    /\ Frame("cancel", i, 0, 0) \notin ToSet(inbox)
    /\ Writes(Frame("cancel", i, 0, 0))
    /\ UNCHANGED <<out, asked, got, open, pending, task, serving>>

\* A chunk, or word that the result is gone; in any order.
AppAnswers(r) ==
    /\ asked' = asked \ {r}
    /\ \E k \in {"batch", "chunkerror"} : Writes(Frame(k, r[1], r[2], 0))
    /\ UNCHANGED <<out, got, open, pending, task, serving>>

AppEnds ==
    /\ \A f \in ToSet(inbox) : f.kind \notin {"closesession", "shutdown", "eof"}
    /\ \E k \in Endings : (k = "closesession" => open) /\ Writes(Frame(k, 0, 0, 0))
    /\ UNCHANGED <<out, asked, got, open, pending, task, serving>>

-----------------------------------------------------------------------------
(* The reader thread: read_loop, handle, answer_request, start_query.      *)

Reads(kind) == serving = "yes" /\ inbox # <<>> /\ Head(inbox).kind = kind /\ inbox' = Tail(inbox)

\* start_query: with no session open, or under an id in use, the query is refused with a Done of its
\* own.
StartQuery ==
    LET q == Head(inbox).run IN
    /\ Reads("run")
    /\ IF open /\ \A other \in Runs : IdOf[other] = IdOf[q] => ~Listed(other)
       THEN task' = [task EXCEPT ![q].pc = "plan"] /\ UNCHANGED out
       ELSE Say(Frame("refused", q, 0, 0)) /\ task' = [task EXCEPT ![q] = Over(@)]
    /\ UNCHANGED <<asked, got, open, pending, serving>>

\* Cancel reaches the query that stands under the id.
CancelQuery ==
    /\ Reads("cancel")
    /\ task' = [q \in Runs |-> [task[q] EXCEPT
                    !.cancel = @ \/ (Listed(q) /\ IdOf[q] = Head(inbox).run)]]
    /\ UNCHANGED <<out, asked, got, open, pending, serving>>

Settled(asks, n, word) ==
    [p \in DOMAIN asks |->
       [i \in DOMAIN asks[p] |->
          IF asks[p][i].chunk = n THEN [asks[p][i] EXCEPT !.st = word] ELSE asks[p][i]]]

\* An answer to a request nobody waits for any more is ignored.
AnswerRequest ==
    LET f == Head(inbox)
        r == <<f.run, f.chunk>> IN
    /\ Reads("batch") \/ Reads("chunkerror")
    /\ pending' = pending \ {r}
    /\ task' = IF r \in pending
               THEN [task EXCEPT ![f.run].asks = Settled(@, f.chunk, f.kind)]
               ELSE task
    /\ UNCHANGED <<out, asked, got, open, serving>>

\* Queries that run keep the session they were started with.
CloseSession ==
    /\ Reads("closesession")
    /\ Say(Frame("ack", 0, 0, 0))
    /\ open' = FALSE
    /\ UNCHANGED <<asked, got, pending, task, serving>>

\* Shutdown is answered, the end of the input is not; the loop ends and every query is cancelled.
LeaveLoop ==
    /\ \/ Reads("shutdown") /\ Say(Frame("ack", 0, 0, 0))
       \/ Reads("eof") /\ UNCHANGED out
    /\ serving' = "closing"
    /\ task' = [q \in Runs |-> [task[q] EXCEPT !.cancel = @ \/ Listed(q)]]
    /\ UNCHANGED <<asked, got, open, pending>>

\* serve: Close is queued behind what has been said.
QueueClose ==
    /\ serving = "closing" /\ Say(Frame("close", 0, 0, 0))
    /\ serving' = "joining"
    /\ UNCHANGED <<inbox, asked, got, open, pending, task>>

-----------------------------------------------------------------------------
(* The writer thread: write_loop.                                          *)

WriteFrame ==
    LET f == Head(out) IN
    /\ out # <<>> /\ f.kind # "close"
    /\ out' = Tail(out)
    /\ asked' = IF f.kind = "request" THEN asked \cup {<<f.run, f.chunk>>} ELSE asked
    /\ got' = IF f.kind \in {"columns", "row", "ok", "truncated", "cancelled", "failed", "refused"}
              THEN [got EXCEPT ![IdOf[f.run]] = Append(@, f)] ELSE got
    /\ UNCHANGED <<inbox, open, pending, task, serving>>

\* The process ends, at the Close or because the writer failed (on_write_failure), and everything it
\* held with it.
ProcessEnds ==
    /\ serving # "gone" /\ out # <<>>
    /\ serving' = "gone"
    /\ inbox' = <<>> /\ out' = <<>> /\ asked' = {} /\ pending' = {}
    /\ task' = [q \in Runs |-> [Over(task[q]) EXCEPT !.scans = {}, !.next = <<>>, !.asks = <<>>]]
    /\ UNCHANGED <<got, open>>

-----------------------------------------------------------------------------
(* A query's task: run_query, pump, and the scan's fetches.                *)

Alive(q, where) == task[q].pc \in where

\* Mutant: a dropped fetch leaves its request in the table.
EndsListed(q, end, rows) ==
    /\ task' = [task EXCEPT ![q].pc = "finish", ![q].end = end, ![q].rows = rows,
                            ![q].asks = <<>>, ![q].next = <<>>, ![q].scans = {},
                            ![q].ready = <<>>, ![q].chunk = 0, ![q].left = 0, ![q].cut = FALSE]
    /\ UNCHANGED pending

\* The outcome is known: the stream is dropped.  With one partition its fetches go with it, and their
\* requests (Pending's drop); several run as tasks of their own, which end when they are next looked at.
Ends(q, end, rows) ==
    LET alone == task[q].parts <= 1 IN
    /\ task' = [task EXCEPT ![q].pc = "finish", ![q].end = end, ![q].rows = rows,
                            ![q].asks = IF alone THEN <<>> ELSE @,
                            ![q].next = IF alone THEN <<>> ELSE @,
                            ![q].scans = IF alone THEN {} ELSE @,
                            ![q].ready = <<>>, ![q].chunk = 0, ![q].left = 0, ![q].cut = FALSE]
    /\ pending' = IF alone THEN {r \in pending : r[1] # q} ELSE pending

\* Planning, which a cancel does not interrupt: the scan gets as many partitions as the leases pay for.
Plan(q) ==
    /\ Alive(q, {"plan"})
    /\ \/ /\ \E n \in Shares :
               task' = [task EXCEPT ![q].pc = "columns", ![q].parts = n, ![q].scans = 1 .. n,
                                    ![q].next = [p \in 1 .. n |-> p],
                                    ![q].asks = [p \in 1 .. n |-> <<>>]]
          /\ UNCHANGED pending
       \/ Ends(q, "failed", 0)
    /\ UNCHANGED <<inbox, out, asked, got, open, serving>>

SayColumns(q) ==
    /\ Alive(q, {"columns"})
    /\ Say(Frame("columns", q, 0, 0))
    /\ task' = [task EXCEPT ![q].pc = "pull"]
    /\ UNCHANGED <<inbox, asked, got, open, pending, serving>>

\* A partition's fetches move on while it is polled: the only one by the pump that waits for its next
\* batch, each of several by a task of its own.
Polled(q, p) == p \in task[q].scans /\ (task[q].parts > 1 \/ task[q].pc = "pull")

\* Partition p reads chunks p, p + P, p + 2P, ...: fetch enters its request in the table before it
\* sends it.
Fetch(q, p) ==
    LET t == task[q] IN
    /\ Polled(q, p) /\ t.next[p] <= Chunks /\ Len(t.asks[p]) < Credits
    /\ pending' = pending \cup {<<q, t.next[p]>>}
    /\ task' = [task EXCEPT ![q].next[p] = t.next[p] + t.parts,
                            ![q].asks[p] = Append(@, [chunk |-> t.next[p], st |-> "new"])]
    /\ UNCHANGED <<inbox, out, asked, got, open, serving>>

SendRequest(q, p) ==
    /\ Polled(q, p)
    /\ \E i \in DOMAIN task[q].asks[p] :
         /\ task[q].asks[p][i].st = "new"
         /\ Say(Frame("request", q, task[q].asks[p][i].chunk, 0))
         /\ task' = [task EXCEPT ![q].asks[p][i].st = "asked"]
    /\ UNCHANGED <<inbox, asked, got, open, pending, serving>>

Requests(q, asks) == {<<q, asks[i].chunk>> : i \in DOMAIN asks}

\* Several partitions are brought together as their batches come; one that met an error is over.
Gather(q, p) ==
    LET t == task[q]
        ask == Head(t.asks[p])
        failed == ask.st = "chunkerror" IN
    /\ Alive(q, Streaming) /\ p \in t.scans /\ t.parts > 1
    /\ t.asks[p] # <<>> /\ ask.st \in {"batch", "chunkerror"} /\ Len(t.ready) < t.parts
    /\ task' = [task EXCEPT ![q].ready = Append(@, ask),
                            ![q].asks[p] = IF failed THEN <<>> ELSE Tail(@),
                            ![q].scans = IF failed THEN @ \ {p} ELSE @]
    /\ pending' = IF failed THEN pending \ Requests(q, t.asks[p]) ELSE pending
    /\ UNCHANGED <<inbox, out, asked, got, open, serving>>

\* The task of a partition whose stream was dropped ends, and its fetches with it.
Aborted(q, p) ==
    /\ p \in task[q].scans /\ task[q].pc \notin Streaming
    /\ task' = [task EXCEPT ![q].scans = @ \ {p}, ![q].asks[p] = <<>>, ![q].next[p] = 0]
    /\ pending' = pending \ Requests(q, task[q].asks[p])
    /\ UNCHANGED <<inbox, out, asked, got, open, serving>>

\* pump's select, which looks at the cancel first.
SeeCancel(q) ==
    /\ Alive(q, {"pull"}) /\ task[q].cancel
    /\ Ends(q, "cancelled", task[q].rows)
    /\ UNCHANGED <<inbox, out, asked, got, open, serving>>

\* What the stream gives next: the head of the only partition, or what was gathered first.
Given(t) == IF t.parts = 1 THEN t.asks[1] ELSE t.ready
Taken(t) == IF t.parts = 1 THEN [t EXCEPT !.asks[1] = Tail(@)] ELSE [t EXCEPT !.ready = Tail(@)]

\* The next batch; at the cap a further batch means the result was cut.
NextBatch(q) ==
    LET t == task[q]
        room == t.cap - t.rows IN
    /\ Alive(q, {"pull"}) /\ ~t.cancel /\ Given(t) # <<>> /\ Head(Given(t)).st = "batch"
    /\ IF room = 0
       THEN Ends(q, "truncated", t.rows)
       ELSE /\ task' = [task EXCEPT ![q] =
                          [Taken(t) EXCEPT !.pc = "send", !.chunk = Head(Given(t)).chunk,
                                           !.left = IF PerChunk > room THEN room ELSE PerChunk,
                                           !.cut = PerChunk > room]]
            /\ UNCHANGED pending
    /\ UNCHANGED <<inbox, out, asked, got, open, serving>>

\* The stream ends, or gives an error: the app refused a chunk, or the query failed or panicked.
StreamEnds(q) ==
    LET t == task[q] IN
    /\ Alive(q, {"pull"}) /\ ~t.cancel
    /\ \/ /\ t.ready = <<>> /\ \A p \in DOMAIN t.next : t.next[p] > Chunks /\ t.asks[p] = <<>>
          /\ Ends(q, "ok", t.rows)
       \/ Given(t) # <<>> /\ Head(Given(t)).st = "chunkerror" /\ Ends(q, "failed", t.rows)
       \/ Ends(q, "failed", 0)
    /\ UNCHANGED <<inbox, out, asked, got, open, serving>>

\* One piece of the batch; the rows are counted when all of them are out.
SendPiece(q) ==
    LET t == task[q]
        all == t.rows + (IF t.cut THEN t.cap - t.rows ELSE PerChunk) IN
    /\ Alive(q, {"send"})
    /\ \/ /\ t.left > 1
          /\ Say(Frame("row", q, t.chunk, 0))
          /\ task' = [task EXCEPT ![q].left = @ - 1]
          /\ UNCHANGED pending
       \/ /\ t.left = 1
          /\ Say(Frame("row", q, t.chunk, 0))
          /\ IF t.cut
             THEN Ends(q, "truncated", all)
             ELSE task' = [task EXCEPT ![q].pc = "pull", ![q].left = 0, ![q].rows = all]
                  /\ UNCHANGED pending
       \/ Ends(q, "failed", t.rows) /\ UNCHANGED out
    /\ UNCHANGED <<inbox, asked, got, open, serving>>

\* The id is free a step before the query's last word is said.
Delist(q) ==
    /\ Alive(q, {"finish"})
    /\ task' = [task EXCEPT ![q].pc = "last"]
    /\ UNCHANGED <<inbox, out, asked, got, open, pending, serving>>

SayDone(q) ==
    /\ Alive(q, {"last"})
    /\ Say(Frame(task[q].end, q, 0, task[q].rows))
    /\ task' = [task EXCEPT ![q] = Over(@)]
    /\ UNCHANGED <<inbox, asked, got, open, pending, serving>>

Next ==
    \/ \E q \in Runs :
         \/ \E cap \in Caps : AppRuns(q, cap)
         \/ \E p \in DOMAIN task[q].next : Fetch(q, p) \/ SendRequest(q, p) \/ Gather(q, p) \/ Aborted(q, p)
         \/ Plan(q) \/ SayColumns(q) \/ SeeCancel(q) \/ NextBatch(q) \/ StreamEnds(q) \/ SendPiece(q)
         \/ Delist(q) \/ SayDone(q)
    \/ \E i \in Range(IdOf) : AppCancels(i)
    \/ \E r \in asked : AppAnswers(r)
    \/ AppEnds
    \/ StartQuery \/ CancelQuery \/ AnswerRequest \/ CloseSession \/ LeaveLoop \/ QueueClose
    \/ WriteFrame \/ ProcessEnds

Spec == Init /\ [][Next]_vars

-----------------------------------------------------------------------------
(* Properties.                                                             *)

Finals == {"ok", "truncated", "cancelled", "failed", "refused"}
Told(q) == SelectSeq(got[IdOf[q]], LAMBDA f : f.run = q)
RowsOf(frames) == SelectSeq(frames, LAMBDA f : f.kind = "row")

\* The partition of a scan that reads a chunk (RemoteScanExec: p, p + P, p + 2P, ...).
ShareOf(q, chunk) == (chunk - 1) % task[q].parts

\* What the app reads of a query is its columns, its rows, and one last word that is true: complete
\* only when every row is there once, cut only when a row was left out (pump's "a result of exactly
\* row_cap rows is not reported as cut", start_query's Done).  A chunk's rows come together, and those
\* of one partition in the order of its chunks; the partitions come in any order among each other.
Framed ==
    \A q \in Runs :
        LET fr == Told(q)
            rows == RowsOf(fr)
            total == Chunks * PerChunk IN
        /\ \A i \in DOMAIN fr : fr[i].kind \in Finals => i = Len(fr)
        /\ \A i, j \in DOMAIN rows : i < j =>
              /\ ShareOf(q, rows[i].chunk) = ShareOf(q, rows[j].chunk) => rows[i].chunk <= rows[j].chunk
              /\ rows[i].chunk = rows[j].chunk => j - i < PerChunk
        /\ fr # <<>> /\ Last(fr).kind \in {"ok", "truncated"}
           => /\ Last(fr).rows = Len(rows)
              /\ IF total > task[q].cap
                 THEN Last(fr).kind = "truncated" /\ Len(rows) = task[q].cap
                 ELSE Last(fr).kind = "ok" /\ Len(rows) = total

\* Two results under one id never mix, though an app may give an id again at any time: it is refused
\* while the first query runs, and what was refused sends no rows (server.rs start_query, "That query
\* id is already running").
Unmixed ==
    \A i \in Range(IdOf) :
        LET sent == SelectSeq(got[i], LAMBDA f : f.kind \in {"columns", "row"}) IN
        \A x, y, z \in DOMAIN sent :
            x < y /\ y < z /\ sent[x].run = sent[z].run => sent[y].run = sent[x].run

\* A fetch that waits can be woken: its request stands in the table, and is on its way to the app,
\* with the app, or on its way back; and nobody's request stands there for good (fetch, Pending,
\* answer_request: "a request that is abandoned removes itself").
Woken ==
    /\ \A q \in Runs : \A p \in DOMAIN task[q].asks : \A i \in DOMAIN task[q].asks[p] :
         LET a == task[q].asks[p][i]
             r == <<q, a.chunk>> IN
         a.st = "asked" /\ serving = "yes"
         => /\ r \in pending
            /\ \/ Frame("request", q, a.chunk, 0) \in ToSet(out)
               \/ r \in asked
               \/ \E k \in {"batch", "chunkerror"} : Frame(k, q, a.chunk, 0) \in ToSet(inbox)
    /\ \A r \in pending : \E p \in task[r[1]].scans : \E i \in DOMAIN task[r[1]].asks[p] :
         task[r[1]].asks[p][i].chunk = r[2] /\ task[r[1]].asks[p][i].st \in {"new", "asked"}
=============================================================================
