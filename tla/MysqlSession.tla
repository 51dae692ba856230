----------------------------- MODULE MysqlSession -----------------------------
(***************************************************************************)
(* A MySQL session (crates/qh-driver-mysql/src/lib.rs): one caller that    *)
(* sends statements, the task that runs each statement and owns the        *)
(* connection meanwhile, the Flight through which it hands the connection  *)
(* back, the bounded channel to the cursor, and the server.  What the      *)
(* driver believes of its connection (database, transaction, time bound,   *)
(* select limit) is kept apart from what is true on the server.            *)
(***************************************************************************)
EXTENDS Naturals, Sequences, FiniteSets

CONSTANTS
    Conns,        \* ids of the connections the session may open in its life, 1..n
    Databases,    \* databases of the server
    Backlog,      \* BATCH_BACKLOG: batches the producer may run ahead by
    Statements,   \* what the caller may send: [kind, capped, bound]
    MaxBatches,   \* bound on the batches of a result
    MaxEvents,    \* bound on the statements, cut connections and runs of a behaviour
    None

VARIABLES
    conn,      \* what is true of each connection on the server
    idle,      \* MysqlSession::idle
    flight,    \* MysqlSession::flight, named by the connection it lent
    wanted,    \* wanted_db
    current,   \* current_db
    home,      \* opts.db_name(): where a new connection starts
    inTxn,     \* in_transaction
    lost,      \* transaction_lost
    bound,     \* statement_timeout: the bound last sent (0 is none)
    limit,     \* select_limit: the limit last sent (0 is none)
    call,      \* the call in progress
    task,      \* the producer of each connection
    chan,      \* its channel
    cursors,   \* connections whose cursor the caller still holds
    began,     \* the connection on which the server answered the open BEGIN (history)
    unsent,    \* a COMMIT or ROLLBACK since then had its connection and was not sent (history)
    events     \* statements, cuts and runs so far

driver == <<wanted, current, home, inTxn, lost, bound, limit>>
vars   == <<conn, idle, flight, driver, call, task, chan, cursors, began, unsent, events>>

NoConn == [st |-> "none", db |-> None, ro |-> FALSE, bound |-> 0, limit |-> 0, txn |-> FALSE]
NewConn(db) == [NoConn EXCEPT !.st = "open", !.db = db]
NoCall == [pc |-> "free", kind |-> "read", capped |-> FALSE, bound |-> 0, conn |-> None]
NoTask == [pc |-> "off", kind |-> "read", capped |-> FALSE, announce |-> FALSE, left |-> 0,
           handed |-> FALSE]

Init ==
    \E db \in Databases \cup {None} :
        LET c == CHOOSE x \in Conns : \A y \in Conns : x <= y IN
        /\ conn = [x \in Conns |-> IF x = c THEN NewConn(db) ELSE NoConn]
        /\ idle = c /\ flight = None
        /\ wanted = db /\ current = db /\ home = db
        /\ inTxn = FALSE /\ lost = FALSE /\ bound = 0 /\ limit = 0
        /\ call = NoCall
        /\ task = [x \in Conns |-> NoTask]
        /\ chan = [x \in Conns |-> <<>>]
        /\ cursors = {}
        /\ began = None /\ unsent = FALSE
        /\ events = 0

--------------------------------------------------------------------------------
(* The connection for a statement.                                              *)

Dead(c) == [conn EXCEPT ![c] = [NoConn EXCEPT !.st = "gone"]]

\* Flight::cursor_gone and Flight::is_finished.
CursorGone(c) == c \notin cursors
Finished(c) == task[c].pc = "off"

\* run_statement and text_rows up to the connection; a session that lost its transaction refuses
\* everything but ROLLBACK before it touches anything.
Execute(s) ==
    /\ call.pc = "free"
    /\ lost => s.kind \in {"rollback", "browse"}
    /\ call' = [pc |-> "connection", kind |-> s.kind, capped |-> s.capped, bound |-> s.bound,
                conn |-> None]
    /\ UNCHANGED <<conn, idle, flight, driver, task, chan, cursors, began, unsent>>
    /\ events < MaxEvents /\ events' = events + 1

\* txn_effect: what the statement's first words do to the session's transaction.
Effect(kind) ==
    CASE kind = "begin" -> inTxn' = TRUE /\ lost' = lost
      [] kind \in {"commit", "rollback"} -> inTxn' = FALSE /\ lost' = FALSE
      [] OTHER -> UNCHANGED <<inTxn, lost>>

Got(c) ==
    /\ call' = [call EXCEPT !.pc = "use", !.conn = c]
    /\ Effect(call.kind)
    /\ UNCHANGED <<began, unsent>>

Failed == call' = NoCall

\* A COMMIT or ROLLBACK that has its connection and is not sent on it: the driver has already
\* forgotten the transaction.
Unsent ==
    unsent' = (unsent \/ (/\ call.pc \in {"use", "set", "send"}
                          /\ call.kind \in {"commit", "rollback"}))

\* MysqlSession::connection, the connection the session already has.
TakeIdle ==
    /\ call.pc = "connection" /\ idle # None
    /\ Got(idle)
    /\ idle' = None
    /\ UNCHANGED <<conn, flight, wanted, current, home, bound, limit, task, chan, cursors, events>>

\* The previous statement hands it back.
TakeBack ==
    /\ call.pc = "connection" /\ idle = None /\ flight # None
    /\ task[flight].handed
    /\ Got(flight)
    /\ task' = [task EXCEPT ![flight].handed = FALSE]
    /\ flight' = None
    /\ UNCHANGED <<conn, idle, wanted, current, home, bound, limit, chan, cursors, events>>

\* The previous cursor is alive and its statement did not end within HAND_BACK_WAIT.
StillRead ==
    /\ call.pc = "connection" /\ idle = None /\ flight # None
    /\ ~CursorGone(flight) /\ ~Finished(flight)
    /\ Failed
    /\ UNCHANGED <<conn, idle, flight, driver, task, chan, cursors, began, unsent, events>>

\* Nothing to take: no flight, or one whose cursor is dropped or whose connection was not kept.
Gone == flight # None => ~task[flight].handed /\ (CursorGone(flight) \/ Finished(flight))

\* may_replace: in a transaction only a ROLLBACK may run on another connection.
MayReplace == ~inTxn \/ call.kind = "rollback"

\* No connection to take: in a transaction that is an error, unless the statement is ROLLBACK.
TransactionLost ==
    /\ call.pc = "connection" /\ idle = None /\ Gone
    /\ ~MayReplace
    /\ flight' = None
    /\ lost' = TRUE
    /\ Failed
    /\ UNCHANGED <<conn, idle, wanted, current, home, inTxn, bound, limit,
                   task, chan, cursors, began, unsent, events>>

Unopened == {c \in Conns : conn[c].st = "none"}

\* Mutant of Opened: the trackers keep the bounds of the connection that is gone.
OpenedKeepsBounds(c) ==
    /\ conn' = [conn EXCEPT ![c] = NewConn(home)]
    /\ UNCHANGED <<wanted, current, home, bound, limit>>

\* What a new connection starts with: the server's own settings, in the database of the options.
Opened(c) ==
    /\ conn' = [conn EXCEPT ![c] = NewConn(home)]
    /\ bound' = 0 /\ limit' = 0
    /\ UNCHANGED <<wanted, current, home>>

OpenAnother(c) ==
    /\ call.pc = "connection" /\ idle = None /\ Gone
    /\ MayReplace
    /\ c \in Unopened /\ \A d \in Unopened : c <= d
    /\ flight' = None
    /\ Opened(c)
    /\ Got(c)
    /\ UNCHANGED <<idle, task, chan, cursors, events>>

OpenFails ==
    /\ call.pc = "connection" /\ idle = None /\ Gone
    /\ MayReplace
    /\ flight' = None
    /\ Failed
    /\ UNCHANGED <<conn, idle, driver, task, chan, cursors, began, unsent, events>>

--------------------------------------------------------------------------------
(* What is sent before the statement.                                           *)

Alive(c) == conn[c].st = "open"

\* use_wanted_database
UseWanted ==
    /\ call.pc = "use"
    /\ IF wanted = None \/ current = wanted
       THEN UNCHANGED <<conn, current, home>>
       ELSE /\ Alive(call.conn)
            /\ conn' = [conn EXCEPT ![call.conn].db = wanted]
            /\ current' = wanted /\ home' = wanted
    /\ call' = [call EXCEPT !.pc = "set"]
    /\ UNCHANGED <<idle, flight, wanted, inTxn, lost, bound, limit,
                   task, chan, cursors, began, unsent, events>>

\* select_limit_for: only a capped read has the server stop it; text_rows never has a limit and
\* keeps the bound in force.
LimitFor == IF call.capped /\ call.kind = "read" THEN 1 ELSE 0
BoundFor == IF call.kind = "browse" THEN bound ELSE call.bound

\* apply_session_settings: one SET, sent only when one of the two changed.
ApplySettings ==
    /\ call.pc = "set"
    /\ IF <<bound, limit>> = <<BoundFor, LimitFor>>
       THEN UNCHANGED conn
       ELSE /\ Alive(call.conn)
            /\ conn' = [conn EXCEPT ![call.conn].bound = BoundFor, ![call.conn].limit = LimitFor]
    /\ bound' = BoundFor /\ limit' = LimitFor
    /\ call' = [call EXCEPT !.pc = "send"]
    /\ UNCHANGED <<idle, flight, wanted, current, home, inTxn, lost,
                   task, chan, cursors, began, unsent, events>>

\* USE or SET failed: the connection goes back to the session whatever happened to it.
NotApplied ==
    /\ \/ call.pc = "use" /\ wanted # None /\ current # wanted
       \/ call.pc = "set" /\ <<bound, limit>> # <<BoundFor, LimitFor>>
    /\ idle' = call.conn
    /\ Failed /\ Unsent
    /\ UNCHANGED <<conn, flight, driver, task, chan, cursors, began, events>>

\* text_rows: the session's own statement runs here, and the connection comes back in any case.
Browse ==
    /\ call.pc = "send" /\ call.kind = "browse"
    /\ idle' = call.conn
    /\ Failed
    /\ UNCHANGED <<conn, flight, driver, task, chan, cursors, began, unsent, events>>

\* The producer takes the connection.  A read that is not capped is described first, so its cursor
\* is there at once; otherwise the call waits for the columns.
Spawn(described) ==
    LET c == call.conn IN
    /\ call.pc = "send" /\ call.kind # "browse"
    /\ described => call.kind = "read" /\ ~call.capped /\ Alive(c)
    /\ flight' = c
    /\ task' = [task EXCEPT ![c] = [NoTask EXCEPT !.pc = "run", !.kind = call.kind,
                                       !.capped = call.capped, !.announce = ~described]]
    /\ chan' = [chan EXCEPT ![c] = <<>>]
    /\ cursors' = cursors \cup {c}
    /\ call' = IF described THEN NoCall ELSE [call EXCEPT !.pc = "ready"]
    /\ began' = IF call.kind \in {"commit", "rollback"} \/ (call.kind = "begin" /\ unsent)
                  THEN None ELSE began
    /\ unsent' = (unsent /\ call.kind \notin {"begin", "commit", "rollback"})
    /\ UNCHANGED <<conn, idle, driver, events>>

\* The first message.  A statement without rows also waits for its connection, at most
\* HAND_BACK_WAIT: not finished here means that wait ran out.
Ready ==
    /\ call.pc = "ready" /\ chan[call.conn] # <<>>
    /\ chan' = [chan EXCEPT ![call.conn] = IF Head(@) = "Ready" THEN Tail(@) ELSE <<>>]
    /\ cursors' = IF Head(chan[call.conn]) = "Ready" THEN cursors ELSE cursors \ {call.conn}
    /\ Failed
    /\ UNCHANGED <<conn, idle, flight, driver, task, began, unsent, events>>

\* A Stop drops the call where it stands: a connection it holds is closed, a flight it took out
\* of the session is forgotten, and a cursor it waited for is closed.
StopCall ==
    /\ call.pc # "free"
    /\ Failed /\ Unsent
    /\ CASE call.pc = "connection" /\ idle = None /\ flight # None ->
                /\ flight' = None
                /\ conn' = IF Finished(flight) THEN Dead(flight) ELSE conn
                /\ task' = [task EXCEPT ![flight].handed = FALSE]
                /\ UNCHANGED cursors
         [] call.pc \in {"use", "set", "send"} ->
                /\ conn' = Dead(call.conn)
                /\ UNCHANGED <<flight, task, cursors>>
         [] call.pc = "ready" ->
                /\ cursors' = cursors \ {call.conn}
                /\ UNCHANGED <<conn, flight, task>>
         [] OTHER -> UNCHANGED <<conn, flight, task, cursors>>
    /\ chan' = [c \in Conns |-> IF c \in cursors' THEN chan[c] ELSE <<>>]
    /\ UNCHANGED <<idle, driver, began, events>>

Call ==
    \/ \E s \in Statements : Execute(s)
    \/ TakeIdle \/ TakeBack \/ StillRead \/ TransactionLost
    \/ \E c \in Conns : OpenAnother(c)
    \/ OpenFails \/ UseWanted \/ ApplySettings \/ NotApplied \/ Browse
    \/ \E described \in BOOLEAN : Spawn(described)
    \/ Ready \/ StopCall

--------------------------------------------------------------------------------
(* The producer: produce, consume and refused.                                  *)

\* Flight::finish.  The connection is kept when the statement ended cleanly and the session still
\* holds the flight; the failure, if there is one, is announced after it.
Finish(c, clean, failed) ==
    LET kept == clean /\ flight = c /\ Alive(c) IN
    /\ task' = [task EXCEPT ![c] = [NoTask EXCEPT !.handed = kept]]
    /\ chan' = IF failed /\ c \in cursors THEN [chan EXCEPT ![c] = Append(@, "Failed")] ELSE chan

\* A connection nobody kept is closed, and its server rolls back.
AfterFinish(c, clean) ==
    conn' = IF clean /\ flight = c THEN conn ELSE Dead(c)

\* What the server does with the statement.
Acted(c, kind) ==
    CASE kind = "begin"  -> [conn[c] EXCEPT !.txn = TRUE]
      [] kind \in {"commit", "rollback"} -> [conn[c] EXCEPT !.txn = FALSE]
      [] kind = "setro"  -> [conn[c] EXCEPT !.ro = TRUE]
      [] OTHER           -> conn[c]

Runs(c, db, n) ==
    /\ task[c].pc = "run" /\ Alive(c)
    /\ task[c].kind = "use" \/ db = conn[c].db
    /\ n > 0 => task[c].kind = "read" \/ (task[c].kind = "write" /\ task[c].capped)
    /\ conn' = [conn EXCEPT ![c] = [Acted(c, task[c].kind) EXCEPT !.db = db]]
    /\ task' = [task EXCEPT ![c].pc = IF task[c].announce THEN "announce" ELSE "rows",
                            ![c].left = n]
    /\ began' = IF task[c].kind = "begin" /\ flight = c THEN c ELSE began
    /\ UNCHANGED <<idle, flight, driver, call, chan, cursors, unsent, events>>

Announce(c) ==
    /\ task[c].pc = "announce"
    /\ IF c \in cursors
       THEN /\ chan' = [chan EXCEPT ![c] = Append(@, "Ready")]
            /\ task' = [task EXCEPT ![c].pc = "rows"]
            /\ UNCHANGED conn
       ELSE Finish(c, FALSE, FALSE) /\ AfterFinish(c, FALSE)
    /\ UNCHANGED <<idle, flight, driver, call, cursors, began, unsent, events>>

\* A full batch goes to the channel, which holds Backlog of them; a closed one ends the loop.
SendBatch(c) ==
    /\ task[c].pc = "rows" /\ task[c].left > 1 /\ Alive(c)
    /\ IF c \in cursors
       THEN /\ Len(chan[c]) < Backlog
            /\ chan' = [chan EXCEPT ![c] = Append(@, "Batch")]
            /\ task' = [task EXCEPT ![c].left = @ - 1]
            /\ UNCHANGED conn
       ELSE Finish(c, FALSE, FALSE) /\ AfterFinish(c, FALSE)
    /\ UNCHANGED <<idle, flight, driver, call, cursors, began, unsent, events>>

\* The client-side cap: rows are left on the wire, so the connection is not kept.
CapReached(c) ==
    /\ task[c].pc = "rows" /\ task[c].left > 0 /\ task[c].capped /\ conn[c].limit = 0
    /\ Finish(c, FALSE, FALSE) /\ AfterFinish(c, FALSE)
    /\ UNCHANGED <<idle, flight, driver, call, cursors, began, unsent, events>>

\* A statement with a result set has packets to read; one without is over when it is answered.
Streams(c) == task[c].kind = "read" \/ task[c].left > 0

\* The last packet was read: the last batch is sent to whoever is left, and the connection is kept.
Exhausted(c) ==
    /\ task[c].pc = "rows" /\ task[c].left <= 1
    /\ Streams(c) => Alive(c)
    /\ task[c].left = 1 /\ c \in cursors => Len(chan[c]) < Backlog
    /\ LET kept == flight = c IN
       /\ task' = [task EXCEPT ![c] = [NoTask EXCEPT !.handed = kept]]
       /\ chan' = IF task[c].left = 1 /\ c \in cursors
                  THEN [chan EXCEPT ![c] = Append(@, "Batch")] ELSE chan
    /\ AfterFinish(c, TRUE)
    /\ UNCHANGED <<idle, flight, driver, call, cursors, began, unsent, events>>

\* The server answers with an error (a refusal, a KILL QUERY): the connection is still good.
Refused(c) ==
    /\ task[c].pc = "run" \/ (task[c].pc = "rows" /\ Streams(c))
    /\ Alive(c)
    /\ Finish(c, TRUE, TRUE) /\ AfterFinish(c, TRUE)
    /\ UNCHANGED <<idle, flight, driver, call, cursors, began, unsent, events>>

\* The socket died under the statement.
Cut(c) ==
    /\ task[c].pc = "run" \/ (task[c].pc = "rows" /\ Streams(c))
    /\ ~Alive(c)
    /\ Finish(c, FALSE, TRUE)
    /\ UNCHANGED <<conn, idle, flight, driver, call, cursors, began, unsent, events>>

Producer(c) ==
    \/ \E db \in Databases \cup {None}, n \in 0 .. MaxBatches : Runs(c, db, n)
    \/ Announce(c) \/ SendBatch(c) \/ CapReached(c) \/ Exhausted(c) \/ Refused(c) \/ Cut(c)

--------------------------------------------------------------------------------
(* The cursor, the server and the pool.                                         *)

\* MysqlCursor::next_batch
NextBatch(c) ==
    /\ c \in cursors /\ chan[c] # <<>> /\ call.pc = "free"
    /\ chan' = [chan EXCEPT ![c] = Tail(@)]
    /\ UNCHANGED <<conn, idle, flight, driver, call, task, cursors, began, unsent, events>>

\* Drop for MysqlCursor; enforce_read_only drops its own only when the statement has ended.
DropCursor(c) ==
    /\ c \in cursors /\ call.pc = "free"
    /\ task[c].kind # "setro"
    /\ cursors' = cursors \ {c}
    /\ chan' = [chan EXCEPT ![c] = <<>>]
    /\ UNCHANGED <<conn, idle, flight, driver, call, task, began, unsent, events>>

\* A connection is cut by the network or the server.
ConnectionDies(c) ==
    /\ Alive(c)
    /\ conn' = Dead(c)
    /\ UNCHANGED <<idle, flight, driver, call, task, chan, cursors, began, unsent>>
    /\ events < MaxEvents /\ events' = events + 1

\* What reset finds: the idle connection, or the one a finished statement handed back.
ToReset == IF idle # None THEN idle
           ELSE IF flight # None /\ task[flight].handed THEN flight ELSE None

\* reset, then set_context for the next run; the pool's key keeps runs that name a database apart
\* from runs that name none.  A session whose reset fails is closed by the pool
\* (Checkin in SessionPool), which is the end of it here.
NextRun(db) ==
    LET c == ToReset IN
    /\ call.pc = "free" /\ c # None /\ Alive(c)
    /\ (db = None) = (wanted = None)
    /\ ~(home = None /\ conn[c].db # None)
    /\ conn' = [conn EXCEPT ![c] = NewConn(conn[c].db)]
    /\ current' = conn[c].db
    /\ idle' = c
    /\ flight' = IF idle # None THEN flight ELSE None
    /\ task' = [task EXCEPT ![c].handed = FALSE]
    /\ inTxn' = FALSE /\ lost' = FALSE /\ bound' = 0 /\ limit' = 0
    /\ wanted' = db
    /\ cursors' = {} /\ chan' = [x \in Conns |-> <<>>]
    /\ began' = None /\ unsent' = FALSE
    /\ UNCHANGED <<home, call>>
    /\ events < MaxEvents /\ events' = events + 1

Session ==
    \/ \E c \in Conns : NextBatch(c) \/ DropCursor(c) \/ ConnectionDies(c)
    \/ \E db \in Databases \cup {None} : NextRun(db)

Next == Call \/ Session \/ \E c \in Conns : Producer(c)

Spec == Init /\ [][Next]_vars

--------------------------------------------------------------------------------
(* Properties.                                                                  *)

\* A statement is about to be sent on its connection.
Sending == call.pc = "send" /\ Alive(call.conn)

\* Every statement runs under the time bound and the row cap its own call asked for, whatever
\* connection it got: the SET is skipped only when the tracker is right about that connection.
BoundsInForce ==
    Sending => conn[call.conn].bound = BoundFor /\ conn[call.conn].limit = LimitFor

\* Between a BEGIN the server answered and the COMMIT or ROLLBACK that is sent to end it, nothing but
\* a ROLLBACK is sent on another connection, where it would run on its own; as long as no COMMIT or
\* ROLLBACK failed between getting its connection and being sent.
TransactionWhole ==
    Sending /\ began # None /\ ~unsent /\ call.kind # "rollback" => call.conn = began

\* The same without the exception, of a COMMIT, as lib.rs:487 and 490 say it: the driver's transaction
\* is over when a COMMIT or ROLLBACK "was sent", and once its connection is lost everything but ROLLBACK
\* is refused, "because running on a fresh autocommit connection would let a `COMMIT` succeed over
\* nothing".
NotOverNothing ==
    Sending /\ began # None /\ call.kind = "commit" => call.conn = began
================================================================================
