-------------------------- MODULE PostgresSession --------------------------
(***************************************************************************)
(* One PostgreSQL session of qh-driver-postgres as the pool lends it from  *)
(* run to run: the server's session settings, the driver's copy of         *)
(* statement_timeout, and the transaction that undoes a SET when it rolls  *)
(* back.  A run states one bound for every statement of its own; the       *)
(* statement that makes the session read-only goes first, without one.     *)
(***************************************************************************)
EXTENDS Naturals

CONSTANTS
    Bounds,       \* statement bounds a run may ask for
    MaxRuns,      \* bound: runs the session is lent to
    MaxStatements,\* bound: statements of one run
    None          \* "no bound", and the server's default

VARIABLES
    open,      \* the client's connection is up (Client::is_closed is false)
    server,    \* the backend: bound in force, read-only default, transaction
    tracker,   \* PostgresSession.statement_timeout
    run,       \* the run holding the session
    runs,      \* runs so far
    seen       \* the last statement the server ran, and what it ran under

vars == <<open, server, tracker, run, runs, seen>>

Wanted == Bounds \cup {None}

\* A backend as a new connection finds it.
Fresh == [timeout |-> None, readOnly |-> FALSE, txn |-> "none",
          before |-> None, prepared |-> FALSE]

NoRun == [at |-> "idle", bound |-> None, fence |-> FALSE, own |-> FALSE, sent |-> 0]

Init ==
    /\ open = TRUE
    /\ server = Fresh
    /\ tracker = None
    /\ run = NoRun
    /\ runs = 0
    /\ seen = [wanted |-> None, got |-> None, own |-> FALSE]

TypeOK ==
    /\ open \in BOOLEAN
    /\ server \in [timeout : Wanted \cup {"user"}, readOnly : BOOLEAN,
                   txn : {"none", "open", "failed"},
                   before : Wanted \cup {"user"}, prepared : BOOLEAN]
    /\ tracker \in Wanted
    /\ run.at \in {"idle", "fencing", "running"} /\ runs \in 0..MaxRuns

-----------------------------------------------------------------------------
(* The server.                                                             *)

\* SET statement_timeout, when the driver's copy differs from what is wanted;
\* in a failed transaction the server refuses it.
NeedsSet(wanted) == tracker # wanted

SetTimeout(sv, wanted) == IF NeedsSet(wanted) THEN [sv EXCEPT !.timeout = wanted] ELSE sv

SetRefused(wanted) == NeedsSet(wanted) /\ server.txn = "failed"

\* What the text of a statement does to the backend once it runs.  An error
\* inside a transaction fails it, and a failed or abandoned transaction puts
\* back the settings it found.
Effect(kind, sv) ==
    CASE kind = "read"     -> sv
      [] kind = "fence"    -> [sv EXCEPT !.readOnly = TRUE]
      [] kind = "set"      -> [sv EXCEPT !.timeout = "user"]
      [] kind = "prepare"  -> [sv EXCEPT !.prepared = TRUE]
      [] kind = "begin"    -> IF sv.txn = "none"
                              THEN [sv EXCEPT !.txn = "open", !.before = sv.timeout] ELSE sv
      [] kind = "commit"   -> IF sv.txn = "failed"
                              THEN [sv EXCEPT !.txn = "none", !.timeout = sv.before]
                              ELSE [sv EXCEPT !.txn = "none"]
      [] kind = "rollback" -> IF sv.txn = "none" THEN sv
                              ELSE [sv EXCEPT !.txn = "none", !.timeout = sv.before]

Kinds == {"read", "set", "prepare", "begin", "commit", "rollback"}

\* An aborted transaction takes only its own end.
Accepts(kind, sv) == sv.txn = "failed" => kind \in {"commit", "rollback"}

Fail(sv) == IF sv.txn = "open" THEN [sv EXCEPT !.txn = "failed"] ELSE sv

Note(wanted, sv) ==
    seen' = [wanted |-> wanted, got |-> sv.timeout, own |-> run.own]

-----------------------------------------------------------------------------
(* A run takes the session; ensure_open refuses a dead connection.         *)

BeginRun(bound, fence) ==
    /\ run.at = "idle" /\ open /\ runs < MaxRuns
    /\ run' = [at |-> IF fence THEN "fencing" ELSE "running",
               bound |-> bound, fence |-> fence, own |-> FALSE, sent |-> 0]
    /\ runs' = runs + 1
    /\ UNCHANGED <<open, server, tracker, seen>>

\* execute: SET and the describe travel together, so a describe that fails
\* leaves the SET in force and the driver's copy as it was.
DescribeFails(wanted) ==
    /\ \/ SetRefused(wanted) /\ server' = server
       \/ ~SetRefused(wanted) /\ server' = Fail(SetTimeout(server, wanted))
    /\ UNCHANGED <<tracker, seen>>

\* execute past its describe: the statement is sent and the copy brought up to date.
Executes(kind, wanted) ==
    LET sv == SetTimeout(server, wanted)
    IN  /\ ~SetRefused(wanted) /\ Accepts(kind, sv)
        /\ Note(wanted, sv)
        /\ tracker' = wanted
        /\ \/ server' = Effect(kind, sv)
           \/ kind \notin {"commit", "rollback"} /\ server' = Fail(sv)

\* enforce_read_only: the driver's read_only_statement through execute, with
\* default options (no bound); a failure ends the run.
Fence ==
    /\ run.at = "fencing" /\ open
    /\ \/ /\ DescribeFails(None)
          /\ run' = [run EXCEPT !.at = "running", !.sent = MaxStatements]
       \/ /\ Executes("fence", None)
          /\ run' = [run EXCEPT !.at = "running",
                                !.sent = IF server'.readOnly THEN 0 ELSE MaxStatements]
    /\ UNCHANGED <<open, runs>>

\* One statement of the run.  The guard refuses a SET of a read-only run.
Execute(kind) ==
    /\ run.at = "running" /\ open /\ run.sent < MaxStatements
    /\ run.fence => kind # "set"
    /\ \/ DescribeFails(run.bound) /\ run' = [run EXCEPT !.sent = @ + 1]
       \/ /\ Executes(kind, run.bound)
          /\ run' = [run EXCEPT !.sent = @ + 1, !.own = @ \/ kind = "set"]
    /\ UNCHANGED <<open, runs>>

\* copy_in and execute_bound: the SET first, on its own; the copy follows it
\* whatever becomes of the statement.  An abandoned COPY (CopyFail) and a
\* statement refused after its describe are failures.
ExecuteBound ==
    LET sv == SetTimeout(server, run.bound)
    IN  /\ run.at = "running" /\ open /\ run.sent < MaxStatements
        /\ run' = [run EXCEPT !.sent = @ + 1]
        /\ \/ SetRefused(run.bound) /\ UNCHANGED <<server, tracker, seen>>
           \/ /\ ~SetRefused(run.bound)
              /\ tracker' = run.bound
              /\ \/ Accepts("read", sv) /\ Note(run.bound, sv) /\ server' \in {sv, Fail(sv)}
                 \/ server' = Fail(sv) /\ UNCHANGED seen
        /\ UNCHANGED <<open, runs>>

\* browse and objects: text_rows, under whatever bound is in force.
Browse ==
    /\ run.at = "running" /\ open /\ run.sent < MaxStatements
    /\ server' \in {server, Fail(server)}
    /\ run' = [run EXCEPT !.sent = @ + 1]
    /\ UNCHANGED <<open, tracker, runs, seen>>

\* reset: ROLLBACK, RESET ALL and the user's prepared statements by name, then
\* the driver's copy says what a new connection has.
Reset ==
    /\ server' = Fresh
    /\ tracker' = None

\* The run ends: the pool keeps the session after a reset that worked and drops
\* it otherwise.
EndRun ==
    /\ run.at # "idle"
    /\ run' = NoRun
    /\ \/ open /\ Reset /\ open' = TRUE
       \/ open' = FALSE /\ UNCHANGED <<server, tracker>>
    /\ UNCHANGED <<runs, seen>>

\* The connection dies; every later call is refused by ensure_open.
Lost == open /\ open' = FALSE /\ UNCHANGED <<server, tracker, run, runs, seen>>

Next ==
    \/ \E b \in Wanted, f \in BOOLEAN : BeginRun(b, f)
    \/ Fence
    \/ \E k \in Kinds : Execute(k)
    \/ ExecuteBound
    \/ Browse
    \/ EndRun
    \/ Lost

Spec == Init /\ [][Next]_vars

-----------------------------------------------------------------------------
\* Every statement runs under the bound its run asked for, though the SET is
\* skipped when the driver believes it is in force and a rolled-back transaction
\* undoes one (timeout_statement, execute, reset), unless the run's own SQL
\* changed the bound.
PgBound == seen.own \/ seen.got = seen.wanted
=============================================================================
