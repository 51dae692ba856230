------------------------------- MODULE Import -------------------------------
(***************************************************************************)
(* import_data (crates/qh-ffi/src/import.rs): the lines of a file read one *)
(* by one, sent in batches under one of three error modes, inside a        *)
(* transaction or outside it, and the report at the end.  A `.sql` file is *)
(* the same loop with batches of one statement, and its statements may     *)
(* include DDL, which MySQL commits by itself.  The server refuses, writes *)
(* fewer rows than it was sent, ends the transaction with the statement,   *)
(* or is lost before or after it acted.                                    *)
(***************************************************************************)
EXTENDS Naturals, FiniteSets

CONSTANTS
    MaxLines,   \* bound: lines of the file
    Batch       \* IMPORT_BATCH

VARIABLES
    cfg,       \* driver, error mode, family of the file
    pc,        \* where the command is
    line,      \* lines read so far
    batch,     \* lines read and not sent
    txn,       \* the server's transaction: "none", "open" or "aborted"
    pend,      \* lines the transaction holds
    table,     \* lines that landed
    cancel,    \* the Stop
    outcome,   \* Outcome
    named,     \* lines a message of `errors` is about
    odd,       \* lines of batches the server did not write whole
    broken,    \* the server ended a transaction by its own rules (DDL, a lock timeout)
    result     \* what the caller gets

run == <<cfg, cancel>>
vars == <<run, pc, line, batch, txn, pend, table, outcome, named, odd, broken, result>>

Configs == [kind : {"Postgres", "Mysql", "Trino"}, mode : {"Stop", "Commit", "Skip"},
            family : {"rows", "statements"}]

\* transactions is false on Trino, and skip has none to roll back.
InTransaction == cfg.kind # "Trino" /\ cfg.mode # "Skip"

Init ==
    /\ cfg \in Configs /\ cancel = FALSE
    /\ pc = "prologue" /\ line = 0 /\ batch = {}
    /\ txn = "none" /\ pend = {} /\ table = {}
    /\ outcome = [written |-> 0, stopped |-> 0, rollback |-> FALSE, failed |-> FALSE,
                  lost |-> FALSE, gone |-> FALSE]
    /\ named = {} /\ odd = {} /\ broken = FALSE /\ result = "none"

Lines == 1 .. MaxLines

TypeOK ==
    /\ cfg \in Configs /\ cancel \in BOOLEAN
    /\ pc \in {"prologue", "read", "send", "reject", "tail", "finish", "abort", "end"}
    /\ line \in 0 .. MaxLines /\ batch \subseteq Lines
    /\ txn \in {"none", "open", "aborted"} /\ pend \subseteq Lines /\ table \subseteq Lines
    /\ outcome \in [written : Nat, stopped : 0 .. MaxLines, rollback : BOOLEAN,
                    failed : BOOLEAN, lost : BOOLEAN, gone : BOOLEAN]
    /\ named \subseteq Lines /\ odd \subseteq Lines /\ broken \in BOOLEAN
    /\ result \in {"none", "error", "lost", "failed", "done"}

Server == <<txn, pend, table, odd, broken>>
Keep == UNCHANGED <<line, batch, Server, outcome, named, result>>

-----------------------------------------------------------------------------
(* import_rows_file and import_statements: the statements before the loop. *)

\* The foreign-key switch (before BEGIN, so that a rollback leaves it) and BEGIN.
Prologue ==
    /\ pc = "prologue" /\ pc' = "read"
    /\ txn' = IF InTransaction THEN "open" ELSE "none"
    /\ UNCHANGED <<run, line, batch, pend, table, odd, broken, outcome, named, result>>

\* The connect, the description of the target, the switch or BEGIN fails, or the plan is refused.
PrologueFails ==
    /\ pc = "prologue" /\ pc' = "end" /\ result' = "error"
    /\ UNCHANGED <<run, line, batch, Server, outcome, named>>

Stop ==
    /\ ~cancel /\ pc # "end" /\ cancel' = TRUE
    /\ UNCHANGED cfg /\ UNCHANGED pc /\ Keep

-----------------------------------------------------------------------------
(* The loop.                                                               *)

BatchSize == IF cfg.mode = "Skip" \/ cfg.family = "statements" THEN 1 ELSE Batch

\* A good line joins the batch, which is sent when it is full.
ReadRow ==
    /\ pc = "read" /\ ~cancel /\ line < MaxLines
    /\ line' = line + 1 /\ batch' = batch \cup {line'}
    /\ pc' = IF Cardinality(batch') >= BatchSize THEN "send" ELSE "read"
    /\ UNCHANGED <<run, Server, outcome, named, result>>

\* A line that is rejected: too wide, empty, unreadable, or refused by the guard.
\* Under stop and commit what is read is sent first.
RejectRow ==
    /\ pc = "read" /\ ~cancel /\ line < MaxLines
    /\ line' = line + 1 /\ named' = named \cup {line'}
    /\ pc' = IF cfg.mode = "Skip" THEN "read" ELSE "reject"
    /\ UNCHANGED <<run, batch, Server, outcome, result>>

\* The end of the file, or a Stop, which keeps what was read.
EndOfFile ==
    /\ pc = "read" /\ (cancel \/ line > 0)
    /\ pc' = IF batch = {} THEN "finish" ELSE "tail"
    /\ UNCHANGED run /\ Keep

\* The reader or the event stream fails: the transaction is rolled back.
ReaderFails ==
    /\ pc = "read" /\ pc' = "abort" /\ UNCHANGED run /\ Keep

-----------------------------------------------------------------------------
(* One batch: send_batch, and Outcome::failed, halt and lose_connection.   *)

Sending == pc \in {"send", "tail"} \/ (pc = "reject" /\ batch # {})

\* A batch the server took. DDL of a script commits what MySQL's transaction holds.
Lands(b, ddl) ==
    IF txn = "open" /\ ~(ddl /\ cfg.kind = "Mysql")
    THEN pend' = pend \cup b /\ UNCHANGED <<txn, table, broken>>
    ELSE /\ table' = table \cup pend \cup b /\ pend' = {} /\ txn' = "none"
         /\ broken' = (broken \/ txn = "open")

\* Mutant of Halt: commit keeps the prefix whatever the error did to the transaction.
HaltKeeps(at, after) ==
    LET failed == cfg.mode = "Stop"
    IN  outcome' = [outcome EXCEPT !.stopped = at, !.failed = failed,
                                   !.rollback = InTransaction /\ failed]

\* Outcome::halt
Halt(at, after) ==
    LET keep == InTransaction /\ cfg.mode = "Commit"
        gone == keep /\ after = "Gone"
        failed == cfg.mode = "Stop" \/ gone
    IN  outcome' = [outcome EXCEPT !.stopped = at, !.gone = gone, !.failed = failed,
                                   !.rollback = InTransaction /\ failed]

First(b) == CHOOSE l \in b : \A m \in b : l <= m

\* The batch went through; a rejected line behind it still halts the import.
SendOk(ddl) ==
    /\ Sending /\ (ddl => cfg.family = "statements")
    /\ txn # "aborted"
    /\ Lands(batch, ddl) /\ odd' = odd
    /\ batch' = {}
    /\ outcome' = [outcome EXCEPT !.written = @ + Cardinality(batch)]
    /\ pc' = CASE pc = "send" -> "read" [] pc = "tail" -> "finish" [] pc = "reject" -> "reject"
    /\ UNCHANGED <<run, line, named, result>>

\* A rejected line with nothing left to send.
RejectEnds ==
    /\ pc = "reject" /\ batch = {}
    /\ Halt(line, "Alive") /\ pc' = "finish"
    /\ UNCHANGED <<run, line, batch, Server, named, result>>

\* After a failed batch: skip goes on, stop and commit end here.
AfterFailure(after) ==
    /\ named' = named \cup batch
    /\ batch' = {}
    /\ IF cfg.mode = "Skip"
       THEN pc' = (IF pc = "tail" THEN "finish" ELSE "read") /\ outcome' = outcome
       ELSE /\ pc' = "finish"
            /\ Halt(IF pc = "reject" THEN line ELSE First(batch), after)
    /\ UNCHANGED <<run, line, result>>

\* The server refuses the statement.  txn_after: PostgreSQL aborts the block; MySQL ends the
\* transaction on a deadlock, keeps it on most errors, and either on a lock wait timeout.
SendRefused ==
    /\ Sending
    /\ \/ /\ cfg.kind = "Postgres" /\ txn # "none"
          /\ txn' = "aborted" /\ pend' = {} /\ UNCHANGED broken /\ AfterFailure("Gone")
       \/ /\ cfg.kind = "Mysql" /\ txn = "open"
          /\ txn' = "none" /\ pend' = {} /\ UNCHANGED broken /\ AfterFailure("Gone")
       \/ /\ cfg.kind = "Mysql" /\ txn = "open"
          /\ txn' = "none" /\ pend' = {} /\ broken' = TRUE /\ AfterFailure("Doubtful")
       \/ /\ cfg.kind = "Postgres" => txn = "none"
          /\ UNCHANGED <<txn, pend, broken>> /\ AfterFailure("Alive")
    /\ UNCHANGED <<table, odd>>

\* The server's count disagrees with what was sent.
SendShort(b) ==
    /\ Sending /\ cfg.family = "rows" /\ txn # "aborted"
    /\ b \subseteq batch /\ b # batch
    /\ Lands(b, FALSE) /\ odd' = odd \cup batch
    /\ AfterFailure("Alive")

\* The connection fails, or a fault the driver marks transient: the import ends in every mode, and
\* closing the session ends the transaction.  The batch may have landed.
SendLost(acted) ==
    /\ Sending
    /\ acted => txn # "aborted"
    /\ table' = IF acted /\ txn = "none" THEN table \cup batch ELSE table
    /\ txn' = "none" /\ pend' = {} /\ odd' = odd \cup batch
    /\ named' = named \cup batch /\ batch' = {}
    /\ outcome' = [outcome EXCEPT !.lost = TRUE, !.failed = TRUE, !.rollback = FALSE,
                                  !.stopped = First(batch)]
    /\ pc' = "finish"
    /\ UNCHANGED <<run, line, broken, result>>

-----------------------------------------------------------------------------
(* finish and the report.                                                  *)

\* COMMIT unless the outcome asks for a rollback.
Commits == InTransaction /\ ~outcome.rollback

Closed(kept) ==
    /\ table' = IF kept THEN table \cup pend ELSE table
    /\ pend' = {} /\ txn' = "none"
    /\ pc' = "end"
    /\ UNCHANGED <<run, line, batch, outcome, named, odd, broken>>

\* The transaction is closed as the outcome says; COMMIT of an aborted block is a ROLLBACK.
Finish ==
    /\ pc = "finish" /\ ~outcome.lost
    /\ Closed(Commits /\ txn = "open")
    /\ result' = IF outcome.failed THEN "failed" ELSE "done"

\* COMMIT, ROLLBACK or the foreign-key switch fails: that error is the report.
FinishFails(acted) ==
    /\ pc = "finish" /\ ~outcome.lost
    /\ Closed(acted /\ Commits /\ txn = "open")
    /\ result' = "error"

\* Nothing is sent on a connection that was lost.
FinishLost == pc = "finish" /\ outcome.lost /\ Closed(FALSE) /\ result' = "lost"

\* An unexpected failure: ROLLBACK.
Abort == pc = "abort" /\ Closed(FALSE) /\ result' = "error"

Next ==
    \/ Prologue \/ PrologueFails \/ Stop
    \/ ReadRow \/ RejectRow \/ EndOfFile \/ ReaderFails
    \/ \E ddl \in BOOLEAN : SendOk(ddl)
    \/ RejectEnds \/ SendRefused
    \/ \E b \in SUBSET batch : SendShort(b)
    \/ \E acted \in BOOLEAN : SendLost(acted)
    \/ Finish \/ \E acted \in BOOLEAN : FinishFails(acted)
    \/ FinishLost \/ Abort

Spec == Init /\ [][Next]_vars

-----------------------------------------------------------------------------
(* Properties.                                                             *)

\* What the report says landed is what landed: nothing when a transaction was rolled back or lost,
\* and otherwise the counted rows, apart from the batches the report names as doubtful; and every
\* line read before the import stopped landed, or a message is about it (Outcome::halt,
\* connection_lost_message, the flush before a rejected row, the tail, a Stop).  A server that
\* commits or rolls back on its own (DDL, innodb_rollback_on_timeout) is outside this promise.
ImportTrue ==
    ~broken =>
        /\ result \in {"failed", "lost"} /\ InTransaction => table = {}
        /\ result = "done" \/ (result \in {"failed", "lost"} /\ ~InTransaction)
              => Cardinality(table \ odd) = outcome.written
        /\ result = "done" => 1 .. line \subseteq table \cup named

\* `stop` rolls back everything and fails: nothing lands (the module documentation of import.rs).
StopLandsNothing ==
    cfg.mode = "Stop" /\ result = "failed" /\ cfg.kind # "Trino" => table = {}
=============================================================================
