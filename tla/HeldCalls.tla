------------------------------ MODULE HeldCalls ------------------------------
(***************************************************************************)
(* One command's statements on one session, from the command to the        *)
(* server: the scripts of apply_changes (apply.rs), explain and preview     *)
(* (commands.rs), the statement retry (retry.rs) and the lease's rule for   *)
(* replacing a lost connection (host/lease.rs).  The network may lose a     *)
(* connection, or an answer, before or after the server ran the statement.  *)
(***************************************************************************)
EXTENDS Integers, Sequences

CONSTANTS
    Plans,    \* the commands of an instance, see PlanOK
    Retries   \* RETRIES: attempts after the first one

\* The statements a script is made of, as rerunnable tells them apart.
Statements == {"begin", "beginro", "read", "write", "analyze", "commit", "rollback"}

\* What each command sends: apply its changes, in a transaction of its own where it was asked for and
\* the driver has them; explain the driver's EXPLAIN, an ANALYZE inside the transaction the server
\* refuses writes in where the driver has one; preview its statement.
ScriptOK(p) ==
    LET n == Len(p.script)
    IN  \/ p.cmd = "apply" /\ \A i \in 1 .. n : p.script[i] = "write"
        \/ /\ p.cmd = "apply" /\ n > 1 /\ p.script[1] = "begin" /\ p.script[n] = "commit"
           /\ \A i \in 2 .. n - 1 : p.script[i] = "write"
        \/ p.cmd = "explain" /\ n = 1 /\ p.script[1] \in {"read", "analyze"}
        \/ /\ p.cmd = "explain" /\ n = 3 /\ p.script[1] = "beginro"
           /\ p.script[2] = "analyze" /\ p.script[3] = "rollback"
        \/ p.cmd = "preview" /\ n = 1 /\ p.script[1] \in {"read", "write"}

\* A command: what it sends in order, and the session `open` gave it.  A Trino
\* session has no connection to lose (persistent = FALSE) and no transactions.
PlanOK(p) ==
    /\ p.cmd \in {"apply", "explain", "preview"}
    /\ p.script \in Seq(Statements) /\ p.script # <<>>
    /\ {p.leased, p.reused, p.persistent, p.readOnly} \subseteq BOOLEAN
    /\ p.reused => p.leased
    /\ ScriptOK(p)

ASSUME PlansAssumption == \A p \in Plans : PlanOK(p)
ASSUME RetriesAssumption == Retries \in Nat

VARIABLES
    plan,      \* the command being run
    at,        \* the statement of plan.script it has come to
    undoing,   \* apply's rollback is the statement being run, not script[at]
    pc,        \* where the command, the retry loop or Held::call stands
    attempt,   \* the retry loop's attempt, from 0
    answer,    \* what the last call answered
    lease,     \* LeaseState: broken, reused, executed
    conn,      \* the server's side of the connection: up, ro, txn
    work,      \* changes of the open transaction, per statement
    table,     \* committed changes, per statement
    log,       \* the statements the server ran, in order (history)
    report     \* what the command told its caller

vars == <<plan, at, undoing, pc, attempt, answer, lease, conn, work, table, log, report>>
command == <<plan, at, undoing, report>>
server == <<conn, work, table, log>>

Indices == 1 .. Len(plan.script)
Nothing == [i \in Indices |-> 0]

\* The statement in hand.
Current == IF undoing THEN "rollback" ELSE plan.script[at]

InTransaction == plan.script[1] = "begin"

\* Mutant of Rerunnable: every statement.
RerunAny(s) == plan.leased

\* Mutant of Rerunnable: EXPLAIN ANALYZE of a read taken for a read.
AnalyzeIsRead(s) == plan.leased /\ s \in {"begin", "beginro", "read", "analyze"}

\* rerunnable: a read, or the exact text that opens a transaction; and only a
\* lease can reconnect.  The classifier calls EXPLAIN ANALYZE a write.
Rerunnable(s) == plan.leased /\ s \in {"begin", "beginro", "read"}

\* An answer is a cursor or an error.  "unsent": Connect, nothing went out;
\* "lostConnect": Connect, the connection closed while the statement ran;
\* "lostQuery": Query with no code; "busy": the server's own transient error;
\* "refused": the server said no; "notSent": the lease refused to send.
Errors == {"unsent", "lostConnect", "lostQuery", "busy", "refused", "notSent"}

\* EngineError::failure_kind
Transient(e) == e \in {"unsent", "lostConnect", "lostQuery", "busy"}

\* matches!(error, EngineError::Connect) /\ produced_no_page, of the attempt.
ConnectError(e) == e \in {"unsent", "lostConnect"}

\* connection_lost: no page and transient.
ConnectionLost(e) == e \in {"unsent", "lostConnect", "lostQuery"}

\* retry::again.  apply_changes calls the session itself and never retries.
Again(e) == plan.cmd # "apply" /\ attempt < Retries /\ Transient(e)

-----------------------------------------------------------------------------
(* The server.                                                             *)

\* The connection and the data after statement s ran.
Effect(s) ==
    LET Txn(t) == [conn EXCEPT !.txn = t]
    IN CASE s = "begin" -> [conn |-> Txn("rw"), work |-> work, table |-> table]
         [] s = "beginro" -> [conn |-> Txn("ro"), work |-> work, table |-> table]
         [] s = "write" /\ conn.txn = "rw" ->
              [conn |-> conn, work |-> [work EXCEPT ![at] = @ + 1], table |-> table]
         [] s = "write" /\ conn.txn # "rw" ->
              [conn |-> conn, work |-> work, table |-> [table EXCEPT ![at] = @ + 1]]
         [] s = "commit" -> [conn |-> Txn("none"), work |-> Nothing,
                             table |-> [i \in Indices |-> table[i] + work[i]]]
         [] s = "rollback" -> [conn |-> Txn("none"), work |-> Nothing, table |-> table]
         [] OTHER -> [conn |-> conn, work |-> work, table |-> table]

\* A read-only session or transaction refuses a write.
Allowed(s) == s = "write" => ~conn.ro /\ conn.txn # "ro"

\* The server runs the statement in hand; the connection is closed, or not, by
\* the time the client hears of it, and a closed one loses its transaction.
Ran(closed) ==
    LET e == Effect(Current)
    IN /\ Allowed(Current)
       /\ log' = Append(log, [at |-> IF undoing THEN 0 ELSE at, ro |-> conn.ro, txn |-> conn.txn])
       /\ conn' = IF closed THEN [e.conn EXCEPT !.up = FALSE, !.txn = "none"] ELSE e.conn
       /\ work' = IF closed THEN Nothing ELSE e.work
       /\ table' = e.table

\* The connection is gone; the server throws its open transaction away.
Lost ==
    /\ conn' = [conn EXCEPT !.up = FALSE, !.txn = "none"]
    /\ work' = Nothing
    /\ UNCHANGED <<table, log>>

\* An idle socket dies, or the server restarts.
ConnectionDies ==
    /\ plan.persistent /\ conn.up /\ pc # "end"
    /\ Lost
    /\ UNCHANGED <<command, pc, attempt, answer, lease>>

-----------------------------------------------------------------------------
(* Held::call and the retry around it.                                     *)

\* call, on a session known to be lost: only a rerunnable statement may
\* reconnect, the others are not sent at all.
CallBroken ==
    /\ pc = "call" /\ lease.broken
    /\ IF Rerunnable(Current)
         THEN pc' = "connect" /\ UNCHANGED answer
         ELSE pc' = "judge" /\ answer' = "notSent"
    /\ UNCHANGED <<command, attempt, lease, server>>

\* call, on a session believed to be good: the statement goes out.
CallSends ==
    /\ pc = "call" /\ ~lease.broken
    /\ pc' = "sent"
    /\ UNCHANGED <<command, attempt, answer, lease, server>>

\* Held::reconnect's end: the new session takes the lost one's place, the
\* server drops what the old connection had open, and the statement goes out.
Replaced(ro) ==
    /\ conn' = [up |-> TRUE, ro |-> ro, txn |-> "none"]
    /\ work' = Nothing
    /\ lease' = [broken |-> FALSE, reused |-> FALSE, executed |-> FALSE]
    /\ pc' = "sent"
    /\ UNCHANGED <<answer, table, log>>

\* Held::reconnect: `broken` is set by now; the pool opens a session, or fails
\* and the error is the call's.
Connect ==
    /\ pc = "connect"
    /\ \/ ~plan.readOnly /\ Replaced(FALSE)
       \/ plan.readOnly /\ pc' = "enforce" /\ UNCHANGED <<answer, lease, server>>
       \/ /\ pc' = "judge" /\ answer' \in {"unsent", "refused"}
          /\ UNCHANGED <<lease, server>>
    /\ UNCHANGED <<command, attempt>>

\* enforce_read_only on the new session.
Enforce ==
    /\ pc = "enforce"
    /\ \/ Replaced(TRUE)
       \/ /\ pc' = "judge" /\ answer' \in {"lostConnect", "lostQuery", "refused"}
          /\ UNCHANGED <<lease, server>>
    /\ UNCHANGED <<command, attempt>>

\* The first statement of a reused session is sent again on a new connection,
\* once, when the error is a Connect error and the statement is rerunnable.
\* `broken` is set before the reconnect is awaited.
FirstResend(e) ==
    lease.reused /\ ~lease.executed /\ Rerunnable(Current) /\ ConnectError(e)

\* call's ending: what the answer does to the lease.
Answered(a) ==
    /\ answer' = a
    /\ IF FirstResend(a)
         THEN pc' = "connect" /\ lease' = [lease EXCEPT !.broken = TRUE]
         ELSE /\ pc' = "judge"
              /\ lease' = [lease EXCEPT !.executed = TRUE,
                                        !.broken = @ \/ (plan.leased /\ ConnectionLost(a))]

\* The statement reached the server, ran, and a cursor came back.
Runs ==
    /\ pc = "sent" /\ conn.up
    /\ Ran(FALSE)
    /\ Answered("cursor")
    /\ UNCHANGED <<command, attempt>>

\* The server answered no, at once or (a cursor first) while it is read.
Refuses ==
    /\ pc = "sent" /\ conn.up
    /\ \E a \in {"refused", "cutoff"} \cup IF plan.persistent THEN {} ELSE {"busy"} :
         Answered(a)
    /\ UNCHANGED <<command, attempt, server>>

\* The socket was already known to be closed: nothing went out.
NeverSent ==
    /\ pc = "sent" /\ (plan.persistent => ~conn.up)
    /\ Answered("unsent")
    /\ UNCHANGED <<command, attempt, server>>

\* The answer was lost.  The statement ran, or it did not; a Connect error
\* closes a persistent connection for good, a Query error need not.
AnswerLost ==
    /\ pc = "sent" /\ conn.up
    /\ \/ /\ Answered("lostConnect")
          /\ Ran(plan.persistent) \/ IF plan.persistent THEN Lost ELSE UNCHANGED server
       \/ /\ Answered("lostQuery")
          /\ Ran(FALSE) \/ UNCHANGED server
    /\ UNCHANGED <<command, attempt>>

\* retry::execute asks again, or hands the error to the command.
Retry ==
    /\ pc = "judge" /\ answer \in Errors /\ Again(answer)
    /\ attempt' = attempt + 1
    /\ pc' = "call"
    /\ UNCHANGED <<command, answer, lease, server>>

-----------------------------------------------------------------------------
(* The commands.                                                           *)

\* The next statement of the script.
Issue ==
    /\ pc = "next" /\ at <= Len(plan.script)
    /\ pc' = "call" /\ attempt' = 0
    /\ UNCHANGED <<command, answer, lease, server>>

End(r) == pc' = "end" /\ report' = r

\* Mutant of Undo: the rollback is issued, and believed, without a transaction.
UndoAlways == undoing' = TRUE /\ pc' = "call" /\ UNCHANGED report

\* apply's rollback(): issued only inside the plan's own transaction.
Undo ==
    IF InTransaction
      THEN undoing' = TRUE /\ pc' = "call" /\ UNCHANGED report
      ELSE End("written") /\ UNCHANGED undoing

\* apply_changes looks at the stop flag before each change.
StopApply ==
    /\ pc = "next" /\ plan.cmd = "apply"
    /\ at <= Len(plan.script) /\ plan.script[at] = "write"
    /\ Undo
    /\ UNCHANGED <<plan, at, attempt, answer, lease, server>>

\* The other commands race every wait against the stop and drop the call.
StopOthers ==
    /\ pc \notin {"next", "end"} /\ plan.cmd # "apply"
    /\ End("stopped")
    /\ UNCHANGED <<plan, at, undoing, attempt, answer, lease, server>>

\* What became of the plan, once its rollback was accepted or not.
Disposition(rolledBack) == IF rolledBack THEN "pending" ELSE "written"

\* The statement was read to its end and the command goes on.  A change whose
\* affected-row count disagrees with the plan is undone like a failure.
StatementDone ==
    /\ pc = "judge" /\ answer = "cursor"
    /\ \/ /\ undoing
          /\ End(Disposition(TRUE)) /\ UNCHANGED <<at, undoing>>
       \/ /\ ~undoing
          /\ at' = at + 1
          /\ IF at = Len(plan.script) THEN End("done")
                                      ELSE pc' = "next" /\ UNCHANGED report
          /\ UNCHANGED undoing
       \/ /\ ~undoing /\ plan.cmd = "apply" /\ Current = "write"
          /\ Undo /\ UNCHANGED at
    /\ UNCHANGED <<plan, attempt, answer, lease, server>>

\* What a command does with a statement that failed for good.
StatementFails ==
    /\ IF undoing THEN End(Disposition(FALSE)) /\ UNCHANGED undoing
       ELSE IF plan.cmd = "apply"
         THEN CASE Current = "begin" -> End("error") /\ UNCHANGED undoing
                [] Current = "write" -> Undo
                [] OTHER -> End("written") /\ UNCHANGED undoing
       ELSE \* explain's rollback is best effort: the plan is already out.
            /\ End(IF Current = "rollback" THEN "done" ELSE "error")
            /\ UNCHANGED undoing
    /\ UNCHANGED <<plan, at, attempt, answer, lease>>

\* The call failed and is not tried again.
CallFails ==
    /\ pc = "judge" /\ answer \in Errors /\ ~Again(answer)
    /\ StatementFails
    /\ UNCHANGED server

\* The cursor failed while it was read, outside call: the lease does not hear
\* of it, and a statement that ran has still run.
CursorFails ==
    /\ pc = "judge" /\ answer \in {"cursor", "cutoff"}
    /\ StatementFails
    /\ UNCHANGED server

Init ==
    /\ plan \in Plans
    /\ at = 1 /\ undoing = FALSE /\ pc = "next" /\ attempt = 0 /\ answer = "cursor"
    /\ lease = [broken |-> FALSE, reused |-> plan.reused, executed |-> FALSE]
    /\ conn = [up |-> TRUE, ro |-> plan.readOnly, txn |-> "none"]
    /\ work = Nothing /\ table = Nothing
    /\ log = <<>> /\ report = "none"

Done == pc = "end" /\ UNCHANGED vars

Next ==
    \/ Issue \/ StopApply \/ StopOthers
    \/ CallBroken \/ CallSends \/ Connect \/ Enforce
    \/ Runs \/ Refuses \/ NeverSent \/ AnswerLost \/ ConnectionDies
    \/ Retry \/ StatementDone \/ CallFails \/ CursorFails
    \/ Done

Spec == Init /\ [][Next]_vars

-----------------------------------------------------------------------------
(* Properties.                                                             *)

\* Every variable keeps its shape, and the history names statements of the plan.
TypeOK ==
    /\ plan \in Plans
    /\ at \in 1 .. Len(plan.script) + 1 /\ undoing \in BOOLEAN
    /\ pc \in {"next", "call", "connect", "enforce", "sent", "judge", "end"}
    /\ attempt \in 0 .. Retries
    /\ answer \in Errors \cup {"cursor", "cutoff"}
    /\ lease \in [broken : BOOLEAN, reused : BOOLEAN, executed : BOOLEAN]
    /\ conn \in [up : BOOLEAN, ro : BOOLEAN, txn : {"none", "ro", "rw"}]
    /\ work \in [Indices -> Nat] /\ table \in [Indices -> Nat]
    /\ log \in Seq([at : 0 .. Len(plan.script), ro : BOOLEAN, txn : {"none", "ro", "rw"}])
    /\ report \in {"none", "done", "error", "pending", "written", "stopped"}
    /\ (report # "none") <=> (pc = "end")

Writes == {i \in Indices : plan.script[i] = "write"}

\* What a command reports about its changes is what the table holds: "done"
\* means each change is in exactly once, "pendingInSessionTransaction" means
\* none is, whichever connection or answer was lost on the way
\* (apply.rs Disposition, plan_failure).
ReportTrue ==
    /\ report = "done" => \A i \in Writes : table[i] = 1
    /\ report = "pending" => \A i \in Writes : table[i] = 0

\* No writing statement reaches the server twice, by the lease's reconnect or
\* through retry::execute (lease.rs, "A write is never sent again").
WriteOnce ==
    \A i \in Writes : \A j, k \in DOMAIN log :
        log[j].at = i /\ log[k].at = i => j = k

\* A script that opens a transaction runs its statements in it or not at all:
\* a change never lands outside apply's BEGIN, and an ANALYZE never runs
\* outside the read-only fence, also when the connection was replaced between
\* the two (apply.rs, commands.rs explain).  A read-only connection's command
\* runs nothing on a session the server was not told to keep read-only
\* (Held::reconnect).
InsideFence ==
    \A j \in DOMAIN log :
        /\ plan.readOnly => log[j].ro
        /\ log[j].at # 0 =>
             /\ plan.script[1] = "beginro" /\ plan.script[log[j].at] = "analyze" => log[j].txn = "ro"
             /\ InTransaction /\ log[j].at \in Writes => log[j].txn = "rw"

\* The reconnect rule sends a first statement again only when the server did
\* not run it (lease.rs, "Only a `Connect` failure proves nothing was sent").
ResendsUnsent ==
    [][pc = "sent" /\ pc' = "connect" => ~ \E j \in DOMAIN log' : log'[j].at = at]_vars
==============================================================================
