------------------------------ MODULE Transfer ------------------------------
(***************************************************************************)
(* Save to Table across connections (crates/qh-ffi/src/transfer/mod.rs and *)
(* plan.rs): the destination is prepared and probed, the source's pages    *)
(* are fetched and written row by row (a PostgreSQL COPY window inside one *)
(* transaction, MySQL INSERTs into a scratch table), the window closes on  *)
(* its own timer while a fetch is pending, the count is verified and the   *)
(* table takes its name.  Statements are refused, cut, or act without an   *)
(* answer; Stop is pressed at any point.                                   *)
(***************************************************************************)
EXTENDS Naturals, Sequences

CONSTANTS
    MaxRows,    \* bound: rows the source has
    MaxPage,    \* bound: rows of one fetch (TRANSFER_FETCH_ROWS)
    PerWrite    \* rows of one COPY window or one INSERT (copy_rows, per_insert)

VARIABLES
    job,       \* target engine, mode, the table before the run, the rows of the source
    pc,        \* where the run is
    cancel,    \* the Stop
    taken,     \* rows the source has handed to the driver
    page,      \* rows inside the pending fetch
    batch,     \* rows of the fetched batch not yet written
    ended,     \* the cursor answered "no more rows"
    rowsRead,  \* rows_read
    window,    \* rows of the open COPY window, or `pending` of the next INSERT
    acked,     \* rows the destination acknowledged
    stored,    \* rows of the table being built
    tab,       \* the destination's tables, as others see them
    view,      \* the same, inside the transaction
    dest,      \* existed, created, transaction (the program's), link and lost (the world's)
    report     \* the result and the warnings

vars == <<job, pc, cancel, taken, page, batch, ended, rowsRead, window, acked, stored,
          tab, view, dest, report>>

Pg == job.target = "Postgres"
\* WritePlan::build: only a PostgreSQL create writes straight into the table.
WriteInto == IF Pg /\ job.mode = "create" THEN "target" ELSE "scratch"
Names == {"target", "scratch", "backup"}

Init ==
    /\ job \in [target : {"Postgres", "Mysql"}, mode : {"create", "replace"},
                first : {"old", "none"}, rows : 0 .. MaxRows]
    /\ pc = "setup" /\ cancel = FALSE
    /\ taken = 0 /\ page = <<>> /\ batch = <<>> /\ ended = FALSE /\ rowsRead = 0
    /\ window = <<>> /\ acked = 0 /\ stored = <<>>
    /\ tab = [n \in Names |-> IF n = "target" THEN job.first ELSE "none"] /\ view = tab
    /\ dest = [existed |-> FALSE, created |-> FALSE, transaction |-> FALSE,
               link |-> TRUE, lost |-> FALSE]
    /\ report = [result |-> "none", warnings |-> {}]

TypeOK ==
    /\ pc \in {"setup", "source", "first", "begin", "create", "rows", "flush", "last", "verify",
               "swap", "rename", "commit", "drop_old", "abort", "end"}
    /\ cancel \in BOOLEAN /\ ended \in BOOLEAN
    /\ taken \in 0 .. MaxRows /\ rowsRead \in 0 .. MaxRows /\ acked \in 0 .. MaxRows
    /\ \A s \in {page, batch, window, stored} : s \in Seq(1 .. MaxRows)
    /\ tab \in [Names -> {"none", "old", "other", "new"}]
    /\ view \in [Names -> {"none", "old", "other", "new"}]
    /\ dest \in [existed : BOOLEAN, created : BOOLEAN, transaction : BOOLEAN,
                 link : BOOLEAN, lost : BOOLEAN]
    /\ report.result \in {"none", "done", "stopped", "failed"}
    /\ report.warnings \subseteq {"rollback", "leftover", "kept"}

Goto(p) == pc' = p
reading == <<taken, page, batch, ended, rowsRead>>
writing == <<window, acked>>
tables == <<stored, tab, view>>

-----------------------------------------------------------------------------
(* The destination's statements: finish_statement, execute_bound, copy_in. *)

\* Mutant of Visible: the statements run outside the transaction.
VisibleAtOnce == tab' = view'

\* PostgreSQL's DDL is seen by nobody else before COMMIT.
Visible == IF Pg /\ dest.transaction THEN tab' = tab ELSE tab' = view'

\* The server rolls the transaction back when PostgreSQL's connection ends; MySQL's
\* session opens another connection.
Cut ==
    /\ view' = tab
    /\ stored' = IF Pg THEN <<>> ELSE stored
    /\ tab' = tab /\ dest' = [dest EXCEPT !.link = ~Pg]

\* A statement that fails: refused, cut before it acted, or cut after it acted
\* (which only a statement outside the transaction, or COMMIT, survives).
Refused == UNCHANGED <<tables, dest>>
Errs == Refused \/ Cut
LostAnswer == dest' = [dest EXCEPT !.lost = TRUE, !.link = ~Pg]

\* A failure in the live range or the swap: the source is cancelled, then closed, and
\* the destination undone.
Fail == Goto("abort") /\ report' = [report EXCEPT !.result = "failed"]

-----------------------------------------------------------------------------
(* connect_setup, open_source, begin                                       *)

\* The session's settings and the probe; a create over an existing table is refused.
ConnectSetup ==
    /\ pc = "setup" /\ dest.link
    /\ dest' = [dest EXCEPT !.existed = tab["target"] # "none"]
    /\ IF dest'.existed /\ job.mode = "create" THEN Fail ELSE Goto("source") /\ report' = report
    /\ UNCHANGED <<job, cancel, reading, writing, tables>>

ConnectSetupFails ==
    /\ pc = "setup" /\ Errs /\ Fail /\ UNCHANGED <<job, cancel, reading, writing>>

\* enforce_read_only, the reading settings and the query.
OpenSource ==
    /\ pc = "source" /\ ~cancel /\ Goto("first")
    /\ UNCHANGED <<job, cancel, reading, writing, tables, dest, report>>

OpenSourceFails ==
    /\ pc = "source" /\ Fail
    /\ UNCHANGED <<job, cancel, reading, writing, tables, dest>>

\* A Stop before the query had a cursor.
StoppedEarly ==
    /\ pc = "source" /\ cancel /\ Goto("end")
    /\ report' = [report EXCEPT !.result = "stopped"]
    /\ UNCHANGED <<job, cancel, reading, writing, tables, dest>>

\* The plan is made and allowed; PostgreSQL opens its transaction.
Begin ==
    /\ pc = "begin"
    /\ Pg => dest.link
    /\ dest' = [dest EXCEPT !.transaction = Pg]
    /\ Goto("create")
    /\ UNCHANGED <<job, cancel, reading, writing, tables, report>>

\* No columns, a type that cannot be planned, a name or a Safe Mode that refuses, or BEGIN fails.
BeginFails ==
    /\ pc = "begin" /\ Errs /\ Fail /\ UNCHANGED <<job, cancel, reading, writing>>

\* `created` is marked before the statement is sent.
Create ==
    /\ pc = "create" /\ view[WriteInto] = "none" /\ dest.link
    /\ view' = [view EXCEPT ![WriteInto] = "new"] /\ Visible
    /\ dest' = [dest EXCEPT !.created = TRUE]
    /\ Goto("rows")
    /\ UNCHANGED <<job, cancel, reading, writing, stored, report>>

CreateFails ==
    /\ pc = "create"
    /\ \/ UNCHANGED tables /\ dest' = [dest EXCEPT !.created = TRUE]
       \/ Pg /\ view' = tab /\ UNCHANGED <<stored, tab>>
          /\ dest' = [dest EXCEPT !.created = TRUE, !.link = FALSE]
       \/ ~Pg /\ view' = [view EXCEPT ![WriteInto] = "new"] /\ tab' = view' /\ UNCHANGED stored
          /\ dest' = [dest EXCEPT !.created = TRUE]
    /\ Fail /\ UNCHANGED <<job, cancel, reading, writing>>

-----------------------------------------------------------------------------
(* live_range and fetch                                                    *)

Fetching == pc \in {"first", "rows"} /\ batch = <<>> /\ ~ended

\* A page reaches the driver while `next_batch` is still pending.
PageArrives(n) ==
    /\ Fetching /\ page = <<>> /\ taken + n <= job.rows
    /\ taken' = taken + n /\ page' = [i \in 1 .. n |-> taken + i]
    /\ UNCHANGED <<job, pc, cancel, batch, ended, rowsRead, writing, tables, dest, report>>

\* The fetch is ready: the batch, or "no more rows".  The first answer leads to the plan.
Fetched ==
    /\ Fetching /\ ~cancel
    /\ page # <<>> \/ taken = job.rows
    /\ batch' = page /\ page' = <<>> /\ ended' = (page = <<>>)
    /\ Goto(IF pc = "first" THEN "begin" ELSE "rows")
    /\ UNCHANGED <<job, cancel, taken, rowsRead, writing, tables, dest, report>>

SourceFails ==
    /\ Fetching /\ Fail
    /\ UNCHANGED <<job, cancel, reading, writing, tables, dest>>

\* Mutant of WindowTimer: the pending fetch is dropped with the timer and asked for again.
WindowTimerDrops ==
    /\ pc = "rows" /\ Fetching /\ Pg /\ window # <<>> /\ ~cancel
    /\ page' = <<>>
    /\ Goto("flush")
    /\ UNCHANGED <<job, cancel, taken, batch, ended, rowsRead, writing, tables, dest, report>>

\* The open window's time is up while the source is slow; the fetch survives it.
WindowTimer ==
    /\ pc = "rows" /\ Fetching /\ Pg /\ window # <<>> /\ ~cancel
    /\ Goto("flush")
    /\ UNCHANGED <<job, cancel, reading, writing, tables, dest, report>>

\* append_copy and append_insert: the row joins the window, which closes when it is full.
AppendRow ==
    /\ pc = "rows" /\ batch # <<>> /\ ~cancel
    /\ Pg /\ window = <<>> => dest.link
    /\ window' = Append(window, Head(batch)) /\ batch' = Tail(batch)
    /\ rowsRead' = rowsRead + 1
    /\ Goto(IF Len(window') >= PerWrite THEN "flush" ELSE "rows")
    /\ UNCHANGED <<job, cancel, taken, page, ended, acked, tables, dest, report>>

\* A value the destination cannot hold, a batch with a missing cell, COPY refused, an event
\* nobody takes.
AppendRowFails ==
    /\ pc = "rows" /\ batch # <<>> /\ Errs /\ Fail
    /\ UNCHANGED <<job, cancel, reading, writing>>

\* The cursor has no more: flush_all.
RowsEnd ==
    /\ pc = "rows" /\ ended /\ batch = <<>>
    /\ Goto(IF window = <<>> THEN "verify" ELSE "last")
    /\ UNCHANGED <<job, cancel, reading, writing, tables, dest, report>>

\* A Stop, seen by a fetch or between two rows.
Stopped ==
    /\ cancel /\ (Fetching \/ (pc = "rows" /\ batch # <<>>))
    /\ Goto("abort") /\ report' = [report EXCEPT !.result = "stopped"]
    /\ UNCHANGED <<job, cancel, reading, writing, tables, dest>>

\* close_window and flush_insert: the server's count is the rows sent.
Flush ==
    /\ pc \in {"flush", "last"} /\ dest.link
    /\ stored' = stored \o window /\ acked' = acked + Len(window) /\ window' = <<>>
    /\ Goto(IF pc = "flush" THEN "rows" ELSE "verify")
    /\ UNCHANGED <<job, cancel, reading, tab, view, dest, report>>

\* It is not, or the statement failed or was cut, acted or not.
FlushFails(n) ==
    /\ pc \in {"flush", "last"} /\ n < Len(window)
    /\ \/ stored' = stored \o SubSeq(window, 1, n) /\ UNCHANGED <<tab, view, dest>>
       \/ Cut
       \/ ~Pg /\ stored' = stored \o window /\ UNCHANGED <<tab, view>> /\ LostAnswer
    /\ window' = <<>> /\ acked' = acked
    /\ Fail /\ UNCHANGED <<job, cancel, reading>>

-----------------------------------------------------------------------------
(* conclude and swap                                                       *)

\* The count is verified before anything takes the table's name.
Verify ==
    /\ pc = "verify"
    /\ IF acked = rowsRead THEN Goto("swap") /\ report' = report ELSE Fail
    /\ UNCHANGED <<job, cancel, reading, writing, tables, dest>>

\* Nobody takes the events any more.
VerifyFails ==
    /\ pc = "verify" /\ Fail /\ UNCHANGED <<job, cancel, reading, writing, tables, dest>>

\* WritePlan::build: the swap's next step.
Double == ~Pg /\ job.mode = "replace" /\ dest.existed

\* What a statement of the swap makes of the tables.
Swapped(t) ==
    CASE pc = "swap" /\ Pg -> [t EXCEPT !["target"] = "none"]
      [] pc = "rename"     -> [t EXCEPT !["target"] = "new", !["scratch"] = "none"]
      [] Double            -> [target |-> "new", scratch |-> "none", backup |-> t["target"]]
      [] OTHER             -> [t EXCEPT !["target"] = "new", !["scratch"] = "none"]

\* RENAME TABLE and ALTER TABLE RENAME move what is there and overwrite nothing.
RenameFits ==
    IF Pg THEN pc = "rename" => view["target"] = "none" ELSE Double <=> view["target"] # "none"

Swap ==
    /\ pc \in {"swap", "rename"} /\ dest.link
    /\ RenameFits
    /\ IF pc = "swap" /\ Pg /\ job.mode = "create"
       THEN Goto("commit") /\ UNCHANGED <<tab, view>>
       ELSE /\ view' = Swapped(view) /\ Visible
            /\ Goto(CASE pc = "swap" /\ Pg -> "rename" [] pc = "rename" -> "commit"
                      [] Double -> "drop_old" [] OTHER -> "end")
    /\ dest' = [dest EXCEPT !.created = Pg]
    /\ report' = IF pc' = "end" THEN [report EXCEPT !.result = "done"] ELSE report
    /\ UNCHANGED <<job, cancel, reading, writing, stored>>

SwapFails ==
    /\ pc \in {"swap", "rename"}
    /\ \/ Errs
       \/ /\ ~Pg /\ RenameFits
          /\ view' = Swapped(view) /\ tab' = view' /\ UNCHANGED stored /\ LostAnswer
    /\ Fail /\ UNCHANGED <<job, cancel, reading, writing>>

Commit ==
    /\ pc = "commit" /\ dest.link
    /\ tab' = view /\ UNCHANGED <<view, stored>>
    /\ dest' = [dest EXCEPT !.transaction = FALSE, !.created = FALSE]
    /\ Goto("end") /\ report' = [report EXCEPT !.result = "done"]
    /\ UNCHANGED <<job, cancel, reading, writing>>

CommitFails ==
    /\ pc = "commit"
    /\ \/ Cut
       \/ tab' = view /\ UNCHANGED <<view, stored>> /\ LostAnswer
    /\ Fail /\ UNCHANGED <<job, cancel, reading, writing>>

\* The old table goes last, and is named when it could not be dropped.
DropOld ==
    /\ pc = "drop_old" /\ Goto("end")
    /\ \/ /\ view' = [view EXCEPT !["backup"] = "none"]
          /\ UNCHANGED dest /\ report' = [report EXCEPT !.result = "done"]
       \/ /\ UNCHANGED <<view, dest>>
          /\ report' = [result |-> "done", warnings |-> report.warnings \cup {"kept"}]
       \/ /\ view' = [view EXCEPT !["backup"] = "none"] /\ LostAnswer
          /\ report' = [result |-> "done", warnings |-> report.warnings \cup {"kept"}]
    /\ tab' = view'
    /\ UNCHANGED <<job, cancel, reading, writing, stored>>

-----------------------------------------------------------------------------
(* abort                                                                   *)

\* What abort has to drop: MySQL's scratch table.
Leaves == dest.created /\ ~Pg

\* ROLLBACK, or DROP TABLE IF EXISTS of the scratch; then the session closes.
Abort ==
    /\ pc = "abort" /\ Goto("end")
    /\ \/ /\ dest.transaction
          /\ view' = tab /\ tab' = tab /\ dest' = dest
          /\ report' \in {report, [report EXCEPT !.warnings = @ \cup {"rollback"}]}
       \/ /\ ~dest.transaction /\ Leaves
          /\ view' = [tab EXCEPT !["scratch"] = "none"] /\ tab' = view'
          /\ \/ UNCHANGED <<dest, report>>
             \/ LostAnswer /\ report' = [report EXCEPT !.warnings = @ \cup {"leftover"}]
       \/ /\ ~dest.transaction /\ Leaves
          /\ UNCHANGED <<tab, view, dest>>
          /\ report' = [report EXCEPT !.warnings = @ \cup {"leftover"}]
       \/ /\ ~dest.transaction /\ ~Leaves
          /\ UNCHANGED <<tab, view, dest, report>>
    /\ UNCHANGED <<job, cancel, reading, writing, stored>>

Stop ==
    /\ ~cancel /\ pc # "end" /\ cancel' = TRUE
    /\ UNCHANGED <<job, pc, reading, writing, tables, dest, report>>

\* Another client takes the free name, unless the transaction has it.
OtherCreates ==
    /\ pc # "end" /\ view["target"] = "none" /\ tab["target"] = "none"
    /\ tab' = [tab EXCEPT !["target"] = "other"]
    /\ view' = [view EXCEPT !["target"] = "other"]
    /\ UNCHANGED <<job, pc, cancel, reading, writing, stored, dest, report>>

Next ==
    \/ ConnectSetup \/ ConnectSetupFails \/ OpenSource \/ OpenSourceFails \/ StoppedEarly
    \/ Begin \/ BeginFails \/ Create \/ CreateFails
    \/ \E n \in 1 .. MaxPage : PageArrives(n)
    \/ Fetched \/ SourceFails \/ WindowTimer \/ AppendRow \/ AppendRowFails \/ RowsEnd \/ Stopped
    \/ Flush \/ \E n \in 0 .. PerWrite : FlushFails(n)
    \/ Verify \/ VerifyFails \/ Swap \/ SwapFails \/ Commit \/ CommitFails \/ DropOld
    \/ Abort \/ Stop \/ OtherCreates

Spec == Init /\ [][Next]_vars

-----------------------------------------------------------------------------
(* Properties.                                                             *)

Whole == [i \in 1 .. job.rows |-> i]

\* A run that reports the rows verified has put every row of the source, once and in order, under
\* the table's name, and names the old table it could not drop; one that ends otherwise has put
\* nothing there, a Stop whatever happened to the statements, a failure as long as no answer was
\* lost, and names a scratch table it leaves (fetch, flush_all, conclude, abort's warnings,
\* finish_stopped's "nothing was written").
TransferTrue ==
    /\ pc = "end" /\ report.result = "done" =>
        /\ tab["target"] = "new" /\ stored = Whole /\ tab["scratch"] = "none"
        /\ tab["backup"] # "none" => "kept" \in report.warnings
    /\ pc = "end" /\ report.result \in {"stopped", "failed"} =>
        /\ tab["target"] = "new" => report.result = "failed" /\ dest.lost
        /\ tab["scratch"] # "none" => "leftover" \in report.warnings

\* Somebody's table leaves its name only in a replace, and in the step that puts the whole of the
\* source's rows there: a table made after the probe is never overwritten by a create, and nobody
\* sees the name empty (WritePlan::build, swap).
TablesKept ==
    [][tab["target"] \in {"old", "other"} /\ tab'["target"] # tab["target"] =>
          job.mode = "replace" /\ tab'["target"] = "new" /\ stored' = Whole]_vars
=============================================================================
