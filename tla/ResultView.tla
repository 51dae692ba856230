----------------------------- MODULE ResultView -----------------------------
(***************************************************************************)
(* A view over a result that is still arriving: set_view, push, finish and *)
(* the expansion tasks of crates/qh-result-store (store.rs, view.rs).      *)
(*                                                                         *)
(* Every chunk holds one row and the filter of every view either matches   *)
(* it or not.  Views are the filter and search views: a sort is refused    *)
(* while rows arrive, and an identity view has no rows of its own.  The    *)
(* app asks for views of one store one at a time (Swift serialises         *)
(* set_view); the writer and the view pool run beside that.  Release is    *)
(* modelled in ResultStore.                                                *)
(***************************************************************************)
EXTENDS Integers, Sequences, FiniteSets

CONSTANTS
    MaxChunks,  \* bound: chunks the writer publishes
    MaxViews,   \* bound: calls of set_view
    Pool,       \* tasks of the view pool
    Finisher,   \* the expansion that finish runs itself
    EmptyOnly   \* views are installed before the first chunk only

ASSUME ViewAssumption ==
    /\ MaxChunks \in Nat /\ MaxViews \in Nat
    /\ Finisher \notin Pool
    /\ EmptyOnly \in BOOLEAN

VARIABLES
    matching,  \* the chunks whose row passes the filter
    count,     \* chunks in StoreShared.chunks
    finished,  \* the phase is a finished one
    current,   \* StoreShared.view: the id of the installed view, 0 for none
    seq,       \* StoreShared.view_seq
    view,      \* each view that was built
    writer,    \* the fetch loop
    setter,    \* the call of set_view
    task       \* who is inside expand_view, and where

vars == <<matching, count, finished, current, seq, view, writer, setter, task>>

Expanders == Pool \cup {Finisher}
ViewIds == 1..MaxViews

NoView == [rows |-> <<>>, scanned |-> 0, expandable |-> FALSE, expanding |-> FALSE,
           cancelled |-> FALSE]

NoTask == [pc |-> "off", view |-> 0, from |-> 0, upto |-> 0]

NoSetter == [pc |-> "idle", streaming |-> FALSE, upto |-> 0]

\* The rows of one scan of the chunks a+1 to b: scan_chunk over a range.  A view lists the scans in
\* the order they were appended; within a scan the rows are in chunk order.
Matches(a, b) == matching \cap ((a + 1)..b)

Init ==
    /\ matching \in SUBSET (1..MaxChunks)
    /\ count = 0 /\ finished = FALSE /\ current = 0 /\ seq = 0
    /\ view = [v \in ViewIds |-> NoView]
    /\ writer = "idle"
    /\ setter = NoSetter
    /\ task = [x \in Expanders |-> NoTask]

(***************************************************************************)
(* Expansion                                                               *)
(***************************************************************************)

\* maybe_expand_view has a task to schedule: the current view owes rows, and no task holds it.
Owes == /\ current # 0
        /\ view[current].expandable /\ ~view[current].cancelled
        /\ view[current].scanned < count

\* The writer's and the caller's hook.  begin_expanding is a swap.
MaybeExpand ==
    IF Owes /\ ~view[current].expanding
    THEN \E x \in Pool :
           /\ task[x].pc = "off"
           /\ task' = [task EXCEPT ![x] = [NoTask EXCEPT !.pc = "snap", !.view = current]]
           /\ view' = [view EXCEPT ![current].expanding = TRUE]
    ELSE UNCHANGED <<task, view>>

Leave(x) == IF x = Finisher THEN NoTask ELSE [task[x] EXCEPT !.pc = "end"]

\* expand_view: the chunk index and the watermark are read, the chunks loaded.  An earlier
\* cancel is noticed after that.
Snapshot(x) ==
    LET v == task[x].view IN
    /\ task[x].pc = "snap"
    /\ task' = [task EXCEPT ![x] = IF view[v].scanned >= count THEN Leave(x)
                                   ELSE [@ EXCEPT !.pc = "scan", !.from = view[v].scanned,
                                                  !.upto = count]]
    /\ UNCHANGED <<matching, count, finished, current, seq, view, writer, setter>>

\* A chunk that cannot be loaded cancels the view.
LoadFails(x) ==
    /\ task[x].pc = "scan"
    /\ view' = [view EXCEPT ![task[x].view].cancelled = TRUE]
    /\ task' = [task EXCEPT ![x] = Leave(x)]
    /\ UNCHANGED <<matching, count, finished, current, seq, writer, setter>>

\* append_rows ...
AppendRows(x) ==
    LET v == task[x].view IN
    /\ task[x].pc = "scan"
    /\ IF view[v].cancelled
       THEN /\ task' = [task EXCEPT ![x] = Leave(x)]
            /\ UNCHANGED view
       ELSE /\ view' = [view EXCEPT ![v].rows = Append(@, Matches(task[x].from, task[x].upto))]
            /\ task' = [task EXCEPT ![x].pc = "mark"]
    /\ UNCHANGED <<matching, count, finished, current, seq, writer, setter>>

\* ... and then the watermark.
SetScanned(x) ==
    /\ task[x].pc = "mark"
    /\ view' = [view EXCEPT ![task[x].view].scanned = task[x].upto]
    /\ task' = [task EXCEPT ![x] = Leave(x)]
    /\ UNCHANGED <<matching, count, finished, current, seq, writer, setter>>

\* The end of a pool task: end_expanding ...
EndExpanding(x) ==
    /\ task[x].pc = "end"
    /\ view' = [view EXCEPT ![task[x].view].expanding = FALSE]
    /\ task' = [task EXCEPT ![x].pc = "recheck"]
    /\ UNCHANGED <<matching, count, finished, current, seq, writer, setter>>

\* ... and another look, for the chunks that arrived meanwhile.
Recheck(x) ==
    /\ task[x].pc = "recheck"
    /\ IF view[task[x].view].scanned < count /\ Owes /\ ~view[current].expanding
       THEN /\ task' = [task EXCEPT ![x] = [NoTask EXCEPT !.pc = "snap", !.view = current]]
            /\ view' = [view EXCEPT ![current].expanding = TRUE]
       ELSE /\ task' = [task EXCEPT ![x] = NoTask]
            /\ UNCHANGED view
    /\ UNCHANGED <<matching, count, finished, current, seq, writer, setter>>

\* Mutant: the task looks once more before it gives up the right to expand.
EndLast(x) ==
    \/ /\ task[x].pc = "end"
       /\ task' = [task EXCEPT ![x] = IF view[@.view].scanned < count /\ ~view[@.view].cancelled
                                      THEN [@ EXCEPT !.pc = "snap"] ELSE [@ EXCEPT !.pc = "recheck"]]
       /\ UNCHANGED <<matching, count, finished, current, seq, view, writer, setter>>
    \/ /\ task[x].pc = "recheck"
       /\ view' = [view EXCEPT ![task[x].view].expanding = FALSE]
       /\ task' = [task EXCEPT ![x] = NoTask]
       /\ UNCHANGED <<matching, count, finished, current, seq, writer, setter>>

EndTask(x) == EndExpanding(x) \/ Recheck(x)

(***************************************************************************)
(* The writer                                                              *)
(***************************************************************************)

\* push: the chunk is published ...
Push ==
    /\ writer = "idle" /\ ~finished /\ count < MaxChunks
    /\ EmptyOnly => setter.pc = "idle"
    /\ count' = count + 1
    /\ writer' = "hook"
    /\ UNCHANGED <<matching, finished, current, seq, view, setter, task>>

\* ... and the view is told.
PushHook ==
    /\ writer = "hook"
    /\ MaybeExpand
    /\ writer' = "idle"
    /\ UNCHANGED <<matching, count, finished, current, seq, setter>>

\* finish: the phase ...
Finish ==
    /\ writer = "idle" /\ ~finished
    /\ finished' = TRUE
    /\ writer' = "final"
    /\ UNCHANGED <<matching, count, current, seq, view, setter, task>>

\* ... and expand_view_now, which does not ask for the right to expand.
FinishExpand ==
    /\ writer = "final"
    /\ writer' = "done"
    /\ task' = IF current # 0 /\ view[current].expandable /\ ~view[current].cancelled
               THEN [task EXCEPT ![Finisher] = [NoTask EXCEPT !.pc = "snap", !.view = current]]
               ELSE task
    /\ UNCHANGED <<matching, count, finished, current, seq, view, setter>>

(***************************************************************************)
(* set_view                                                                *)
(***************************************************************************)

\* The id is taken, and build_view asks whether rows still arrive ...
SetView ==
    /\ setter.pc = "idle" /\ seq < MaxViews
    /\ EmptyOnly => count = 0
    /\ seq' = seq + 1
    /\ setter' = [setter EXCEPT !.pc = "compute", !.streaming = ~finished]
    /\ UNCHANGED <<matching, count, finished, current, view, writer, task>>

\* ... compute_view takes the chunk index,
Compute ==
    /\ setter.pc = "compute"
    /\ setter' = [setter EXCEPT !.pc = "install", !.upto = count]
    /\ UNCHANGED <<matching, count, finished, current, seq, view, writer, task>>

\* Mutant: a view never grows.
BuiltFixed == [NoView EXCEPT !.rows = <<Matches(0, setter.upto)>>]

\* View::new.  The watermark of a new view is zero.
Built == [NoView EXCEPT !.rows = <<Matches(0, setter.upto)>>, !.expandable = setter.streaming]

\* The view that is replaced is cancelled.
Superseded(v) == [v EXCEPT !.cancelled = TRUE]

\* the view takes the place of the old one,
Install ==
    /\ setter.pc = "install"
    /\ view' = [v \in ViewIds |-> IF v = seq THEN Built
                                  ELSE IF v = current THEN Superseded(view[v]) ELSE view[v]]
    /\ current' = seq
    /\ setter' = [NoSetter EXCEPT !.pc = "hook"]
    /\ UNCHANGED <<matching, count, finished, seq, writer, task>>

\* and the rows that arrived during the build are looked for.
SetViewHook ==
    /\ setter.pc = "hook"
    /\ MaybeExpand
    /\ setter' = NoSetter
    /\ UNCHANGED <<matching, count, finished, current, seq, writer>>

Expand(x) == Snapshot(x) \/ LoadFails(x) \/ AppendRows(x) \/ SetScanned(x) \/ EndTask(x)

WriterStep == Push \/ PushHook \/ Finish \/ FinishExpand
SetterStep == SetView \/ Compute \/ Install \/ SetViewHook

Next == WriterStep \/ SetterStep \/ \E x \in Expanders : Expand(x)

Spec == Init /\ [][Next]_vars

\* Threads that have something to run are scheduled.  Nothing makes the app ask for a view or the
\* run produce rows.
Fairness ==
    /\ WF_vars(PushHook) /\ WF_vars(FinishExpand)
    /\ WF_vars(Compute) /\ WF_vars(Install) /\ WF_vars(SetViewHook)
    /\ \A x \in Expanders : WF_vars(Expand(x))

FairSpec == Spec /\ Fairness

(***************************************************************************)
(* Properties                                                              *)
(***************************************************************************)

View == [rows : Seq(SUBSET (1..MaxChunks)), scanned : 0..MaxChunks,
         expandable : BOOLEAN, expanding : BOOLEAN, cancelled : BOOLEAN]

Task == [pc : {"off", "snap", "scan", "mark", "end", "recheck"}, view : 0..MaxViews,
         from : 0..MaxChunks, upto : 0..MaxChunks]

Setter == [pc : {"idle", "compute", "install", "hook"}, streaming : BOOLEAN, upto : 0..MaxChunks]

\* Every variable holds a value of its kind.
TypeOK ==
    /\ matching \subseteq 1..MaxChunks
    /\ count \in 0..MaxChunks
    /\ finished \in BOOLEAN
    /\ current \in 0..MaxViews /\ seq \in 0..MaxViews
    /\ view \in [ViewIds -> View]
    /\ writer \in {"idle", "hook", "final", "done"}
    /\ setter \in Setter
    /\ task \in [Expanders -> Task]

AtRest ==
    /\ writer \in {"idle", "done"}
    /\ setter.pc = "idle"
    /\ \A x \in Expanders : task[x].pc = "off"

Shows(v, r) == \E i \in DOMAIN view[v].rows : r \in view[v].rows[i]

\* When nothing is under way the current view shows every matching row that was published: no
\* chunk falls between the build of a view, its installation, the writer's hook and the end of an
\* expansion (store.rs set_view "Rows may have arrived while the view was building").
NothingMissed ==
    AtRest /\ current # 0 /\ ~view[current].cancelled =>
        \A r \in matching \cap 1..count : Shows(current, r)

\* A row that is published stays missing from no current view for ever: the expansion that brings
\* it comes, or the view is replaced or cancelled.
CatchesUp ==
    \A v \in ViewIds, r \in 1..MaxChunks :
        (r \in matching /\ r <= count /\ current = v)
            ~> (current # v \/ view[v].cancelled \/ Shows(v, r))

\* Each row of an earlier scan comes before each row of a later one.
Ascending(scans) ==
    \A i, j \in DOMAIN scans : i < j => \A r \in scans[i], q \in scans[j] : r < q

\* A filter view shows each matching row once and in source order (store.rs expand_view "Scan
\* chunks past the view's watermark"; tests/view.rs a_filter_view_is_allowed_while_streaming).
RowsOnce == \A v \in ViewIds : Ascending(view[v].rows)

\* Only the next view cancels a view (view.rs View::cancel; release is not modelled here).
CancelledBySuccessor == current # 0 => ~view[current].cancelled
=============================================================================
