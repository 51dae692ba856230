----------------------------- MODULE TableSwap -----------------------------
(***************************************************************************)
(* to_table in its replace mode (crates/qh-ffi/src/table_swap.rs): the     *)
(* build beside the old table, the probe, the swap of each driver, what is *)
(* undone after a failure, and what the run says became of the table.      *)
(* Every statement may be refused, may be cut off before the server acted, *)
(* and may act without its answer arriving; the user may press Stop and    *)
(* the program may die at any point.                                       *)
(***************************************************************************)
EXTENDS Naturals, Sequences

CONSTANT Drivers     \* the drivers to replace a table on

ASSUME SwapAssumption == Drivers \subseteq {"Postgres", "Mysql", "Trino"}

VARIABLES
    kind,      \* the driver
    first,     \* the target table before the run: "old" or "none"
    tab,       \* the server's tables: target, scratch and backup
    view,      \* the same, inside the open PostgreSQL transaction
    link,      \* the session still has a connection
    late,      \* the server is still running a build nobody waits for
    stop,      \* the user pressed Stop
    pc,        \* where replace_table is
    index,     \* the swap's current statement
    existed,   \* what the probe found
    reusable,  \* Built::Stopped's word on the connection
    said,      \* the warnings
    lost       \* some statement acted without its answer arriving

server == <<tab, view, link, late, lost>>
vars == <<kind, first, server, stop, pc, index, existed, reusable, said>>

Names == {"target", "scratch", "backup"}

Init ==
    /\ kind \in Drivers
    /\ first \in {"old", "none"}
    /\ tab = [n \in Names |-> IF n = "target" THEN first ELSE "none"]
    /\ view = tab
    /\ link = TRUE /\ late = FALSE /\ lost = FALSE /\ stop = FALSE
    /\ pc = "build" /\ index = 1 /\ existed = FALSE /\ reusable = TRUE /\ said = {}

TypeOK ==
    /\ kind \in {"Postgres", "Mysql", "Trino"} /\ first \in {"old", "none"}
    /\ tab \in [Names -> {"none", "old", "new"}] /\ view \in [Names -> {"none", "old", "new"}]
    /\ link \in BOOLEAN /\ late \in BOOLEAN /\ lost \in BOOLEAN /\ stop \in BOOLEAN
    /\ pc \in {"build", "probe", "swap", "undo", "discard", "drop_old", "end", "crashed"}
    /\ index \in 1 .. 5 /\ existed \in BOOLEAN /\ reusable \in BOOLEAN
    /\ said \subseteq {"untouched", "replaced", "aside", "leftover", "kept"}

-----------------------------------------------------------------------------
(* Replacement::plan: the statements, as what they do to the tables.       *)

\* Mutant of Steps: the old table is dropped to make room for the rename.
StepsDropFirst(k, ex) ==
    CASE k = "Postgres" -> <<"begin", "drop_target", "rename", "commit">>
      [] k = "Mysql"    -> IF ex THEN <<"drop_target", "rename">> ELSE <<"rename">>
      [] k = "Trino"    -> IF ex THEN <<"aside", "rename">> ELSE <<"rename">>

\* install and swap
Steps(k, ex) ==
    CASE k = "Postgres" -> <<"begin", "drop_target", "rename", "commit">>
      [] k = "Mysql"    -> IF ex THEN <<"swap">> ELSE <<"rename">>
      [] k = "Trino"    -> IF ex THEN <<"aside", "rename">> ELSE <<"rename">>

Move(t, a, b) == [t EXCEPT ![b] = t[a], ![a] = "none"]

\* Neither CREATE nor RENAME overwrites; DROP IF EXISTS never fails on the name.
Possible(s, t) ==
    CASE s = "build"    -> t["scratch"] = "none"
      [] s = "rename"   -> t["scratch"] # "none" /\ t["target"] = "none"
      [] s = "aside"    -> t["target"] # "none" /\ t["backup"] = "none"
      [] s = "swap"     -> t["target"] # "none" /\ t["backup"] = "none" /\ t["scratch"] # "none"
      [] s = "undo"     -> t["backup"] # "none" /\ t["target"] = "none"
      [] s = "drop_old" -> t["backup"] # "none"
      [] OTHER          -> TRUE

Done(s, t) ==
    CASE s = "build"        -> [t EXCEPT !["scratch"] = "new"]
      [] s = "rename"       -> Move(t, "scratch", "target")
      [] s = "aside"        -> Move(t, "target", "backup")
      [] s = "swap"         -> Move(Move(t, "target", "backup"), "scratch", "target")
      [] s = "undo"         -> Move(t, "backup", "target")
      [] s = "drop_target"  -> [t EXCEPT !["target"] = "none"]
      [] s = "drop_scratch" -> [t EXCEPT !["scratch"] = "none"]
      [] s = "drop_old"     -> [t EXCEPT !["backup"] = "none"]
      [] OTHER              -> t

\* PostgreSQL's DDL is transactional: the three statements before COMMIT are
\* seen by nobody else.
InTransaction == kind = "Postgres" /\ pc = "swap" /\ index \in 2 .. 4

Acts(s) ==
    /\ Possible(s, view)
    /\ view' = Done(s, view)
    /\ tab' = IF InTransaction /\ s # "commit" THEN tab ELSE view'

Unacted == UNCHANGED <<tab, view>>
RolledBack == tab' = tab /\ view' = tab

\* finish_statement: answered, refused, cut before it acted, or lost after it
\* acted.  A cut connection is PostgreSQL's end; MySQL's session opens another
\* and Trino has none to lose.
Answered(s) == link /\ Acts(s) /\ UNCHANGED <<link, late, lost>>

Errs(s) ==
    \/ Unacted /\ UNCHANGED <<link, late, lost>>
    \/ link /\ RolledBack /\ link' = (kind # "Postgres") /\ UNCHANGED <<late, lost>>
    \/ /\ link /\ Acts(s) /\ tab' = view'
       /\ link' = (kind # "Postgres") /\ lost' = TRUE /\ late' = late

-----------------------------------------------------------------------------
(* replace_table                                                           *)

Goto(p) == pc' = p
Say(words) == said' = said \cup words

\* The build is done.
BuildDone ==
    /\ pc = "build" /\ Answered("build")
    /\ pc' = IF stop THEN "discard" ELSE "probe"
    /\ UNCHANGED <<kind, first, stop, index, existed, reusable, said>>

BuildFails ==
    /\ pc = "build" /\ Errs("build") /\ Goto("discard")
    /\ UNCHANGED <<kind, first, stop, index, existed, reusable, said>>

\* run_stoppable gives way to a Stop.  The cancel reached the build or came too
\* late for it; when the connection did not come back the build may still end,
\* and a cancel nobody heard leaves it running behind a call that was dropped.
BuildStopped(r) ==
    /\ pc = "build" /\ stop
    /\ reusable' = r
    /\ \/ Unacted /\ late' \in BOOLEAN /\ lost' = (late' /\ r)
       \/ link /\ Acts("build") /\ UNCHANGED <<late, lost>>
    /\ link' = link
    /\ Goto("discard")
    /\ UNCHANGED <<kind, first, stop, index, existed, said>>

\* A build nobody waits for ends on the server.
LateBuild ==
    /\ late /\ late' = FALSE
    /\ \/ Possible("build", tab) /\ tab' = Done("build", tab) /\ view' = tab'
       \/ Unacted
    /\ UNCHANGED <<kind, first, link, lost, stop, pc, index, existed, reusable, said>>

\* table_exists: a Stop that arrived during the build comes first.
Probe ==
    /\ pc = "probe" /\ link
    /\ existed' = (tab["target"] # "none")
    /\ Say(IF existed' THEN {"replaced"} ELSE {})
    /\ Goto("swap") /\ UNCHANGED <<kind, first, server, stop, index, reusable>>

ProbeFails ==
    /\ pc = "probe" /\ Errs("probe") /\ Goto("discard")
    /\ UNCHANGED <<kind, first, stop, index, existed, reusable, said>>

\* One statement of the swap; after the last, the old table is dropped.
Swap ==
    LET steps == Steps(kind, existed)
    IN  /\ pc = "swap" /\ index <= Len(steps)
        /\ Answered(steps[index])
        /\ index' = index + 1
        /\ pc' = IF index < Len(steps) THEN "swap"
                 ELSE IF existed /\ kind # "Postgres" THEN "drop_old" ELSE "end"
        /\ UNCHANGED <<kind, first, stop, existed, reusable, said>>

\* Mutant of SwapFails: a failed second rename is taken for one that changed nothing.
SwapFailsNoUndo ==
    LET steps == Steps(kind, existed)
    IN  /\ pc = "swap" /\ index <= Len(steps)
        /\ Errs(steps[index])
        /\ Goto("discard")
        /\ said' = said \ {"replaced"}
        /\ UNCHANGED <<kind, first, stop, index, existed, reusable>>

\* A statement of the swap failed: only Trino's second rename has something to undo.
SwapFails ==
    LET steps == Steps(kind, existed)
    IN  /\ pc = "swap" /\ index <= Len(steps)
        /\ Errs(steps[index])
        /\ IF kind = "Trino" /\ index > 1
           THEN Goto("undo") /\ said' = said
           ELSE Goto("discard") /\ said' = said \ {"replaced"}
        /\ UNCHANGED <<kind, first, stop, index, existed, reusable>>

\* The old table is renamed back, and the notice taken back with it.
Undo ==
    /\ pc = "undo" /\ Answered("undo") /\ Goto("discard")
    /\ said' = said \ {"replaced"}
    /\ UNCHANGED <<kind, first, stop, index, existed, reusable>>

UndoFails ==
    /\ pc = "undo" /\ Errs("undo") /\ Goto("end") /\ Say({"aside"})
    /\ UNCHANGED <<kind, first, stop, index, existed, reusable>>

\* ROLLBACK (its answer is ignored), then discard_scratch, then the last word.
\* With the connection not released nothing is sent.
Discard ==
    /\ pc = "discard" /\ reusable /\ link
    /\ view' = Done("drop_scratch", tab) /\ tab' = view' /\ UNCHANGED <<link, late, lost>>
    /\ Say({"untouched"}) /\ Goto("end")
    /\ UNCHANGED <<kind, first, stop, index, existed, reusable>>

DiscardFails ==
    /\ pc = "discard"
    /\ \/ RolledBack /\ UNCHANGED <<link, late, lost>>
       \/ /\ reusable /\ link
          /\ view' = Done("drop_scratch", tab) /\ tab' = view' /\ UNCHANGED late
          /\ link' = (kind # "Postgres") /\ lost' = TRUE
    /\ Say({"untouched", "leftover"}) /\ Goto("end")
    /\ UNCHANGED <<kind, first, stop, index, existed, reusable>>

DropOld ==
    /\ pc = "drop_old" /\ Answered("drop_old") /\ Goto("end")
    /\ UNCHANGED <<kind, first, stop, index, existed, reusable, said>>

DropOldFails ==
    /\ pc = "drop_old" /\ Errs("drop_old") /\ Goto("end") /\ Say({"kept"})
    /\ UNCHANGED <<kind, first, stop, index, existed, reusable>>

Stop ==
    /\ ~stop /\ pc # "end" /\ stop' = TRUE
    /\ UNCHANGED <<kind, first, server, pc, index, existed, reusable, said>>

Crash ==
    /\ pc \notin {"end", "crashed"} /\ Goto("crashed")
    /\ RolledBack /\ link' = FALSE /\ UNCHANGED <<late, lost>>
    /\ UNCHANGED <<kind, first, stop, index, existed, reusable, said>>

Next ==
    \/ BuildDone \/ BuildFails \/ \E r \in BOOLEAN : BuildStopped(r)
    \/ LateBuild \/ Probe \/ ProbeFails
    \/ Swap \/ SwapFails \/ Undo \/ UndoFails
    \/ Discard \/ DiscardFails \/ DropOld \/ DropOldFails
    \/ Stop \/ Crash

Spec == Init /\ [][Next]_vars

-----------------------------------------------------------------------------
(* Properties.                                                             *)

\* Where the user's rows and the run's rows are, for the promise of SafeReplace.
OldAt ==
    IF first = "none" THEN "absent"
    ELSE IF tab["target"] = "old" THEN "target"
    ELSE IF tab["backup"] = "old" THEN "backup" ELSE "gone"
NewAt ==
    IF tab["target"] = "new" THEN "target"
    ELSE IF tab["scratch"] = "new" THEN "scratch" ELSE "none"

Promise == INSTANCE SafeReplace WITH old <- OldAt, new <- NewAt

\* Whatever fails, is lost, is stopped or dies, a replace gives the user's rows up
\* only by or after putting the new ones in place (replace_table, Replacement::plan).
Replaces == Promise!Spec

\* What a finished run says became of the table is so, and a table it leaves
\* behind is named (the warnings of replace_table), when no answer is lost.
TrueWord ==
    pc = "end" /\ ~lost =>
        /\ "untouched" \in said => tab["target"] = first
        /\ "replaced" \in said /\ "aside" \notin said => tab["target"] = "new"
        /\ "aside" \in said => tab["backup"] = "old" /\ tab["scratch"] = "new"
        /\ tab["scratch"] # "none" => said \cap {"leftover", "aside"} # {}
        /\ tab["backup"] # "none" <=> said \cap {"kept", "aside"} # {}
=============================================================================
