----------------------------- MODULE MCCommands -----------------------------
(***************************************************************************)
(* A command's script on its session (HeldCalls), the text of it as Safe   *)
(* Mode and the splitter read it (SqlGuard, SqlScript), the editor it is   *)
(* typed into (Editor), the files an export makes (Export), and the        *)
(* analytics helper, each on its own bounds: `part` says which of them     *)
(* this behaviour is about, and the others stay at one of their initial    *)
(* states.                                                                 *)
(***************************************************************************)
EXTENDS MCHeld, TLC

CONSTANTS
    Exports,          \* the exports of one name into one directory
    ExportRows,       \* bound: rows of their query
    ExportLimits,     \* rows per part they may be asked for
    ExportTogether    \* which kinds of them may overlap

ASSUME ExportAssumption ==
    /\ ExportRows \in Nat /\ ExportLimits \subseteq Nat
    /\ Exports \cap {"nobody", "user", "several", "final", "plain"} = {}

VARIABLES
    part,
    exJob, exFs, exEx,
    sgDialect, sgRd, sgLook, sgVerdict, sgLeft, sgEffect,
    scTodo, scSp,
    anInbox, anOut, anAsked, anGot, anOpen, anPending, anTask, anServing,
    edLimits, edText, edRevision, edLog, edMirror, edSeen, edStmts, edDirty, edInactive, edTreeBytes,
    edScreen, edPacket, edTold, edPassed, edOvertaken

exVars == <<exJob, exFs, exEx>>
sqlVars == <<sgDialect, sgRd, sgLook, sgVerdict, sgLeft, sgEffect, scTodo, scSp>>
anVars == <<anInbox, anOut, anAsked, anGot, anOpen, anPending, anTask, anServing>>
edVars == <<edLimits, edText, edRevision, edLog, edMirror, edSeen, edStmts, edDirty, edInactive,
            edTreeBytes, edScreen, edPacket, edTold, edPassed, edOvertaken>>

\* Documents: two with several statements, one over the limit of a statement, one with a letter of
\* two units, and one at the limit of a text.
Doc(text, giant, ceiling, len, edits) ==
    [text |-> text, giant |-> giant, ceiling |-> ceiling, len |-> len, edits |-> edits]

Docs ==
    {Doc(<<"k", "k", ";">>, 9, 9, 3, 2), Doc(<<"q", ";", "q", "k">>, 9, 9, 5, 1),
     Doc(<<"q", "k", "q", "k", "k">>, 4, 9, 6, 1), Doc(<<"H", "L", "k", ";">>, 9, 9, 5, 1),
     Doc(<<"k", "k">>, 9, 2, 3, 2)}

Ed == INSTANCE Editor WITH
    Typed <- {<<>>, <<"k">>, <<"q">>, <<";">>}, MaxCut <- 1, MaxLog <- 2,
    Asks <- {<<0, 9, 9>>, <<1, 9, 1>>}, TreeBudget <- 3,
    limits <- edLimits, text <- edText, revision <- edRevision, log <- edLog, mirror <- edMirror,
    seen <- edSeen, stmts <- edStmts, dirty <- edDirty, inactive <- edInactive,
    treeBytes <- edTreeBytes, screen <- edScreen, packet <- edPacket, told <- edTold,
    passed <- edPassed, overtaken <- edOvertaken

Ex == INSTANCE Export WITH
    MaxRows <- ExportRows, Limits <- ExportLimits, Together <- ExportTogether,
    job <- exJob, fs <- exFs, ex <- exEx

\* One query over several chunks and partitions, and an id given twice.
An == INSTANCE Analytics WITH
    Runs <- {1}, IdOf <- <<7>>, Shares <- {1, 2}, Chunks <- 3, PerChunk <- 2, Caps <- {3, 4, 6},
    Endings <- {"shutdown", "eof"}, Credits <- 2, Backlog <- 1, MaxInbox <- 1,
    inbox <- anInbox, out <- anOut, asked <- anAsked, got <- anGot, open <- anOpen,
    pending <- anPending, task <- anTask, serving <- anServing

Twice == INSTANCE Analytics WITH
    Runs <- {1, 2}, IdOf <- <<7, 7>>, Shares <- {1}, Chunks <- 1, PerChunk <- 1, Caps <- {1},
    Endings <- {"closesession", "shutdown", "eof"}, Credits <- 1, Backlog <- 1, MaxInbox <- 1,
    inbox <- anInbox, out <- anOut, asked <- anAsked, got <- anGot, open <- anOpen,
    pending <- anPending, task <- anTask, serving <- anServing

Sg == INSTANCE SqlGuard WITH
    MaxNest <- 2, MaxLexemes <- 8,
    dialect <- sgDialect, rd <- sgRd, look <- sgLook, verdict <- sgVerdict, left <- sgLeft,
    effect <- sgEffect

Sc == INSTANCE SqlScript WITH MaxTodo <- 16, todo <- scTodo, sp <- scSp

CommandsInit ==
    /\ part \in {"held", "guard", "script", "export", "analytics", "twice", "editor"}
    /\ Init /\ (part # "held" => plan = CHOOSE p \in Plans : TRUE)
    /\ Ex!Init /\ (part # "export" => /\ exJob = [format |-> "xls", limit |-> 0, zip |-> FALSE]
                                      /\ \A p \in Ex!Paths : exFs[p] = Ex!NoFile)
    /\ IF part = "twice" THEN Twice!Init ELSE An!Init
    /\ Sg!Init /\ (part # "guard" => sgDialect = "mysql")
    /\ Sc!Init
    /\ Ed!Init /\ (part # "editor" => edText = <<"k", "k">>)

HeldStep == part = "held" /\ Next /\ UNCHANGED <<part, exVars, anVars, sqlVars, edVars>>
ExportStep == part = "export" /\ Ex!Next /\ UNCHANGED <<part, vars, anVars, sqlVars, edVars>>
AnalyticsStep ==
    /\ \/ part = "analytics" /\ An!Next
       \/ part = "twice" /\ Twice!Next
    /\ UNCHANGED <<part, vars, exVars, sqlVars, edVars>>
GuardStep == part = "guard" /\ Sg!Next /\ UNCHANGED <<part, vars, exVars, anVars, edVars, scTodo, scSp>>
ScriptStep ==
    /\ part = "script" /\ Sc!Next
    /\ UNCHANGED <<part, vars, exVars, anVars, edVars>>
    /\ UNCHANGED <<sgDialect, sgRd, sgLook, sgVerdict, sgLeft, sgEffect>>

EditorStep == part = "editor" /\ Ed!Next /\ UNCHANGED <<part, vars, exVars, anVars, sqlVars>>

CommandsNext == HeldStep \/ ExportStep \/ AnalyticsStep \/ GuardStep \/ ScriptStep \/ EditorStep

CommandsVars == <<part, vars, exVars, anVars, sqlVars, edVars>>

CommandsSpec == CommandsInit /\ [][CommandsNext]_CommandsVars

Symmetric == Permutations(Exports)

-----------------------------------------------------------------------------
(* The components' properties under their own names.                       *)

\* An export that reports done has put every row it counted into complete files under the names it
\* reports; one that reports an error has put nothing there unless a rename or the archive failed
\* after the checks; no file a person had is replaced by a part, unless somebody put it there between
\* the export's last look and its rename (plan.rs:151, where a rename replaces what it finds); and
\* nothing staged is left by an export that was neither killed nor stopped by its own header
\* (plan.rs, "a file is either complete or not there").
ExportTrue == part = "export" => Ex!ExportTrue

\* A staged file is changed or deleted only by the export that created it: one that fails deletes
\* its own (plan.rs abort, zip.rs bundle; lib.rs:357 "a path that exists is another export's file").
\* Exports of the xls format and archives are made one at a time here; side by side they break it.
StagedOwn == Ex!StagedOwn

\* What the app reads of an analytics query is its columns, its rows, and one last word that is true:
\* complete only when every row is there once, cut only when a row was left out; a chunk's rows come
\* together and those of one partition in the order of its chunks, while the partitions come in any
\* order among each other (output.rs pump, server.rs start_query, remote_table.rs:102).  Two results
\* under one id never mix, however soon the app gives the id again (server.rs:329).  And a fetch that
\* waits for a chunk can be woken: its request stands in the table, and is on its way to the app, with
\* the app, or on its way back; no request stands there for a fetch that is gone (server.rs fetch,
\* Pending, answer_request).
HelperTrue ==
    /\ part = "analytics" => An!Framed /\ An!Unmixed /\ An!Woken
    /\ part = "twice" => Twice!Framed /\ Twice!Unmixed /\ Twice!Woken

\* Whatever settings the server has, a script the guard lets through does nothing that the user's
\* mode, the connection, the driver or the policy forbids, and one a repeated run accepts only reads;
\* a DROP or a TRUNCATE runs only if no entry of the floor forbids it, and confirmed if one asks for
\* that (scan.rs MYSQL_READINGS, "Every lexer a MySQL server can be using"; commands.rs
\* destructive_mode, "A floor may therefore only ever be stricter").  And a MySQL script is cut exactly
\* where the server's grammar ends a statement: the `;` of a stored program's body belong to it,
\* however its blocks, handlers, labels and CASE expressions nest (script.rs, "What the tracker must
\* not do is end a body early").
SqlTrue == (part = "guard" => Sg!GuardHolds) /\ (part = "script" => Sc!BodyWhole)

\* What the editor shows of a document is the document's.  After every replay of the log the
\* statements are those a fresh walk gives, and the cached outlines and the count of cached trees are
\* true; and once a paint said that nothing is left and was drawn, a colour on screen is the one the
\* text has, whatever was typed, painted, dropped, converged or evicted before (paint.rs:5, "It
\* repaints only the ranges in `dirty`: everything an edit or a change of colour may have made
\* wrong"; statements.rs apply_edit).  Two exceptions: it lies inside a stretch of one colour that
\* began right and that the application therefore passed over (SQLEditor.swift rangeNeedsPaint), or
\* it was drawn from a paint that a convergence overtook (paint.rs:335).  A statement that was ever
\* too big to parse is left out.
EditorTrue == part = "editor" => Ed!EditorTrue
=============================================================================
