------------------------------ MODULE AppStore ------------------------------
(***************************************************************************)
(* The local database (crates/qh-storage) as its writers share it: the     *)
(* engine host's commands behind one handle and its mutex                  *)
(* (crates/qh-ffi/src/local.rs), the CLI and the MCP server with a handle  *)
(* of their own (crates/qh-ffi/src/bin/mcp.rs), each in its own process.   *)
(* A command opens and migrates the database, then rewrites a row, logs    *)
(* and runs a statement, imports the old connections file, or serves an    *)
(* MCP token.  A process may die between any two statements.               *)
(***************************************************************************)
EXTENDS Naturals, Sequences, FiniteSets

CONSTANTS
    Host,        \* commands of the engine host: one process, one shared handle
    Cli,         \* commands that are processes of their own
    Older,       \* those of Cli that an older build runs
    Latest,      \* the newest migration
    FileRows,    \* the connections of the old file
    MaxStarts,   \* bound: commands started
    None

ASSUME AppStoreAssumption ==
    /\ Host \cap Cli = {} /\ Older \subseteq Cli /\ None \notin Host \cup Cli
    /\ Latest \in Nat \ {0} /\ MaxStarts \in Nat

Cmds == Host \cup Cli
\* The operations on a row with a revision, by the table it is in.
RowOps(t) ==
    CASE t = "saved_query" -> {"rename", "favourite", "delete"}
      [] t = "query_history" -> {"record", "clear"}
      [] t = "session_restore" -> {"save_session", "clear_session"}
Tables == {"saved_query", "query_history", "session_restore"}

VARIABLES
    schema,    \* user_version, schema_migration, and the migrations whose SQL ran
    table,     \* the table of the row below
    row,       \* a row with a revision: a saved query, a history entry or the session
    log,       \* execution_log: each row's own hash and the one it chains to
    legacy,    \* the import: the copy of the file, the rows taken, the marker
    token,     \* an mcp_token row
    lock,      \* the command inside BEGIN IMMEDIATE, or None
    slot,      \* the host command that holds SharedStorage's mutex, or None
    open,      \* the host's handle is open and migrated
    cmd,       \* what each command is doing, and what it read last
    starts,    \* commands started
    edits,     \* revisions acknowledged to a caller
    outside,   \* a process beside the host rewrote the row
    ran        \* statements sent to a server after their decision was logged

db == <<schema, row, log, legacy, token>>
vars == <<table, db, lock, slot, open, cmd, starts, edits, outside, ran>>

Idle == [pc |-> "off", op |-> "none", at |-> 0, seen |-> None]

Init ==
    /\ schema = [version |-> 0, history |-> {}, tables |-> {}]
    /\ table \in Tables
    /\ row = [version |-> 1, dead |-> FALSE, fav |-> FALSE]
    /\ log = <<>>
    /\ legacy = [backup |-> FALSE, taken |-> {}, marker |-> FALSE]
    /\ token = [revoked |-> FALSE, used |-> FALSE]
    /\ lock = None /\ slot = None /\ open = FALSE
    /\ cmd = [c \in Cmds |-> Idle]
    /\ starts = 0 /\ edits = 0 /\ outside = FALSE /\ ran = 0

TypeOK ==
    /\ schema.version \in 0 .. Latest /\ schema.history \subseteq 1 .. Latest
    /\ schema.tables \subseteq 1 .. Latest
    /\ row \in [version : Nat, dead : BOOLEAN, fav : BOOLEAN]
    /\ table \in Tables /\ legacy.taken \subseteq FileRows
    /\ lock \in Cmds \cup {None} /\ slot \in Host \cup {None} /\ open \in BOOLEAN
    /\ starts \in 0 .. MaxStarts /\ edits \in Nat /\ ran \in Nat

Step(c, pc) == cmd' = [cmd EXCEPT ![c].pc = pc]
Keep == UNCHANGED <<table, starts, edits, outside, ran>>

\* A command ends, with its answer or with an error, and lets the mutex go.
Ends(c) ==
    /\ cmd' = [cmd EXCEPT ![c] = Idle]
    /\ slot' = IF slot = c THEN None ELSE slot

-----------------------------------------------------------------------------
(* acquire, open_storage and migrate::run                                  *)

Start(c, op) ==
    /\ cmd[c].pc = "off" /\ starts < MaxStarts
    /\ op \in {"serve", "revoke"} => c \in Cli
    /\ cmd' = [cmd EXCEPT ![c] = [Idle EXCEPT !.pc = "acquire", !.op = op]]
    /\ starts' = starts + 1
    /\ UNCHANGED <<table, db, lock, slot, open, edits, outside, ran>>

\* Mutant of Acquire: the mutex guards the open and not the command.
AcquireOpenOnly(c) ==
    /\ cmd[c].pc = "acquire"
    /\ Step(c, IF c \in Host /\ open THEN "work" ELSE "version")
    /\ slot' = slot
    /\ UNCHANGED <<db, lock, open>> /\ Keep

\* The host's commands take turns on one handle; the others open one each.
Acquire(c) ==
    /\ cmd[c].pc = "acquire"
    /\ IF c \in Host THEN slot = None /\ slot' = c ELSE slot' = slot
    /\ Step(c, IF c \in Host /\ open THEN "work" ELSE "version")
    /\ UNCHANGED <<db, lock, open>> /\ Keep

Known(c) == IF c \in Older THEN Latest - 1 ELSE Latest

\* user_version; a newer build's database is left alone.
ReadVersion(c) ==
    /\ cmd[c].pc = "version"
    /\ IF schema.version > Known(c) THEN Ends(c)
       ELSE /\ cmd' = [cmd EXCEPT ![c].pc = "history", ![c].at = schema.version]
            /\ slot' = slot
    /\ UNCHANGED <<db, lock, open>> /\ Keep

\* A fresh file has no object, and any other the history its marker names.
CheckHistory(c) ==
    LET at == cmd[c].at
    IN  /\ cmd[c].pc = "history"
        /\ IF (IF at = 0 THEN schema.tables = {} ELSE schema.history = 1 .. at)
           THEN Step(c, "migrate") /\ slot' = slot ELSE Ends(c)
        /\ UNCHANGED <<db, lock, open>> /\ Keep

\* One migration, its history row and the marker in one transaction.
Apply(v) ==
    schema' = [version |-> v, history |-> schema.history \cup {v},
               tables |-> schema.tables \cup {v}]

\* A migration another process has run meanwhile fails on its first object.
Migrate(c) ==
    LET v == cmd[c].at + 1
    IN  /\ cmd[c].pc = "migrate"
        /\ IF cmd[c].at >= Known(c)
           THEN Step(c, "work") /\ UNCHANGED <<schema, slot>> /\ open' = (open \/ c \in Host)
           ELSE /\ lock = None /\ UNCHANGED open
                /\ IF v \in schema.tables THEN Ends(c) /\ UNCHANGED schema
                   ELSE Apply(v) /\ cmd' = [cmd EXCEPT ![c].at = v] /\ slot' = slot
        /\ UNCHANGED <<row, log, legacy, token, lock>> /\ Keep

-----------------------------------------------------------------------------
(* Rows with a revision: read whole, changed, written whole.               *)

ReadRow(c) ==
    /\ cmd[c].pc = "work" /\ cmd[c].op \in RowOps(table)
    /\ cmd' = [cmd EXCEPT ![c].pc = "write", ![c].seen = row]
    /\ UNCHANGED <<db, lock, slot, open>> /\ Keep

\* SyncMeta::touch, mark_deleted and undelete
Touch(r) == [r EXCEPT !.version = @ + 1]
MarkDeleted(r) == Touch([r EXCEPT !.dead = TRUE])
Undelete(r) == Touch([r EXCEPT !.dead = FALSE])

\* What each operation makes of the row it read; an unchanged row is not written.
RenameSavedQuery(r) == Touch(r)
SetSavedQueryFavourite(r) == IF r.fav THEN r ELSE Touch([r EXCEPT !.fav = TRUE])
SoftDelete(r) == IF r.dead THEN r ELSE MarkDeleted(r)
RecordHistory(r) == Undelete(r)
ClearHistory(r) == IF r.dead THEN r ELSE MarkDeleted(r)
SaveSession(r) == Undelete(r)
ClearSession(r) == IF r.dead THEN r ELSE MarkDeleted(r)

Rewritten(op, r) ==
    CASE op = "rename" -> RenameSavedQuery(r)
      [] op = "favourite" -> SetSavedQueryFavourite(r)
      [] op = "delete" -> SoftDelete(r)
      [] op = "record" -> RecordHistory(r)
      [] op = "clear" -> ClearHistory(r)
      [] op = "save_session" -> SaveSession(r)
      [] op = "clear_session" -> ClearSession(r)

WriteRow(c) ==
    LET new == Rewritten(cmd[c].op, cmd[c].seen)
    IN  /\ cmd[c].pc = "write"
        /\ IF new = cmd[c].seen THEN UNCHANGED <<row, edits, outside>>
           ELSE /\ lock = None /\ row' = new
                /\ edits' = edits + 1 /\ outside' = (outside \/ c \in Cli)
        /\ Ends(c)
        /\ UNCHANGED <<table, schema, log, legacy, token, lock, open, starts, ran>>

-----------------------------------------------------------------------------
(* guard_confirmed: the decision is logged, then the statement runs.       *)

LastHash(s) == IF s = <<>> THEN 0 ELSE s[Len(s)].hash

\* Mutant of BeginAppend: the tail is read without the write lock.
BeginAppendUnlocked(c) ==
    /\ cmd[c].pc = "work" /\ cmd[c].op = "run"
    /\ lock' = lock
    /\ cmd' = [cmd EXCEPT ![c].pc = "append", ![c].seen = LastHash(log)]
    /\ UNCHANGED <<db, slot, open>> /\ Keep

\* append_execution: BEGIN IMMEDIATE and the tail of the chain.
BeginAppend(c) ==
    /\ cmd[c].pc = "work" /\ cmd[c].op = "run"
    /\ lock = None /\ lock' = c
    /\ cmd' = [cmd EXCEPT ![c].pc = "append", ![c].seen = LastHash(log)]
    /\ UNCHANGED <<db, slot, open>> /\ Keep

\* The busy timeout ran out: the command fails and the statement is not sent.
Busy(c) ==
    /\ cmd[c].pc = "work" /\ cmd[c].op = "run" /\ lock # None /\ Ends(c)
    /\ UNCHANGED <<db, lock, open>> /\ Keep

CommitAppend(c) ==
    /\ cmd[c].pc = "append"
    /\ log' = Append(log, [hash |-> Len(log) + 1, prev |-> cmd[c].seen])
    /\ lock' = IF lock = c THEN None ELSE lock
    /\ Step(c, "send")
    /\ UNCHANGED <<schema, row, legacy, token, slot, open>> /\ Keep

Send(c) ==
    /\ cmd[c].pc = "send" /\ ran' = ran + 1 /\ Ends(c)
    /\ UNCHANGED <<table, db, lock, open, starts, edits, outside>>

-----------------------------------------------------------------------------
(* import::import_connections                                              *)

\* already_imported, then the copy of the file, which may fail.
ImportCheck(c) ==
    /\ cmd[c].pc = "work" /\ cmd[c].op = "import"
    /\ IF legacy.marker THEN Ends(c) ELSE Step(c, "backup") /\ slot' = slot
    /\ UNCHANGED <<db, lock, open>> /\ Keep

ImportBackup(c) ==
    /\ cmd[c].pc = "backup"
    /\ \/ Ends(c) /\ UNCHANGED legacy
       \/ /\ legacy' = [legacy EXCEPT !.backup = TRUE]
          /\ cmd' = [cmd EXCEPT ![c].pc = "merge", ![c].seen = {}] /\ slot' = slot
    /\ UNCHANGED <<schema, row, log, token, lock, open>> /\ Keep

\* merge_connection, row by row: each its own statement.
ImportMerge(c) ==
    /\ cmd[c].pc = "merge" /\ lock = None
    /\ \E r \in FileRows \ cmd[c].seen :
          /\ legacy' = [legacy EXCEPT !.taken = @ \cup {r}]
          /\ cmd' = [cmd EXCEPT ![c].seen = @ \cup {r}]
    /\ UNCHANGED <<schema, row, log, token, lock, slot, open>> /\ Keep

\* Mutant of ImportVerify: the marker stands for an import that started.
ImportVerifyEarly(c) ==
    /\ cmd[c].pc = "merge" /\ cmd[c].seen # {}
    /\ Step(c, "mark") /\ slot' = slot
    /\ UNCHANGED <<db, lock, open>> /\ Keep

\* verify_written: every row of the plan reads back.
ImportVerify(c) ==
    /\ cmd[c].pc = "merge" /\ cmd[c].seen = FileRows
    /\ IF FileRows \subseteq legacy.taken THEN Step(c, "mark") /\ slot' = slot ELSE Ends(c)
    /\ UNCHANGED <<db, lock, open>> /\ Keep

ImportMark(c) ==
    /\ cmd[c].pc = "mark" /\ lock = None
    /\ legacy' = [legacy EXCEPT !.marker = TRUE] /\ Ends(c)
    /\ UNCHANGED <<schema, row, log, token, lock, open>> /\ Keep

-----------------------------------------------------------------------------
(* bin/mcp.rs: the token is resolved once, and each call touches it.       *)

ResolveToken(c) ==
    /\ cmd[c].pc = "work" /\ cmd[c].op = "serve"
    /\ IF token.revoked THEN Ends(c)
       ELSE cmd' = [cmd EXCEPT ![c].pc = "serving", ![c].seen = token] /\ slot' = slot
    /\ UNCHANGED <<db, lock, open>> /\ Keep

\* Mutant of TouchToken: the row read at the start is written back whole.
TouchTokenWhole(c) ==
    /\ cmd[c].pc = "serving" /\ lock = None
    /\ token' = [cmd[c].seen EXCEPT !.used = TRUE]
    /\ UNCHANGED <<schema, row, log, legacy, lock, slot, open, cmd>> /\ Keep

TouchToken(c) ==
    /\ cmd[c].pc = "serving" /\ lock = None
    /\ token' = [token EXCEPT !.used = TRUE]
    /\ UNCHANGED <<schema, row, log, legacy, lock, slot, open, cmd>> /\ Keep

\* The client closes the stream.
ServeEnds(c) ==
    /\ cmd[c].pc = "serving" /\ Ends(c) /\ UNCHANGED <<db, lock, open>> /\ Keep

RevokeToken(c) ==
    /\ cmd[c].pc = "work" /\ cmd[c].op = "revoke" /\ lock = None
    /\ token' = [token EXCEPT !.revoked = TRUE] /\ Ends(c)
    /\ UNCHANGED <<schema, row, log, legacy, lock, open>> /\ Keep

-----------------------------------------------------------------------------
\* A process dies: the host with every command in it.
Crash(dead) ==
    /\ \E c \in dead : cmd[c].pc # "off"
    /\ cmd' = [c \in Cmds |-> IF c \in dead THEN Idle ELSE cmd[c]]
    /\ lock' = IF lock \in dead THEN None ELSE lock
    /\ slot' = IF slot \in dead THEN None ELSE slot
    /\ open' = (open /\ dead # Host)
    /\ UNCHANGED db /\ Keep

Next ==
    \/ \E c \in Cmds : \E op \in RowOps(table) \cup {"run", "import", "serve", "revoke"} : Start(c, op)
    \/ \E c \in Cmds :
        \/ Acquire(c) \/ ReadVersion(c) \/ CheckHistory(c) \/ Migrate(c)
        \/ ReadRow(c) \/ WriteRow(c)
        \/ BeginAppend(c) \/ Busy(c) \/ CommitAppend(c) \/ Send(c)
        \/ ImportCheck(c) \/ ImportBackup(c) \/ ImportMerge(c) \/ ImportVerify(c) \/ ImportMark(c)
        \/ ResolveToken(c) \/ TouchToken(c) \/ ServeEnds(c) \/ RevokeToken(c)
    \/ Crash(Host) \/ \E c \in Cli : Crash({c})

Spec == Init /\ [][Next]_vars

-----------------------------------------------------------------------------
(* Properties.                                                             *)

\* The decision log verifies whoever wrote it: each row chains to the one before it, and no
\* statement is sent whose decision is not in it (append_execution, guard_confirmed).
LogIsChain ==
    /\ \A i \in DOMAIN log : log[i].prev = (IF i = 1 THEN 0 ELSE log[i - 1].hash)
    /\ ran <= Len(log)

\* The marker names exactly the migrations that ran, whole, whatever died or raced, and a command
\* works on a schema at least as new as its build (migrate::run); an import marked done has left a
\* copy of the file and every row of it, across any number of deaths and retries
\* (import_connections).
MarkersTrue ==
    /\ schema.history = 1 .. schema.version /\ schema.tables = schema.history
    /\ \A c \in Cmds : cmd[c].pc \in {"work", "write", "append", "send", "backup", "merge", "mark",
                                      "serving"} => schema.version >= Known(c)
    /\ legacy.marker => legacy.backup /\ FileRows \subseteq legacy.taken

\* Every edit the host acknowledged is a revision of its own: none is lost to another command of the
\* host that read the row before it (SharedStorage).  A process beside the host is outside this.
EditsKept == ~outside => row.version = 1 + edits

\* What one process put on disk no other undoes: a revocation, a marker, a logged decision, a
\* migration (touch_mcp_token, append_execution, migrate::run).
WordKept ==
    [][/\ token.revoked => token'.revoked
       /\ legacy.marker => legacy'.marker
       /\ Len(log) <= Len(log') /\ SubSeq(log', 1, Len(log)) = log
       /\ schema.version <= schema'.version]_vars
=============================================================================
