# A TLA+ model of QueryHive's engine

QueryHive is a database client. A Swift application calls a Rust engine (`crates/`) through a
foreign-function interface; the engine opens sessions to PostgreSQL, MySQL/MariaDB and Trino,
runs statements on them, and keeps the results in a budgeted, spilling result store that the
grid reads from. This directory models the parts of the engine where several tasks, threads or
processes share state, where a connection or a process can fail half-way, or where one program
must read a text the way another one will: the session pool and the lease, the three drivers'
sessions, the result store, its views and the runs that fill it, apply, import, transfer, table
swap and export, the trust in a bastion's key, the local database and the MCP server over it, the
analytics helper, the editor, the way from settings to a connection, and the texts (statements,
cells, files) that one program writes and another reads. TLC checks each model on small instances.
TLAPS proves for every instance the safety of the session pool, of a command's calls on its session,
of the local database, of the host keys, of the result stores and of their views, and that the table
swap implements its abstract specification.

Paths below are relative to `src/`.

## 1. Inventory

### Parts of the engine

| Part | State it keeps | Operations | What is hard about it | What makes it correct |
|---|---|---|---|---|
| Session pool, `crates/qh-ffi/src/host/pool.rs` | per connection identity an `Entry`: credential hash, idle list, `leased` per lane, `pending`, `retired`, a shared tunnel behind its own lock | `checkout`, `checkin`, `park`, `warm`, `refill`, `open_unleased`, `ensure_tunnel`, `reconnect`, `evict` | three locks, never held together over an await except the tunnel's; background tasks that outlive the command; counts given back by drop guards; a janitor beside them | a session has one owner; a new password never meets an old session; a late cancel meets nobody; counts and limits hold; a checkout ends |
| Lease, `host/lease.rs` | `broken`, `unsettled`, `cancelled`, `dirty`, `reused`, `executed` | `call`, `attempt`, `reconnect`, `enforce_read_only`, `cancel`, drop | decides from an error alone whether a statement may be sent a second time, and whether a session may be used a second time | a write is sent once; read-only stays read-only on the new connection; a transaction is not continued outside itself |
| Retry, `retry.rs` | the attempt count | `execute`, `connect`, `RetryCursor` | sits above the lease's own rule, and the two compose | together they repeat only what may be repeated |
| `apply_changes`, `apply.rs` | none beyond the call: the plan, the transaction it opened | begin, statements with row-count verification, stop, rollback, commit, report | an answer lost before or after the server acted | what the report says was written is what the table holds |
| Commands, `commands.rs`, host, `host.rs` | run handles, a stop flag per run, the events of a call | open, preview, explain, export, to_table, import; run into a store, stop | Stop drops a future at any await and races the end of the run | every call ends with one last event that the store agrees with |
| Result registry and stores, `crates/qh-result-store/src/{registry,store,spill}.rs` | atomics (`resident`, `phase`, `rows`), chunk tables, the decoded cache, a spill file per store | `push`, `publish`, `finish`, `charge`, `evict_until`, `spill_one`, `load_chunk`, `cache_decoded`, `release` | every thread evicts every other thread's chunks; release runs at any time | the budget holds; `resident` is what is resident; readers never see a row that is not there; a released store stays released and leaves nothing behind |
| Views, `crates/qh-result-store/src/{view,store}.rs` | the current view, its rows, its watermark, the `expanding` and `cancelled` flags | `set_view`, `build_view`, `maybe_expand_view`, `expand_view`, `expand_view_now` | rows arrive while a view is built, installed and expanded | a view shows every matching row, once, in order, and an old view says so |
| Table swap, `table_swap.rs` | none beyond the call; the scratch table on the server | build, discard, probe, rename steps, undo | three engines with three kinds of atomicity | the old table or the new one, never none |
| Import (`import.rs`, `qh-import`) | a transaction, the batch, the reject file | read, batch, send, bisect, commit, stop | three error modes over engines that commit at different moments | the report counts what the table holds |
| Transfer (`transfer/`) | two leases, a page, a write window with a timer, a staging table | open, create, fetch, append, flush, verify, swap, commit, abort | two servers, each of which may fail or stop answering; another client at the target's name | the target holds every source row once, or is as it was |
| Drivers, `qh-driver-*` | what the driver believes of its server session: settings, transaction, current database, cursor, flight | connect, execute, next batch or page, cancel, reset | the belief outlives lost answers, dropped futures and replaced connections | what the driver says holds of the server; a bound asked for is in force; rows come in order, once |
| Host keys, `qh-tunnel` | the user's `known_hosts`, the application's own file, the attempt | check a key, record it, time out | a prompt-free first use races an edit, another attempt and its own timeout | nobody authenticates to a host whose key is not on record |
| Local database, `qh-storage`, `local.rs`, `execution_log.rs` | one SQLite file, one handle behind a mutex per process, the log's hash chain, the token rows | migrate, read, write, append, import, resolve and revoke a token | several processes, some of an older build, any of which may die | the log is one chain; markers tell the truth; no edit is lost in one process; a statement is logged before it is sent |
| Export, `qh-export` | staged parts, names taken, the archive | plan, open a part, roll over, commit, abort, bundle | two exports of one name, a person's own files, a kill | a file in place is whole and the export's own |
| Analytics helper, `helpers/analytics` | sessions, a command channel, the output queue, cancel flags, chunk requests | query, cancel, answer, close | a bounded pipe in each direction between two processes | frames are in order and end once; nobody waits for ever |
| Safe Mode and the script splitter, `qh-sql` | none | scan, classify, split | a text is read here by one lexer and on the server by another, whose settings are not known | what Safe Mode lets pass as a read is a read for the server; a stored program is sent whole |
| Settings and connection, `config.rs`, `env.rs`, `tunnel.rs` | none beyond the call: the configuration, the address and the encryption of the wire | build a configuration, retarget it to a tunnel, dial, fall back to clear text, follow the coordinator's pages | settings, URL, alias, `DEST_` and `prefer` each have a say in where a credential goes | a credential reaches its own host, encrypted and checked as asked |
| ssh alias, `ssh_config.rs` | none | load with Includes, resolve | ssh itself is the second reader, with its own rules of nesting | an alias resolves to what ssh would use, or is refused |
| MCP server, `mcp.rs` | a token, read once; rows and secrets, read at each call | tools over one connection | the application edits the connections meanwhile; an answer may tell what it should not | nothing depends on a connection the token does not name |
| Editor, `qh-editor`, `editor.rs` | the text under one lock, its analysis under another, an edit log between them; the screen's colours | replace, paint, apply, converge, outline, bracket pair | the analysis follows behind the text, and colours are applied after later edits | the statements are those of the text; what is clean is coloured right |
| Cells, `qh-columnar` and the text of a cell | a builder, chunks, spill records, statistics | push, seal, encode, spill, load, infer a schema; write a value, read a number, JSON, a sort key | every cell takes one of many encodings, and a text is read back by rules of its own | a cell is read as it was pushed; a reading agrees with what the text means |
| Files: the writers of `qh-export`, the readers of `qh-import` | a writer's open brackets, a reader's buffer | write a row, finish; open, sample, read a row, make a literal | two libraries, and a file that somebody may damage in between | a file that was not damaged comes back row for row, a damaged one is noticed or confined |
| The rest: formatter, completion, catalogue queries, `qh-sql-grammar`, XLSX, xls, dbf, parquet | none | format, complete, list | data, not concurrency | — |

How they meet: a command takes a lease from the pool (`commands::open`), sends its statements
through the lease (`Held::call`), usually under `retry::execute`, and its rows go from the
driver's cursor into a result store. Dropping the lease hands the session to a background
checkin task of the pool. The grid reads the store through windows and views on other threads;
closing the tab releases the store. A lease's call reaches a driver's session, which has its own
memory of the server's; import, transfer and `to_table` are scripts over leases, and the last two end in
a table swap. Before a statement is sent, the guard classifies it and the decision is appended to
the local database. The MCP server runs the same commands for a client that holds a token. The
analytics helper asks the application for the chunks of a result store. An exported file is the
import's input.

`PROJECT.json` lists every part under `components` with what is modelled of it, and under
`hazards` what in this code is hard to test, at the line where it bites.

### Plan

Done, in this order: `SessionPool` with its proofs; `ResultStore` and `ResultView`; `HeldCalls`;
`SafeReplace` and `TableSwap` with the proof that one implements the other; the three drivers'
sessions; `Import` and `Transfer`; `HostKeys`; `AppStore`; `Export`; `Analytics`; `ResultRun`;
`SqlGuard` and `SqlScript`; `ValueCopy`; `Editor`; `Connect`, `SshConfig` and `McpServer`;
`CellText`, `TextReadings` and `Columnar`; `RowFiles`; the proofs about `HeldCalls`, `AppStore`,
`HostKeys`, `ResultStore` and `ResultView`, and the tunnel and the report in those about the pool
and the swap.

What would come next:

1. the windows a grid reads (`store_api.rs`): row count and phase are read apart;
2. the import of a file of statements, and the XLSX reader beside the others of `RowFiles`;
3. the spill files' startup sweep, and the helper's memory leases over DataFusion's pool;
4. theorems still worth having: `StagedOwn` and `ExportTrue` of `Export`.

The number of runs is kept at a dozen. Components that do not interact share a run: see
`MCEngines`, `MCCommands`, `MCResults`, `MCAppStore` and `MCStores` below.

## 2. The modules

| Module | Models | Checked by |
|---|---|---|
| `SessionPool` | `host/pool.rs`, the lease flags of `host/lease.rs` that decide a session's fate | `MCPool` |
| `SessionPoolProofs` | the proofs about `SessionPool` | `tlapm` |
| `ResultStore`, `ResultStoreProofs`, `StoresProofs` | `registry.rs`, the life and residency of `store.rs`, `spill.rs` as one file per store | its own cfg, `MCStores`, `tlapm` |
| `ResultView`, `ResultsProofs` | `set_view`, `push`, `finish` and the expansion of `store.rs` and `view.rs` | its own cfg, `MCResults`, `tlapm` |
| `ResultRun`, `ResultsProofs` | `run_with_store` of `host.rs` and `uniffi_api.rs`, the pump and the stop races of `commands.rs` | `MCResults`, `tlapm` |
| `HeldCalls`, `HeldCallsProofs` | `Held::call` and `reconnect` of `host/lease.rs`, `retry.rs`, `apply.rs`, `explain` and `preview` of `commands.rs` | `MCHeld`, `MCCommands`, `tlapm` |
| `SafeReplace` | what replacing a table promises | `MCEngines`, `tlapm` |
| `TableSwap`, `EngineProofs` | `table_swap.rs` and the part of `to_table` around it | `MCEngines`, `tlapm` |
| `MysqlSession`, `TrinoSession`, `PostgresSession` | the sessions of the three drivers | `MCEngines`, `tlapm` |
| `Import` | the loop of `import.rs` | `MCEngines`, `tlapm` |
| `Transfer` | `transfer/mod.rs` and its target | `MCEngines`, `tlapm` |
| `EngineProofs` | the proofs about the table swap, the sessions, `Import` and `Transfer` | `tlapm` |
| `ValueCopy`, `ValueSamples` | `transfer/types.rs`, `names.rs`, `encode.rs`; `describe.rs`, `normalize.rs` and `decode.rs` of the drivers; the values tried | `MCEngines` |
| `HostKeys`, `HostKeysProofs` | `known_hosts.rs` and the handshake of `qh-tunnel` | `MCEngines`, `tlapm` |
| `AppStore`, `AppStoreProofs` | `qh-storage`, `local.rs`, `execution_log.rs`, the token of `mcp.rs` | `MCAppStore`, `tlapm` |
| `McpServer` | the requests, scopes and answers of `mcp.rs` | `MCAppStore`, `tlapm` |
| `Connect` | `config.rs`, `env.rs`, `tunnel.rs` and what each driver does with the configuration | `MCAppStore`, `tlapm` |
| `SshConfig` | `ssh_config.rs` beside ssh's own reading | `MCData` |
| `Export` | the plan, parts, staging and archive of `qh-export`, and `commands::export`'s loop | `MCCommands` |
| `Analytics` | the helper process: its loop, writer, queries and remote chunks | `MCCommands` |
| `SqlGuard` | `scan.rs` and the verdict of `classify.rs`, against the lexers of the servers | `MCCommands` |
| `SqlScript` | `script.rs` | `MCCommands` |
| `Editor` | `qh-editor`, `editor.rs`, the application's part of a paint | `MCCommands` |
| `CellText`, `TextReadings` | `render.rs` of `qh-core`, `collate.rs` and `render.rs` of `qh-result-store` | `MCCells` |
| `Columnar` | `qh-columnar`, `chunk.rs`, the records of `spill.rs`, `logical.rs` | `MCCells` |
| `RowFiles` | `writers.rs`, `encoding.rs`, `csv_source.rs`, `json_source.rs`, `values.rs` and the literals of `import.rs` | `MCFiles` |

`PROJECT.json`'s `map` names the source lines of every definition. Definitions whose comment
starts with "Mutant" are not part of a model: each is what a plausible slip would make of the
definition after it, and substituting it makes a property fail.

**Composites.** `MCEngines`, `MCCommands`, `MCResults`, `MCAppStore` and `MCStores` declare the variables of several
components and a variable `part`. `Init` chooses one component, whose variables start as its own
`Init` says while the others rest at a constant, and only that component's `Next` is enabled
afterwards. So each behaviour is a behaviour of one component alone, the states add up instead of
multiplying, and a property of a component is checked on exactly its own specification. `MCCells`, `MCFiles` and
`MCData` add, in the same way and with a variable `sheet`, the components that use RECURSIVE operators
to `MCEngines`, `MCCommands` and `MCAppStore`, which stay modules that can be reasoned about.

### SessionPool

One connection identity; identities share only a notification, and a wait also ends by its
timeout. Each lock region is one action and other actors may act at every await between two.

* `Begin`, `Reuse`, `Wait`, `WaitEnds`, `Open`, `StopEarly`: `checkout`. `EntryFor` is the lookup
  under the map's lock, which retires the entry of another credential and replaces it.
* `ShareTunnel`, `OpenTunnel`, `TunnelOpened`, `GiveUp`: `ensure_tunnel` and the opening of a
  session, for a command, a background warm-up or a long operation alike.
* `ConnectRun`, `ConnectAgain`, `ConnectWarm`, `ConnectLong`: the connector answered.
* `ReadOnly`, `Call`, `Cancel`, `Reconnect`, `Release`, `StopReadOnly`: what a lease does, as far
  as it changes the fate of its session. `Fate` is the decision at drop.
* `CheckinDiscard`, `CheckinReset`, `ResetOk`, `ResetFails`, `Refill`, `DropPending`: the checkin task.
* `Warm`, `WarmOpens`; `BeginLong`, `EndLong` (`open_unleased`); `EvictExpired`, `EvictEntry` (the janitor).
* `CancelLands`, `TunnelDies`: the environment.

Left open, so that every case is covered: which idle session is newest, which is past its TTL,
whether a call fails. Ids of sessions, entries and tunnels are used again once nothing names them,
which keeps the instance finite without ending the behaviour.

### ResultStore

One writer per store, readers, and an owner that releases the store. A step is one atomic
operation or one locked region; so `set_phase` is two steps (`LoadPhase`, `StorePhase`), a spill is
three (`SpillWrite`, `SpillSwap`, `SpillGive`), publication is charge, entry, row count, and
release is seven. A chunk is one unit of budget, and every eviction order is allowed.

`Overlap` names what may be under way on a store while that store is released. The code does
not restrict this. With everything allowed, `AccountsTrue` and `ReleasedForGood` fail (section 4),
and a passing run would be impossible; a passing run therefore names the overlaps it excludes, and
what it shows is that nothing else breaks. `CHECK_DEADLOCK FALSE`: a writer seals at most
`MaxChunks` chunks and a released store does not come back, so a bounded instance ends. `MCStores`
has the module twice: without overlaps and with readers ("budget"), and with pushes, spills and reads that
overlap a release ("close").

### ResultView

One store that is still arriving, the view requests of the application (one at a time), two tasks
of the view pool and the expansion `finish` runs on its own thread. A chunk holds one row, and
every subset of rows may match. A view's rows are the sequence of the scans that were appended to
it, each the set of rows it found. `set_view` is snapshot, compute, install, hook; an expansion is
snapshot, append, watermark, end, look again, because each of those is a separate lock or atomic.
`EmptyOnly` restricts views to those installed before the first chunk. Deadlock is not checked
for the same reason as above.

### HeldCalls

One command, its script and one session. `Plans` is a set of commands: what they send, whether the
session is leased, reused, persistent (PostgreSQL, MySQL) or not (Trino), read-only or not.
`PlanOK` (`PlansAssumption`) says what a script may look like: apply's changes with or without a
transaction of their own, an explain with or without its fence, one statement otherwise. The
server is modelled by what the rules rely on: a transaction, a read-only mode, committed rows
(`Effect`, `Allowed`, `Ran`; marked external in the map). A call may run, be refused, never be
sent, or have its answer lost after it ran; a connection may die between calls. The answer is one
of the error classes the drivers give to these cases, and the lease, the retry loop and the
command see only the class. The variable `log` is history. The command ends in a stuttering step.

### MysqlSession, TrinoSession, PostgresSession

Each module keeps two things apart: what the driver's structures say of the server session, and
what is true on the server.

`MysqlSession` (`Call`, `Session`, `Producer`): a call takes the connection, or opens another one
when the old one is gone or busy; it sends the bounds it believes are not in force; a result is
read by a producer task through a bounded channel, and dropping the cursor leaves the rest of the
rows on the wire. `reset` changes both sides. The driver takes a transaction for over once its COMMIT or
ROLLBACK has a connection; the server, once it runs it; `began` and `unsent` record the difference.

`TrinoSession` (`Execute`, `PostAnswered`, `PostLost`, `PostRefused`, `Downgrade`, `TakeRow`,
`LimitReached`, `AskPage`, `PageArrives`, `PageFailed`, `PageLost`, `QueryFails`, `Cancel`, `Reset`,
`ResetRefused`): a statement is a POST and a chain of pages, each asked for again after a lost
answer; `Cancel` reads the shared cell that the fetch writes.

`PostgresSession` (`BeginRun`, `Fence`, `Execute`, `ExecuteBound`, `Browse`, `EndRun`, `Lost`): the
tracker of the session's timeout and row settings, across transactions that undo a SET, failed
statements and the pool's `RESET ALL`.

### SafeReplace and TableSwap

`SafeReplace` is the promise: the user's rows are under the table's name, or kept under another,
until the new ones stand in their place; a replacement that failed has not lost them. `TableSwap`
is the code on an engine with transactional DDL (PostgreSQL), with one atomic rename of two tables
(MySQL) and with two renames (Trino): `Build*`, `LateBuild` (a statement whose answer was lost
acts later), `Probe*`, `Swap*`, `Undo*`, `Discard*`, `DropOld*`, `Stop`, `Crash`. Each statement may be
refused, be cut before or after it acted, or act without an answer. `Replaces` is the refinement;
`TrueWord` says that the report (done, failed with the old table in place, failed with the old
table under the backup's name) is true of the server.

### Import

`Prologue*` (TRUNCATE or CREATE, BEGIN), `ReadRow`, `RejectRow`, `EndOfFile`, `ReaderFails`,
`SendOk`, `SendRefused`, `SendShort`, `SendLost`, `RejectEnds`, `Finish*`, `Abort`, `Stop`. The three
error modes differ in what a refused batch does: end the run, end it at a rejected line, or send
the batch again row by row. The server's transaction is modelled with the engines' rules on
statement errors and implicit commits. `ImportTrue` relates the report to the rows in the table.

### Transfer

`ConnectSetup`, `OpenSource`, `StoppedEarly`, `Begin`, `Create`, `PageArrives`, `Fetched`,
`SourceFails`, `WindowTimer`, `AppendRow`, `RowsEnd`, `Flush`, `Verify`, `Swap`, `Commit`, `DropOld`,
`Abort`, `Stop`, and `OtherCreates`, another client that creates the target. A write window of
PostgreSQL (an open COPY) has a timer that may fire while a fetch is pending; the page that had
arrived must not be lost with it. `TransferTrue`: what is reported is what the target holds, every
source row once and in order, or the target is as it was unless the report says otherwise.
`TablesKept`: no step of this client removes a table of somebody else's, and nothing half-copied
is visible under the target's name.

### ValueCopy

One value of one column, from server to server: `CheckNames`, `MapColumns`, `Demote` (one turn of
the loop that fits a MySQL row), `Fitted`, `Create`, `Fetch`, `Write`. A value is what the code
tells apart: an integer is its sign and its width in bits, a decimal the digits on either side of
its point, a text its characters, bytes and trailing spaces, a moment its year, its hour and its
fraction. `Described` is what each driver says of a column, `MapType` the plan, `ReadValue` what
the driver reads, `PgValue` and `MysqlValue` what the encoder takes. The target server stores what
its column holds and *bends* everything else (rounds, cuts, refuses: `Bent`); PostgreSQL cuts a long
name. `ValueSamples` has the columns and, for each, values on both sides of every limit the code or
a server has. `ValuesKept`: a value that was written is in the target as it was in the source, under
the name the plan says, but for the two the code alters unsaid, which are among the samples and for which
`Altered` says what arrives (a day its month has not; a negative zero inside a composite); and an ordinary value (an integer of the column's type, a boolean, bytes, a
null) is not refused.

### HostKeys

Attempts of this process and of another to open a tunnel to one bastion, the three files of known
keys (the person's, the system's, the application's), people who edit them: `Edit`, `Open`, `Timeout`, `Connected`, `Authenticated`,
`Gone`, `KeyArrives`, `SessionLost`, `ReadUser`, `ReadSystem`, `ReadApp`, `AppendRead`, `AppendLine`,
`AppendFails`. The check reads one file after another and appends a first key
before it accepts it. `AuthOnRecord`: whoever authenticates does so with a key that is on record or
that the caller named, and none whose revocation stood in one and the same file for as long as the attempt
ran (`revoked`). The three files are three reads, so a revocation that is moved from a file not yet read
to one already read is seen in neither; the property does not promise that one, and its comment says so.

### AppStore

Two commands of the host over one handle and its mutex, a second process of this build and one of
an older build, all over one database file: `Start`, `Acquire`, `ReadVersion`, `CheckHistory`,
`Migrate`, `ReadRow`, `WriteRow`, `BeginAppend`, `Busy`, `CommitAppend`, `Send`, `Import*`,
`ResolveToken`, `TouchToken`, `ServeEnds`, `RevokeToken`, `Crash`. One statement of SQLite is one
step, a transaction holds the file's lock from its BEGIN IMMEDIATE on.

### McpServer

One server process, one token, one request at a time: `Ask`, `ReadRow`, `ReadSecrets`, `RunTool`;
beside it the application's `Save`, `Delete` and `Rekey`. The module runs two worlds on the same
requests that agree on the connections the token allows and on nothing else: `NothingOutside` says
that their answers and what they send are the same, so a client learns nothing about the others.
`CallsConfined` says what may reach a database server. `McpConfined` is both.

### Connect

`Configure` builds the configuration from the settings, their URL and, for a transfer, the `DEST_`
settings; then `OpenTunnel`, `PostgresDial`, `MysqlDial`, `DialInClear`, `Login`, `GiveUp`, and on Trino
`TrinoConnect`, `Request`, `RequestInClear`, `RequestFails`. The database has a certificate of some
issuer for some names, none, or breaks the handshake; a coordinator may name any address as the next
page. `SecretsGuarded`: each credential on `wire` is the connection's own, at the host its settings
name, encrypted and checked against the roots chosen where that was asked for.

### SshConfig

The files are written line by line as the loader reads them (`HostLine`, `MatchLine`, `DirectiveLine`,
`Include`, `OddInclude`, `Malformed`, `NoHome`, `Unreadable`, `EndOfInclude`, `EndOfConfig`), with
the walk of `resolve` and, beside it, ssh's own: a stack of flags, one per open file. `AliasTrue`: the
alias resolves to what ssh would use, and only when nothing ssh would obey was passed over.

### Export

`Begin`, `NamePart`, `OpenPart`, `HeaderFails`, `WriteRow`, `RollOver`, `RowsFail`, `Killed`,
`Finish`, `Check`, `Place`, `NameZip`, `CreateZip`, `AddFiles`, `UserWrites`. Two exports into one
directory, each a sequence of parts staged under a name of its own and renamed into place; a kill
leaves what is on the disk. `ExportTrue` says that a file the export reports is whole and is what
stands under its name, and that no part replaces a file unless it appeared between the export's last look and
its rename (`raced`, `plan.rs:151`); `StagedOwn` that no two writers stage to one file.

### Analytics

The application (`AppRuns`, `AppCancels`, `AppAnswers`, `AppEnds`), the helper's loop (`StartQuery`,
`CancelQuery`, `AnswerRequest`, `CloseSession`, `LeaveLoop`, `QueueClose`), its writer thread
(`WriteFrame`), the end of the process (`ProcessEnds`), the query task (`Plan`, `SayColumns`,
`SeeCancel`, `NextBatch`, `StreamEnds`, `SendPiece`, `Delist`, `SayDone`) and the partitions of its scan
(`Fetch`, `SendRequest`, `Gather`, `Aborted`). Queues and credits are bounded. A scan has as many
partitions as its leases pay for, and partition p reads the chunks p, p + P, p + 2P, ...; one is polled
by the query itself, several run as tasks whose batches are taken as they come (DataFusion's, modelled
from its use) and which end some time after their stream was dropped. `Framed`: the frames of a query
are in order; its rows are those of the result up to its cap, those of a chunk together and those of one
partition in the order of its chunks, with no order between partitions; it ends with one last frame,
which is true. `Unmixed`: the rows of two queries under one id never mix. `Woken`: nobody waits for an
answer that cannot come any more, and nobody's request stays in the table.

### ResultRun

One run of a statement into a result store, seen from the calls that start and stop it: `Enter`,
`ClaimRun`, `Prepare`, `FailsEarly`, `Panics`, `Opened`, `Fenced`, `Executed`, `Primed`, `Begin`,
`Loop`, `Fetched`, `Accept`, `AcceptReleased`, `PumpFails`, `Probed`, `Finish`, `RolledBack`,
`Request`, `StopWins`, `Confirmed`, `Unconfirmed`, `Settle`, `Release`. `RunTold`: the last event,
the store's phase and row count and the answer of the call agree. `StopEnds`: a Stop ends the run,
unless it comes to an `EXPLAIN ANALYZE` that already waits for its fence's ROLLBACK: that wait is neither
raced nor timed (section 4).

### SqlGuard and SqlScript

`SqlGuard` writes a statement lexeme by lexeme (`Write`) and lets every lexer that could read it
follow: the classifier's own, and the server's under each setting the client does not know
(backslash escapes, ANSI quotes, nested comments, executable comments run or not). `Ended` is where
a reader thinks the statement ends. `GuardHolds`: a text the guard lets pass as a read is one
statement and a read to every such server. A server runs all its executable comments or none;
comments gated by version one by one are not modelled.

`SqlScript` (`Derive`, `Write`; `Gap`, `Event`, `HeadEvent`, `BodyEvent`, `Separate`) derives scripts
from a grammar of stored programs, with nested blocks, CASE expressions and labels, and runs the
splitter over their words. `BodyWhole`: the body of a stored program is never cut, and what follows
it is. `SqlTrue` is this and `GuardHolds`.

### Editor

One document: `Replace` under the text's lock, and under the analysis' lock `MarkDirty`, `Stale`,
`Paint`, `Outline`, `BracketPair`, `Converge`, each of which first replays the log of edits; then
`ApplyPaint` or `DropPaint` on the screen. Units are UTF-16 units, with one letter of two of them. A
tree counts its statement's units against `TREE_CACHE_BYTES`, statements above a limit are not parsed,
texts above another are not coloured. A range is drawn as the application draws it, only if the first
unit of one of its runs or gaps has another colour (`NeedsPaint`). `EditorTrue`: the list of statements
after each replay is that of a fresh walk (`ListFresh`), what is cached is of the text as it is
(`CachesTrue`), and once a paint that left nothing over was applied, every colour on the screen is the
text's (`ScreenRight`), but for the units in `passed`, inside a stretch of one colour that began right,
and those in `overtaken`, drawn from a paint that a convergence had changed.

### CellText, TextReadings and Columnar

`CellText` writes a value as text (numbers, floats, decimals with scale, dates, moments with an
offset, JSON, arrays, rows and maps) and reads a text as the grid does: as a number, as JSON, as a
sort key. `TextReadings` derives every short text, letter by letter, and compares the readings with
what the text means (`TextTrue`). `Columnar` is the cells of a result at rest: `Push`, `Fetch`,
`PushPiece`, `PushArrow`, `Spill`, `Damage`; the builder widens a column as values arrive and falls
back to tagged cells, a chunk is sealed by rows or by bytes, a spill record is encrypted under a
nonce, a load checks it. `CellsKept`: a row is read as it was pushed, cell by cell, or not at all where
its record was damaged; SQL reads the value or the text the grid shows, with two exceptions that
`LogicalTrue` states (an empty text is absent; moments of disagreeing offsets are moved); a chunk stays within its
limits, and a nonce is used once.
`CellsTrue` is both.

### RowFiles

A table that leaves as a file and comes back: `WriteRow` and `Finish` of an export's writer, `Damage`
(the file is cut, or gets a character it did not have), `Preview`, `Open` and `NextRow` of the
import's reader, and the literal each value becomes on its server. CSV with its delimiter, quotes,
encodings and BOM; JSON and JSON lines with escapes, nesting and the limits on an element; the dates,
numbers and booleans an import is told about. Scripts and pages (SQL, XML, HTML) only leave.
`FilesTrue`: every row comes back once and in order, or is refused for what it holds (`RowsReturn`,
`NumbersRead`); a JSON file somebody changed is read to its end only if it still is one, and its values
keep their keys (`FileRead`); a CSV file with a byte that is no character is refused before its first
row (`BytesRead`), and a delimiter too many moves no value to another column (`NoneMoved`); a script
replays to the rows (`ScriptReplays`), and a page shows them (`PageShows`). Excepted, as the code has it: a
character the encoding lacks leaves as `?`, a CSV row of one empty field is an empty line and skipped, and a
stray delimiter may move values in a row whose last field is empty (`ragged`).

## 3. What the runs show

| Run | States | Holds |
|---|---|---|
| `pool_safe` | 1.46 M | `SoleOwner`, `OwnCredential`, `NothingStranded`, `CancelStaysHome` |
| `pool_tunnel` | 0.65 M | `TunnelsHeld`, `CountsAreTrue` |
| `pool_live` | 35 k | `PoolSettles`: `CheckoutEnds` and `ReturnsSettle` |
| `store_budget` | 2.53 M | `BudgetHeld`, `AccountsTrue`, `RowsBacked` with no overlap with a release; `NoFileLeft` with pushes, spills and reads that overlap one |
| `view_grow` | 342 k | `NothingMissed`, `CatchesUp`, `RunTold`, `StopEnds` |
| `commands` | 1.00 M | `ReportTrue`, `WriteOnce`, `InsideFence`, `ExportTrue`, `StagedOwn`, `HelperTrue`, `SqlTrue`, `EditorTrue`, `FilesTrue` |
| `engines` | 1.29 M | `TrueWord`, `Replaces`, `SessionsTrue`, `ImportTrue`, `TransferTrue`, `TablesKept`, `ValuesKept`, `AuthOnRecord`, `CellsTrue` |
| `appstore` | 2.03 M | `LogIsChain`, `MarkersTrue`, `EditsKept`, `WordKept`, `McpConfined`, `SecretsGuarded`, `AliasTrue` |
| `store_double`, `view_twice`, `held_cli`, `commit_unsent` | | a property the repository states and the code does not keep (section 4) |

A property whose name ends in `True` joins what several parts of a composite promise, and the comment
above it says which: `SessionsTrue` is `BoundsInForce` and `TransactionWhole` of MySQL, `PgBound`, and
`RowsInOrder` and `CancelReaches` of Trino; `HelperTrue` is `Framed`, `Unmixed` and `Woken`.

**The bounds, and why they are enough to see the interesting cases.**

* Pool: two commands on a lane of one place force a wait, an opening beyond the reservation and a
  return while the other chooses; two credentials force a retirement under a lease, a reset and a
  warm-up; an idle limit of one with two sessions makes `park` refuse. `MaxParked = 1` lets a
  background task hold its guard after parking. Safety of this module does not rest on the bounds:
  it is proved (section 5).
* Store: a budget of two with two writers of two chunks each makes every charge evict, a low-water
  mark of one makes an eviction spill more than one chunk, and two readers can decode the same chunk
  at the same time.
* Views: two chunks are enough for one to arrive in each of the windows between snapshot,
  installation, hook and end of an expansion; two views make one supersede the other under an
  expansion. A run into a store has two calls, results of none to three rows around a LIMIT of two.
* `HeldCalls`: 13 scripts as long as the code's with two changes; two retries make the third attempt the last.
* Drivers: MySQL has two connections, a channel of one batch, results of two batches and three
  events of the environment; Trino two statements of at most three pages and a limit of one row;
  PostgreSQL two runs of three statements.
* `Import`: four lines in batches of two, so that a batch is full, partial and empty at the end.
  `Transfer`: three rows in pages of at most two, two rows to a write.
* `ValueCopy`: 94 columns, 19 tables, two targets; offsets of 0, 7, -5 and 15 hours and a region's name.
* `HostKeys`: two attempts, two keys, three calls and edits together. With one edit only, a revocation
  cannot be taken back during an attempt, and a stronger `AuthOnRecord` than the code keeps holds.
  `AppStore`: two commands of the host, two other processes, two migrations, two rows in the old file,
  three starts.
* `McpServer`: four kinds of connection under two allowed ids and one that is not, tokens of every reach, one request
  and one edit, so that an edit falls into every gap of a call. `Connect`: five families of settings
  (parts, a URL, odd words, an alias, a source with a destination), six databases, one further page.
  `SshConfig`: six lines with two directives, three files, Includes two deep.
* `Editor`: texts of at most six units, one or two edits, five kinds of document (several statements, regions, one
  over the limit of a statement, one with a letter of two units, one at the limit of a text), a log of two entries and trees
  of three units, so that log and trees overflow.
* `TextReadings`: every text of up to four to six letters of an alphabet that has each kind of
  letter the readings tell apart. `Columnar`: three rows in chunks of two, numbers scaled down so that
  every limit (digits, scale, microseconds, bytes of a chunk, nonces) lies among the values tried.
* `RowFiles`: two rows of one or two columns with every separator, quote and escape among the values, a
  sample of one row, one unmapped key, two levels, elements of 40 characters, one place of damage.
* `Export`: two exports of three rows, size limits of none and two rows. `Analytics`: one query over
  three chunks of two rows, dealt to one or two partitions, caps of 3, 4 and 6 rows (inside a batch, at the
  end of one, at the end of all), two credits, a backlog and an inbox of one; and, in the part "twice", one id
  given twice over one chunk, with the session closed between.
* `SqlGuard`: nine lexemes, nesting of two. `SqlScript`: at most 16 pending symbols.

**Symmetry** is used where ids are interchangeable and only for safety runs: sessions, entries,
credentials, commands, tunnels, stores, readers. The runs with liveness use none.

**Fairness.** `pool_live` assumes what the code's own scheduling gives: a decision under a lock is
taken, a wait with a timeout ends, an opening and a reset that are not answered run into their
timeouts (`TUNNEL_OPEN`, the driver's connect timeout, `RESET_BUDGET`), and a `tokio` mutex is handed
out in order (strong fairness on taking the tunnel's lock). Nothing is assumed of the server: it
need not answer anything. `view_grow` assumes that a thread that has started a hook, a build or an
expansion goes on; it assumes neither that the writer pushes nor that anybody asks for a view, nor that
a chunk loads. For a run into a store it assumes that the call's own thread goes on and its timers
fire; the database owes nothing.

**Deadlock** is not checked where a bounded instance ends: the stores, the views and the composites,
whose components finish (a command reports, a value is written, a budget of events is used up). That
nobody waits for ever is said by `Woken`, `StopEnds`, `PoolSettles` and `CatchesUp` instead. The pool,
which never ends, is checked for deadlock.

## 4. Where the code and its own words disagree

Each of these runs ends in a counterexample of a few steps.

* `store_double` (`AccountsTrue`): a release empties the chunk table while another store's eviction
  is spilling one of its chunks, and both give the bytes back. `resident` is then below what is
  resident, and the budget admits too much from then on.
* `view_twice` (`RowsOnce`): a view built while rows arrive holds the rows of its snapshot, and its
  watermark starts at zero, so its first expansion appends the same rows again.
* `held_cli` (`WriteOnce`): on a session with no lease nothing stops `retry::execute` from posting a
  write again after its answer was lost (Trino has no connection whose loss would be noticed).
* `commit_unsent` (`NotOverNothing`): a MySQL session clears `in_transaction` as soon as a COMMIT has its
  connection (`qh-driver-mysql/src/lib.rs:659`), and the SET before it may still be refused (`687`). The
  transaction stays open on the server and the driver no longer guards it: when the next statement loses
  the connection, a repeated COMMIT runs on a new one and succeeds over nothing, which `lib.rs:490` excludes.

The models show more, with a cfg or a definition changed as said; they are kept here and not as runs
because each is a variant of one above or of smaller consequence:

* `MCPoolSafe.cfg` with `INVARIANT HalfwayIsClosed`: a Stop during `enforce_read_only` leaves a call
  half-way that the lease does not know of; the session is reset and kept, although `lease.rs` says it is closed.
* `MCStoreDouble.cfg` with `Overlap = {"write"}` and `PROPERTY ReleasedForGood`: a release between the
  load and the store of `set_phase` is overwritten. With `AccountsTrue`: a release between a writer's
  charge and its publication leaves a chunk charged for ever (`store.rs:516`).
* `MCStoreDouble.cfg` with `Readers = Pool = {r1}`, `MaxChunks = 2`, `Overlap = {"read"}` and
  `NothingOutlives`: a view expansion puts a chunk in the decoded cache after the purge (`registry.rs:440`).
* `MCViewTwice.cfg` with `EmptyOnly = TRUE`: `expand_view_now` does not take the right to expand, and
  `finish` scans beside a pool task (`store.rs:760`).
* `MCViewTwice.cfg` with `CancelledBySuccessor`: a chunk that cannot be loaded cancels the view that
  is current, with no successor (`store.rs:787`; `view.rs:577` names only `release` and `set_view`).
* `MCHeldCli.cfg` with `Plans <- PooledRead` and `PROPERTY ResendsUnsent`: `lease.rs:369` says only a
  `Connect` error proves nothing was sent, but PostgreSQL and MySQL give that class to a connection that
  closed while the statement ran. Only reads are resent, so no write is repeated.
* `Im!StopLandsNothing` as an invariant of `MCEngines`: in the mode that promises all or nothing a
  MySQL import that creates or truncates its table has committed by that statement (`import.rs`, the mode's comment).
* `MCData.cfg` with `INVARIANT PassphraseUsed`: the MCP server puts a key's passphrase into the call's settings
  (`mcp.rs:591`), and `RealEngine::connect` opens the tunnel with the settings of the server's own process
  (`lib.rs:515`), so it is never read; the blueprint (`docs/architecture/blueprints/w11-metadata-and-connections.md:657`)
  lists it as used by the application and by MCP.
* `Together` of `MCCommands` with `"xls"`: the xls writer creates its staging file only when it
  finishes, so a second export of the same name stages to the same file (`StagedOwn`). With `"zip"`,
  `ExportTrue` fails too.
* `ScreenRight` without `passed`: the application looks at the first unit of each run and gap only
  (`SQLEditor.swift:1130`, `rangeNeedsPaint`), so a stale colour further in stays: when the quote that
  closes a string is deleted, what followed it keeps its colours although the string now runs over it.

Reading the code for the models turned up these, which a passing property excepts or a model leaves open:

* MySQL: `connection()` may reopen in the middle of a run, and the READ ONLY mode and the current
  database of the old connection are not set again (`qh-driver-mysql/src/lib.rs:517`, against
  `qh-driver/src/lib.rs:763` and `770`).
* Trino: a POST whose answer was lost leaves a query running that the next statement's id hides from
  `Cancel` and `Reset`. A Stop while the POST is unanswered past its grace reports no warning, since a
  cancel without a query id answers Ok; `RunTold` excepts it (`~named`).
* PostgreSQL: a describe that fails under other bounds leaves the tracker behind what was sent.
* Table swap: a lost answer can make a warning untrue (`table_swap.rs:254`), and PostgreSQL's
  DROP TABLE IF EXISTS replaces a table created after the probe. A transfer whose answer to the swap or to COMMIT is
  lost reports a failure although it took place. When the command line's own standard output is broken, the event
  before the check or the swap fails and what the clean-up had to warn of is dropped with it
  (`transfer/mod.rs:1148`, `1161`); `VerifyFails` keeps the warning, as in every other failure there.
* Local database: two processes that read, change and write one row lose an edit (`local.rs:694`; the mutex is
  the process's own). A token is resolved once by an MCP server, which serves on after it is revoked.
* Host keys: `abandoned` is read once, so a timeout after that still records the key; two processes
  with different pins may both record theirs.
* Analytics: `pool.rs:163` keeps the last quarter of the leases from spillers, and a second spiller may
  take it; `spill.rs` checks the quota before the lock that counts it. `Done.rows` leaves out the pieces of a batch that failed half-way.
  A query's id is free a step before its Done is said (`server.rs:352`), so an application that gives the id again at once
  may read the first query's Done after the second's columns.
* Result runs: the ROLLBACK of a fenced EXPLAIN ANALYZE is neither raced against a Stop nor timed
  (`commands.rs:1975`, against `uniffi_api.rs:270`, "every wait on the server"; `StopEnds` excepts it). A Stop pressed after an early failure gives an error event and a store marked
  cancelled; the probe for "truncated" takes an empty batch for the end; a window reads the row count before
  the phase, so its "complete" may come with an older count.
* Transfer values: the MySQL driver accepts a day up to 31 in every month (`normalize.rs:507`, `335`), so a
  date like 31 February, stored under ALLOW_INVALID_DATES, is copied as one in March (`encode.rs:1` says "exactly as
  they are, or refused"); a negative zero inside a composite is written `-0`, JSON's integer 0. `Altered` in
  `ValuesKept` excepts these two and says what is stored instead. `mysql_row_bytes` does not count the NULL
  bitmap, which is harmless: CREATE TABLE fails before the first row. PostgreSQL timestamps of
  the last 30 years it can hold overflow the driver's microseconds, and the encoder then refuses the year.
* Host keys: a revocation moved between two reads of one check, from a file not yet read to one already read, is
  seen in neither (`known_hosts.rs:354`).
* Editor: a paint computed before `converge` and drawn after it takes the converged span off the dirty set
  (`paint.rs:335`, `470`; `overtaken` excepts those units), and a statement too big to parse is only marked from the edit on
  (`paint.rs:414`; `big` excepts it). `converge` skips a statement whose tree was evicted.
* Cells: `json_validate` accepts `{a":1}` and sets the flag OPENABLE (`render.rs:741`, `750`); `JsonTrue` says that this is all it
  accepts besides JSON. `utf8_array` turns an empty text into NULL, against "never becomes a silent NULL" (`logical.rs:7`), and
  `shift_timestamps` makes moments later by their offset when a column's offsets disagree, against "the instant, in UTC"
  (`logical.rs:88`; the ignored test `a_zone_relabel_keeps_the_instant`); `LogicalTrue` names both exceptions. A chunk of a typed column that is all NULL or tagged makes
  `RecordBatch::try_new` refuse. `merge_stats` (`store.rs:1037`) forgets that a delta's scales differ when their maxima agree.
  A decimal scale over 38 is not an overflow. `offset_of` refuses hours over 23, and `format_tz` writes any. A sort key
  compares a date's days with a timestamp's microseconds (`view.rs:42`). Runs of more than 255
  significant digits lose their order in `natural_key`.
* Files: `csv_source.rs:221` says its caller refused a delimiter that is not ASCII; `import.rs:2222` counts characters, and a
  letter beyond ASCII is cut to a byte. Under `ragged` a stray delimiter shifts a row whose last
  field is empty (`NoneMoved` excepts it). A CSV row of one empty field is an empty line, and is not counted. In JSON, columns of
  one name become one key; a JSON lines file cut at a line's end is whole. A date format with minutes and no hour
  drops them, and of a repeated token the last wins. A zone in quotes behind a sign (`+'07:00'`) is not seen
  by `carries_zone`. The JSON writer takes decimals through `f64`, which is left out of the model.
* MCP: `read_connection_tool` on an allowed but deleted connection answers an internal error and not "not
  found"; the decision log says "allowed" for the statements of a script that is refused later.

## 5. What is proved

Each theorem holds for every value of the constants that the named assumption of its module admits:
any number of commands, sessions, stores, readers, keys, edits, retries, chunks, rows, lines, statements, starts, requests, pages,
connections and settings. TLC
evaluates each assumption in a run. The listed theorems:

| Module | Theorem | States |
|---|---|---|
| `SessionPoolProofs` | `PoolSafe` | `[]PoolInv`, the inductive invariant |
| | `TypeCorrect`, `OneOwner`, `CredentialKept`, `LateCancelHarmless`, `NoneStranded`, `TunnelHolds`, `CountsExact`, `IdleWithinMax` | `TypeOK`, `SoleOwner`, `OwnCredential`, `CancelStaysHome`, `NothingStranded`, `TunnelsHeld`, `CountsAreTrue`, `IdleBounded` |
| `HeldCallsProofs` | `HeldTypes`, `NothingOutsideFence` | `TypeOK`, `InsideFence` |
| | `WriteSentOnce`, `ReportHolds` | `WriteOnce`, `ReportTrue`, of the host's commands (`Hosted`) |
| `AppStoreProofs` | `StoreInvariant` | `[]StoreInv`, the inductive invariant |
| | `StoreTypes`, `LogChains`, `MarkersHold`, `NoEditLost` | `TypeOK`, `LogIsChain`, `MarkersTrue`, `EditsKept` |
| | `DiskWordKept` | the action property `WordKept` |
| | `McpIsConfined` | `McpConfined`, of the composite |
| | `SecretsAreGuarded` | `SecretsGuarded`, of the composite |
| `HostKeysProofs` | `KeysSafe` | `[]KeysInv`, the inductive invariant |
| | `KeyTypes`, `CredentialsOnRecord` | `TypeOK`, `AuthOnRecord` |
| `ResultStoreProofs` | `StoreTypes`, `BudgetKept` | `TypeOK`, `BudgetHeld`, whatever overlaps a release |
| | `ChunksBacked`, `FilesGone` | `RowsBacked`, `NoOrphanFile`, whatever overlaps a release |
| | `NoChargeLost` | the counter is never above what is in memory, decoded, or held as a charge by a thread (`Covered`), whatever overlaps a release |
| | `AccountsBalance` | `AccountsTrue` of every behaviour in which no store is pushed to or spilled while it is released (`Undisturbed`); reads may go on |
| `StoresProofs` | `NoFileIsLeft` | `NoFileLeft` of the composite, from `ResultStoreProofs` |
| `ResultsProofs` | `ViewTypes`, `NoRowMissed` | `TypeOK`, `NothingMissed` |
| | `RunsAreTold` | `RunTold` |
| `EngineProofs` | `SessionsAreTrue` | `SessionsTrue`: the sessions of the three drivers |
| | `ImportIsTrue` | `ImportTrue` |
| | `TransferIsTrue`, `TransferKeepsTables` | `TransferTrue`, the action property `TablesKept` |
| | `AuthIsOnRecord` | `AuthOnRecord` of the composite, from `HostKeysProofs` |
| | `SwapReplaces` | `TableSwap` implements `SafeReplace` (`Replaces`) |
| | `RowsNeverLost`, `LastWordTrue` | the user's rows are under the table's name, under the backup's, or replaced; `TrueWord` |

None of these properties is inductive alone. The arguments:

**The pool.** `PoolAssumption`: the commands are finitely many, the limits are natural numbers, the id sets are
apart. `PoolInv` is the conjunction of the properties with what each needs: `EntriesOK`, `TasksOK`
and `Links`, the shape of the state and which fields of a task are set at which point of it (without
`Links` an action could be taken from a state in which a lease holds no session); `CredInv` (every idle or
returning session was opened with its entry's credential); `CancelInv` (a return with fate `Reset` has no
cancel under way); `StrandInv` (whoever holds an entry finds it current or retired, which is what
`park`'s look at `retired` relies on); `TunnelInv` (an entry has one tunnel, a long operation keeps its
own, whoever is about to connect is on the tunnel of the slot or on a dead one, whoever opens a tunnel
holds the slot's lock and the slot is empty); `LeasesTrue` and `PendingTrue` (the counts are
cardinalities; the lemmas about sets of leases and returns say how each set changes when a lease or a return comes, goes or moves
on); `IdleInv`. Each is preserved by a lemma of its own, with one step per action.

**The table swap.** `SwapAssumption` names the three engines. `SwapInv` is `TypeOK`, `Shape` (what each engine's
server can hold) and `Phase` (what it holds at each point of the command): dropping the old table refines
a step of `SafeReplace` only where the new one stands under the name. `WordInv` adds what the report
may say at each point. One lemma per group of actions shows that the group keeps the invariant and is a
step or a stutter of `SafeReplace`.

**A command's calls.** `PlansAssumption` says what scripts the commands have. `FenceInv` is `TypeOK`, `Flow` (where
the command, the retry loop and the lease can be together) and `Fence`: a connection that is up is
inside the transaction or the read-only fence its script opened, which fails unless a replaced
connection ends the script. `WriteInv` adds that a statement which may still be sent has not run (`Once`) and
what table and transaction hold of the writes before it (`Data`). Its hypothesis `Hosted` is that a command which
writes is apply's or holds a lease. The command line's preview is neither, and `held_cli` shows that the
property is false of it.

**The local database.** `AppStoreAssumption`: the host's commands and the other processes are apart, and there is
a migration. `StoreInv`: whoever appends to the log holds the file's lock and has read its tail (`LockInv`);
statements sent, and about to be sent, have a row each (`SendInv`); versions only go up, so what a
command read of the schema is true or was (`SchemaInv`); an import marks only what it has taken
(`ImportInv`); the host's commands take turns, so the row one of them read is the row unless another process
wrote (`TurnInv`).

**The MCP server.** `McpAssumption` is the type of a saved connection. `McInv`: the two worlds agree on the rows and
secrets of every id the token allows, on what the call under way has found and on its settings
(`McTwins`); a call that has gone past `resolve` is about an allowed id with a row of its own (`McFlow`). The
replies that list connections have to be the same set in both worlds, and the settings are a function of
one row and of that id's secrets only.

**From settings to a connection.** `ConnectAssumption`: the settings have their type, and no certificate names the
loopback address, which a driver behind a tunnel is pointed at. `CnInv`: the configuration owes to the settings what a credential
depends on (`CnMade`: above all, a mode that may end in clear text was asked for, and a check that was
asked for gives the mode that verifies); the driver is pointed at the settings' host or at the tunnel's end
with the name to check beside it (`Direct`, `Tunnelled`); and a session that is not in clear text has its
handshake (`CnSession`). What is left is one lemma on the name that is checked (`Vouched`) and one on where a
socket ends (`ReachesOwn`).

**Host keys.** `KeysInv`: an attempt that has read a file holds every revocation it found there that
still stands, one about to append has found none, and one that has verified nothing has sent nothing.
A stronger `AuthOnRecord`, which took the files for one, held in TLC with a single edit and failed
with two; the property and the bound are since what sections 2 and 3 say. `EngineProofs` instantiates this module for the
composite's variables and shows that a step of the composite's instance is a step of the other.

**The result stores.** `TypeInv` says what each thread may be doing and that the chunk table follows the row count; with
it, what is charged without the charges still being decided stays within the budget. `RowsInv` adds where each listed
chunk is, that a record about to take a chunk's place has its file, and that the file of a store whose release is over
is closed as long as its phase says so. None of this needs a condition on what overlaps a release; `RowsBacked` speaks
of a store until its release marks it and `NoOrphanFile` of a phase that is still Released, because `set_phase` can
undo a release (`ReleasedForGood`, section 4). The accounts are two inequalities. `CoverInv`: nothing is charged for
nothing, in every behaviour, since a step that adds to `resident` adds a chunk, an entry or a thread that holds the charge.
The other, that nothing is there uncharged, is false where a release and a spill give one chunk back
twice (`store_double`); `ApartInv` (a chunk is spilled by one thread, and not while its store is released) and `AccInv`
(`resident` is the number of chunks in memory, decoded, charged but not yet entered, and spilled but not yet given back)
prove the equality for the behaviours that satisfy `Undisturbed`, a condition on the states passed, not on the
constants. `StoresProofs` instantiates the proofs for the stores of the composite
whose tabs are closed under pushes, spills and reads (`CloseAssumption`), and shows that both instances have the same steps.

**The views.** `ViewInv`: a view is complete up to its watermark, and the right to expand it is in
somebody's hands (`ViewOK`); a task is on an installed view and complete up to where it began (`TaskOK`); the expansion of
`finish` sees every chunk (`FinisherOK`); a call of `set_view` still sees the truth (`SetterOK`); and a current view
that owes rows is about to be looked at, by the writer's hook, the call's, or a task (`CurrentOK`). This
last one is the hand-over between `maybe_expand_view` and the end of an expansion.

**A run.** `RunsAssumption`: a cap is at least 1. `RunInv`: the rows in the store are those of the run that claimed it, in order
(`RunRows`); a call without the store has not begun or was told an error (`Outside`); and of the call that has it (`Inside`),
the cursor's rows are accepted or in hand and those accepted are delivered, or being so (`Counts`), the store's phase follows
the pump (`StoreBeside`), and the last word is true from the step that decides it on, although the store's phase is
written one step later and another thread may close the tab between the two (`LastWord`).

**An import.** `EnginesAssumption` names what the parameters of the engines' components may be, and this
component needs of it only that a batch holds a line. `ImInv` is `ImShape` (which lines are read, batched, pending in the
transaction, in the table, named or doubtful, and which of these sets are apart), `ImOutcomes` (how the flags of
the outcome depend on each other), `ImWhole` and the property. `ImWhole` is the heart of it: unless the
server committed on its own, an import in a transaction has nothing in the table before its end, the transaction is open while
the loop runs, the count is the cardinality of what was sent less the doubtful batches (`ImAcct`), and every
line read is somewhere (`ImSeen`), unless the rollback is still owed (`ImOwes`).

**A transfer.** `TxInv`: where each row is, between the source's page, the batch, the write window and the
server, at each point of the run, in order and once; which name holds which table (`tab`, `view`) at each point of
both destinations' swaps; and what may be said of it. The step that takes the name is the one where the
stage holds the whole of the source (`Verify`), which is also what `TablesKept` needs; a lost answer leaves both
outcomes possible and the invariant names both.

**The sessions.** `MyInv`: whoever has the connection (the session, the call, a flight; `MyShape` says it is one of
them), the driver's copies of its bounds are true of it if it is alive (`MyTracked`); and while a BEGIN that was answered is
open, the session believes so and nobody has another connection (`MyBegun`), which is why
`may_replace` suffices. `PgInv`: the driver's copy is true of the backend whenever it says what the run wants, also of what a rollback
would restore. `TrInv`: the cursor's page, the rows in it and the rows handed out are one sequence, and the query of a
cursor has pages from the next one on (`TrShape`). A step of the composite is a step of one session or leaves its variables alone.

**Only model-checked.** Of the composites: `ExportTrue`, `StagedOwn`, `ValuesKept`, `HelperTrue`, `SqlTrue` and
`EditorTrue` have no proof. `CellsTrue`, `FilesTrue` and `AliasTrue` are about what functions
over texts and lines compute for every input, which needs induction over data; their modules declare
RECURSIVE operators, of which no theorem can be proved here. Liveness (`PoolSettles`, `CatchesUp`, `StopEnds`) rests on fairness and `ENABLED`, which are outside
this prover.

## 6. What is not modelled

Time (a timeout is an event that may come at any moment), TTLs, delays between retries; the wording of
events and messages; encryption, the bytes of frames and records; COPY escapes; fonts and italics, the index of lines and
bytes, references and completion in the editor; the formatter, the grammar tables and the catalogue queries; XLSX, xls, dbf
and parquet files; the import of a file of statements; the windows a grid reads; DataFusion; the Swift
application, which is the modules' environment except for its part of a paint. Of the classifier: client
directives, the lists of function names, encoding names, and comments gated by a server's version.
`qh-sync` has no transport at this commit, so there is nothing for its merge to run against. `reserve`
and `reserve_query` of the registry have no caller outside tests. Processor memory orders are taken as
sequentially consistent; the code uses acquire and release on the row count and the phase, and
acquire-release read-modify-write operations on `resident`. A rekey of SSH and a line cut in the middle of
an append to a `known_hosts` file are not modelled.

About a quarter of the Rust lines are unit tests inside the source files. Of the rest, what is left
out is for the greater part text without a second reader to disagree with: formatting, completion,
catalogue queries and the wording of messages. `PROJECT.json` lists every component with what is
modelled of it and what is not.
