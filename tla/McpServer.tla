----------------------------- MODULE McpServer -----------------------------
(***************************************************************************)
(* The MCP server (crates/qh-ffi/src/mcp.rs Server, serve; bin/mcp.rs      *)
(* cmd_serve): one process, one token, one request at a time, over the     *)
(* local database and the Keychain that the app edits meanwhile.  A call   *)
(* reads the connection's row, then its secrets, then runs one engine      *)
(* command.                                                                *)
(*                                                                         *)
(* Two worlds are run side by side on the same requests.  They agree on    *)
(* every connection the token's allowlist names and on nothing else, so a  *)
(* difference in an answer would be something the client learned about a   *)
(* connection it may not name.                                             *)
(***************************************************************************)
EXTENDS Naturals, Sequences, FiniteSets

CONSTANTS
    Rows,       \* the connections a person may have saved under an id
    Tokens,     \* [scopes, allow]: the tools and the connection ids of a token
    MaxAsked,   \* bound on the requests
    MaxEdits,   \* bound on what the app changes meanwhile
    None

Worlds == {1, 2}
Ids == {"mine", "other"}       \* the ids that may have a row
Named == Ids \cup {"bogus"}    \* and one that never does

VARIABLES
    token,      \* the token that resolve_token accepted when the server started
    store,      \* world -> id -> the row, a tombstone or None
    keychain,   \* world -> id -> which secrets stand under its account
    pc,         \* "idle", "row", "secrets", "run"
    request,    \* the line being handled
    found,      \* world -> what Server::resolve returned
    settings,   \* world -> the per-call settings
    answer,     \* world -> the last reply
    sent,       \* world -> the last thing a database server was told, or None
    touched,    \* last_used_at was written for the request
    asked, edits

vars == <<token, store, keychain, pc, request, found, settings, answer, sent, touched, asked, edits>>

-----------------------------------------------------------------------------
(* The tools, the prompts and what a client may write.                     *)

\* TOOLS, by the engine command each one runs.
Command == [db_drivers |-> "DbDrivers", connections_list |-> "Connections", objects |-> "Objects",
            tables |-> "Tables", columns |-> "Preview", preview |-> "Preview", count |-> "Count",
            explain |-> "Explain", export_to_file |-> "Export", describe_table |-> "Columns",
            table_ddl |-> "Ddl"]
Tools == DOMAIN Command
TakesSql == {"preview", "count", "explain", "export_to_file"}
TakesTarget == {"columns", "describe_table", "table_ddl"}
TakesCatalog == {"objects", "tables"} \cup TakesTarget

\* PROMPTS, by the tool whose scope gates each one.
PromptScope == [explain_query |-> "explain", summarize_tables |-> "tables"]

Allows(tool) == tool \in token.scopes
AllowsConnection(id) == id \in token.allow

Call(tool, id, catalog, sql) ==
    [method |-> "tools/call", name |-> tool, id |-> id, catalog |-> catalog, sql |-> sql]
Read(uri, id) == [method |-> "resources/read", name |-> uri, id |-> id, catalog |-> "", sql |-> ""]
Plain(method, name) == [method |-> method, name |-> name, id |-> "", catalog |-> "", sql |-> ""]

\* A catalog argument is absent, the connection's own, another one, or no plain name at all.
Catalogs == {"", "own", "elsewhere", "\n"}

Requests ==
    {Call(t, i, c, "") : t \in TakesCatalog, i \in Named, c \in Catalogs}
    \cup {Call(t, i, "", s) : t \in TakesSql, i \in Named, s \in {"read", "write"}}
    \cup {Call(t, "", "", "") : t \in {"db_drivers", "connections_list", "to_table", "unknown"}}
    \cup {Read(u, i) : u \in {"connection", "objects", "tables"}, i \in Named}
    \cup {Read(u, "") : u \in {"connections", "alien"}}
    \cup {Plain(m, n) : m \in {"prompts/get"}, n \in {"explain_query", "summarize_tables", "unknown"}}
    \cup {Plain("initialize", n) : n \in {"known", "unnamed", "unknown"}}
    \cup {Plain(m, "") : m \in {"notification", "ping", "tools/list", "resources/list",
                                 "prompts/list", "not json", "not an object", "no method", "other"}}

-----------------------------------------------------------------------------
(* Replies that need neither a row nor a secret.                           *)

Reply(code, body) == [code |-> code, body |-> body]
NotFound == Reply("-32002", "resource not found")
ToolError(body) == Reply("isError", body)

Alive(w, id) == store[w][id] # None /\ ~store[w][id].deleted

\* connection_row: the hand-picked subset.
Shown(w, id) ==
    [id |-> id, kind |-> store[w][id].kind, host |-> store[w][id].host, database |-> store[w][id].own]

\* A slip: the rows as the store has them.
EveryConnection(w) == {Shown(w, i) : i \in {j \in Ids : Alive(w, j)}}

\* visible_connections: every living row is read, and the allowlist is applied to what came back.
VisibleConnections(w) == {Shown(w, i) : i \in {j \in Ids : Alive(w, j) /\ AllowsConnection(j)}}

\* list_resources
ResourcesOf(w) ==
    LET kinds == {k \in {"connections_list", "objects", "tables"} : Allows(k)}
    IN [root |-> Allows("connections_list"),
        rows |-> IF kinds = {} THEN {} ELSE {[of |-> r.id, as |-> k] : r \in VisibleConnections(w),
                                                                      k \in kinds}]

\* initialize_response: a version the server does not speak is refused with the ones it does.
Initialize(r) == IF r.name = "unknown" THEN Reply("-32022", "supported") ELSE Reply("ok", r.name)

\* list_tools, list_prompts, get_prompt: what the scope names, and nothing else exists.
ListTools == Reply("ok", {t \in Tools : Allows(t)})
ListPrompts == Reply("ok", {p \in DOMAIN PromptScope : Allows(PromptScope[p])})
GetPrompt(r) ==
    IF r.name \in DOMAIN PromptScope /\ Allows(PromptScope[r.name])
    THEN Reply("ok", r.name) ELSE Reply("-32602", "unknown prompt")

\* read_resource, up to the resources that a tool answers.
ReadResource(w, r) ==
    LET rows == {row \in VisibleConnections(w) : row.id = r.id}
    IN IF ~Allows("connections_list") \/ r.name \notin {"connections", "connection"} THEN NotFound
       ELSE IF r.name = "connections" THEN Reply("ok", VisibleConnections(w))
       ELSE IF rows = {} THEN NotFound ELSE Reply("ok", CHOOSE row \in rows : TRUE)

\* call, up to the tools that work on a connection.
CallAtOnce(w, r) ==
    CASE r.name = "to_table" -> ToolError("not available over MCP")
      [] r.name \notin Tools \cup {"to_table"} -> ToolError("unknown tool")
      [] r.name \in Tools /\ ~Allows(r.name) -> ToolError("outside scope")
      [] r.name = "db_drivers" /\ Allows(r.name) -> Reply("ok", "drivers")
      [] OTHER -> Reply("ok", VisibleConnections(w))

\* handle_line, for the requests that are answered without a connection's settings.
AnswerAtOnce(w, r) ==
    CASE r.method = "not json" -> Reply("-32700", "")
      [] r.method \in {"not an object", "no method"} -> Reply("-32600", "")
      [] r.method = "other" -> Reply("-32601", "")
      [] r.method = "notification" -> None
      [] r.method = "ping" -> Reply("ok", "")
      [] r.method = "initialize" -> Initialize(r)
      [] r.method = "tools/list" -> ListTools
      [] r.method = "prompts/list" -> ListPrompts
      [] r.method = "prompts/get" -> GetPrompt(r)
      [] r.method = "resources/list" -> Reply("ok", ResourcesOf(w))
      [] r.method = "resources/read" -> ReadResource(w, r)
      [] OTHER -> CallAtOnce(w, r)

\* read_connection_tool: a resource that the tool of its name answers, under the same gates.
ReadsThroughTool(r) ==
    /\ r.method = "resources/read" /\ r.name \in {"objects", "tables"}
    /\ Allows(r.name) /\ AllowsConnection(r.id)

\* call: the requests that go on to a connection.
NeedsConnection(r) ==
    \/ r.method = "tools/call" /\ r.name \in (TakesCatalog \cup TakesSql) /\ Allows(r.name)
    \/ ReadsThroughTool(r)

-----------------------------------------------------------------------------
(* A connection's settings.                                                *)

Refused(why) == [ok |-> FALSE, why |-> why, row |-> None, catalog |-> ""]

\* What the store and the arguments say of a connection the token may name.
Known(w, r) ==
    LET row == IF r.id \in Ids THEN store[w][r.id] ELSE None
        catalog == IF r.catalog = "own" /\ row # None THEN row.own ELSE r.catalog
    IN IF r.catalog = "\n" THEN Refused("not a valid name")
       ELSE IF row = None \/ row.deleted THEN Refused("was not found")
       ELSE IF row.kind = "postgres" /\ catalog # "" /\ row.own # "" /\ catalog # row.own
            THEN Refused("a database outside this token's scope")
       ELSE [ok |-> TRUE, why |-> "", row |-> row,
             catalog |-> IF catalog # "" THEN catalog ELSE row.own]

\* A slip: the row is looked up before the allowlist.
StoreFirst(w, r) ==
    LET known == Known(w, r)
    IN IF known.ok /\ ~AllowsConnection(r.id) THEN Refused("not allowed for this token") ELSE known

\* Server::resolve: the allowlist, before any database read.
Resolve(w, r) ==
    IF ~AllowsConnection(r.id) THEN Refused("not allowed for this token") ELSE Known(w, r)

\* secrets_for: only the items the row's options say are used.
SecretsFor(w, row, account) ==
    LET of(slot) == [account |-> account, slot |-> slot, gen |-> keychain[w][account]]
    IN [password |-> IF row.jwt THEN None ELSE of("password"),
        jwt |-> IF row.jwt THEN of("jwt") ELSE None,
        sshPassword |-> IF row.ssh = "password" THEN of("ssh-password") ELSE None,
        passphrase |-> IF row.ssh = "key" THEN of("ssh-passphrase") ELSE None]

\* statement_timeout_ms, in units of the default: 0 and nothing stored are the default.
Longest == 10
StatementTimeout(row) ==
    IF row.bound = 0 THEN 1 ELSE IF row.bound > Longest THEN Longest ELSE row.bound

\* transport_of and default_ssl_mode: a word nobody knows is clear text.
TransportOf(scheme) == IF scheme \in {"https", "prefer"} THEN scheme ELSE "http"
DefaultSslMode(kind) == IF kind = "postgres" THEN "prefer" ELSE "disable"

\* connection_environment: Trino's transport is a scheme unless it is `prefer`, and `prefer` is
\* never turned into a required connection by an unverified certificate.
ConnectionEnvironment(row) ==
    LET trino == row.kind = "trino"
        prefer == trino /\ TransportOf(row.scheme) = "prefer"
    IN [scheme |-> IF ~trino THEN "" ELSE IF prefer THEN "https"
                   ELSE IF row.scheme = "" THEN "http" ELSE row.scheme,
        sslmode |-> IF trino THEN (IF prefer THEN "prefer" ELSE "")
                    ELSE IF row.sslmode # "" THEN row.sslmode
                    ELSE DefaultSslMode(row.kind),
        insecure |-> ~prefer /\ ~row.verify]

\* A slip: the connection's own Safe Mode is used.
OwnMode == "full"
Mode == "read_only"

\* settings_for: every call is read-only, whatever the connection's own mode is.
SettingsFor(w, r) ==
    LET row == found[w].row
        secrets == SecretsFor(w, row, r.id)
    IN [id |-> r.id, kind |-> row.kind, host |-> row.host, database |-> found[w].catalog,
        env |-> ConnectionEnvironment(row), bound |-> StatementTimeout(row), ssh |-> row.ssh,
        secrets |-> secrets, mode |-> Mode]

\* RealEngine::connect: the tunnel's key passphrase is read from the settings of the engine, which
\* the server builds from its own environment, and not from those of the call.
Connect(s) == [s EXCEPT !.secrets.passphrase = None]

-----------------------------------------------------------------------------
(* The server.                                                             *)

NoRequest == Plain("none", "")

Init ==
    /\ token \in Tokens
    /\ store \in [Worlds -> [Ids -> Rows \cup {None}]]
    /\ \A i \in Ids : store[2][i] = IF AllowsConnection(i) THEN store[1][i] ELSE None
    /\ keychain = [w \in Worlds |-> [i \in Ids |-> 1]]
    /\ pc = "idle" /\ request = NoRequest
    /\ found = [w \in Worlds |-> Refused("none")]
    /\ settings = [w \in Worlds |-> None]
    /\ answer = [w \in Worlds |-> None] /\ sent = [w \in Worlds |-> None]
    /\ touched = FALSE /\ asked = 0 /\ edits = 0

\* serve reads a line.  A tools/call and a resources/read are a use of the token.
Ask(r) ==
    /\ pc = "idle" /\ asked < MaxAsked
    /\ asked' = asked + 1 /\ request' = r
    /\ touched' = (r.method \in {"tools/call", "resources/read"})
    /\ sent' = [w \in Worlds |-> None]
    /\ IF NeedsConnection(r)
       THEN pc' = "row" /\ answer' = [w \in Worlds |-> None]
       ELSE pc' = "idle" /\ answer' = [w \in Worlds |-> AnswerAtOnce(w, r)]
    /\ UNCHANGED <<token, store, keychain, found, settings, edits>>

\* A tool's refusal is a result; a resource's is an error.
Fail(r, why) == IF r.method = "tools/call" THEN ToolError(why) ELSE Reply("-32603", why)

ReadRow ==
    /\ pc = "row"
    /\ found' = [w \in Worlds |-> Resolve(w, request)]
    /\ IF found'[1].ok /\ found'[2].ok THEN pc' = "secrets" /\ UNCHANGED answer
       ELSE /\ pc' = "idle"
            /\ answer' = [w \in Worlds |-> IF found'[w].ok THEN None ELSE Fail(request, found'[w].why)]
    /\ UNCHANGED <<token, store, keychain, request, settings, sent, touched, asked, edits>>

\* describe_table and table_ddl need a database name on MySQL and Trino.
MissingTarget(w) ==
    /\ request.name \in {"describe_table", "table_ddl"}
    /\ found[w].row.kind # "postgres" /\ found[w].catalog = ""

ReadSecrets ==
    /\ pc = "secrets"
    /\ \/ /\ \A w \in Worlds : ~MissingTarget(w)
          /\ settings' = [w \in Worlds |-> SettingsFor(w, request)]
          /\ pc' = "run" /\ UNCHANGED answer
       \/ /\ pc' = "idle" /\ UNCHANGED settings   \* a slot left empty, or a Keychain that refuses
          /\ answer' = [w \in Worlds |-> Fail(request, IF MissingTarget(w) THEN "is required"
                                                       ELSE "could not read the secret")]
    /\ UNCHANGED <<token, store, keychain, request, found, sent, touched, asked, edits>>

\* run_tool: the engine's guard under the settings' mode, then the server.
RunTool ==
    /\ pc = "run"
    /\ LET passes(w) == ~(settings[w].mode = "read_only" /\ request.sql = "write")
       IN /\ sent' = [w \in Worlds |-> IF passes(w) THEN Connect(settings[w]) ELSE None]
          /\ \/ answer' = [w \in Worlds |->
                              IF passes(w) THEN Reply("ok", <<settings[w].host, settings[w].database>>)
                              ELSE Fail(request, "safe mode")]
             \/ answer' = [w \in Worlds |-> Fail(request, "the server's own error")]
    /\ pc' = "idle"
    /\ UNCHANGED <<token, store, keychain, request, found, settings, touched, asked, edits>>

\* The app saves, deletes or re-keys a connection.  One the token may name changes in both worlds.
Edited(id, w) == IF AllowsConnection(id) THEN Worlds ELSE {w}

Save(w, id, row) ==
    /\ edits < MaxEdits /\ edits' = edits + 1
    /\ store' = [x \in Worlds |-> IF x \in Edited(id, w) THEN [store[x] EXCEPT ![id] = row] ELSE store[x]]
    /\ UNCHANGED <<token, keychain, pc, request, found, settings, answer, sent, touched, asked>>

Delete(w, id) ==
    /\ edits < MaxEdits /\ edits' = edits + 1
    /\ Alive(w, id)
    /\ store' = [x \in Worlds |-> IF x \in Edited(id, w) THEN [store[x] EXCEPT ![id].deleted = TRUE]
                                  ELSE store[x]]
    /\ UNCHANGED <<token, keychain, pc, request, found, settings, answer, sent, touched, asked>>

Rekey(w, id) ==
    /\ edits < MaxEdits /\ edits' = edits + 1
    /\ keychain' = [x \in Worlds |-> IF x \in Edited(id, w) THEN [keychain[x] EXCEPT ![id] = 2]
                                     ELSE keychain[x]]
    /\ UNCHANGED <<token, store, pc, request, found, settings, answer, sent, touched, asked>>

Next ==
    \/ \E r \in Requests : Ask(r)
    \/ ReadRow \/ ReadSecrets \/ RunTool
    \/ \E w \in Worlds, id \in Ids : \/ \E row \in Rows : Save(w, id, row)
                                     \/ Delete(w, id) \/ Rekey(w, id)

Spec == Init /\ [][Next]_vars

-----------------------------------------------------------------------------
(* Properties.                                                             *)

TypeOK ==
    /\ token \in Tokens /\ pc \in {"idle", "row", "secrets", "run"} /\ request \in Requests \cup {NoRequest}
    /\ touched \in BOOLEAN /\ asked \in 0 .. MaxAsked /\ edits \in 0 .. MaxEdits

\* Nothing the server answers, and nothing it tells a database, depends on a connection the token
\* does not name: whatever is asked, in whatever order, while the app saves, deletes and re-keys
\* connections (mcp.rs, "a token cannot use an error message to discover which connection ids exist").
NothingOutside == answer[1] = answer[2] /\ sent[1] = sent[2]

\* What reaches a database server: a tool in scope, a connection in the allowlist, its own host and
\* account, never a statement that writes, always a bound, and on PostgreSQL no other database than
\* the one the row names (mcp.rs settings_for, "a token is not allowed to widen its own reach").
CallsConfined ==
    \A w \in Worlds : sent[w] # None =>
        LET s == sent[w]
        IN /\ Allows(request.name) /\ s.id \in token.allow /\ request.sql # "write"
           /\ s.bound \in 1 .. Longest
           /\ \A slot \in {"password", "jwt", "sshPassword"} :
                 s.secrets[slot] # None => s.secrets[slot].account = s.id
           /\ s.kind = "postgres" /\ found[w].row.own # "" => s.database = found[w].row.own
           /\ (s.kind = "trino" /\ s.env.sslmode = "prefer") => ~s.env.insecure

\* A tunnel that logs in with a key uses the passphrase the Keychain has for the connection, as
\* docs/architecture/blueprints/w11-metadata-and-connections.md:657 says of the app and of MCP.
PassphraseUsed ==
    \A w \in Worlds : sent[w] # None /\ sent[w].ssh = "key" => sent[w].secrets.passphrase # None
=============================================================================
