----------------------------- MODULE MCAppStore -----------------------------
(***************************************************************************)
(* What the app keeps and what it reads before it connects, each on its    *)
(* own bounds: the local database (AppStore), the MCP server over it       *)
(* (McpServer), and the way from settings to a connection (Connect).       *)
(* `part` says which of them this behaviour is about; the others stay at   *)
(* one of their initial states.                                            *)
(***************************************************************************)
EXTENDS AppStore, TLC

CONSTANTS
    SavedRows,      \* the connections a person may have saved
    GivenTokens,    \* the tokens a server may have been started with
    McpAsked,       \* bound: requests
    McpEdits,       \* bound: what the app changes meanwhile
    GivenSettings,  \* the families of settings a connection may be made of
    KnownServers,   \* the databases it may meet
    ConnectPages    \* bound: pages a coordinator answers with

RowType ==
    [kind : {"postgres", "mysql", "trino"}, host : STRING, own : STRING, scheme : STRING,
     sslmode : STRING, verify : BOOLEAN, jwt : BOOLEAN, ssh : STRING, bound : Nat,
     deleted : BOOLEAN]

ASSUME McpAssumption == None \notin SavedRows /\ SavedRows \subseteq RowType

UrlType ==
    [scheme : STRING, host : STRING, port : Nat \cup {None}, password : STRING \cup {None},
     sslmode : STRING]
BastionType ==
    [auth : STRING, password : STRING, key : STRING, user : STRING, alias : STRING, pin : STRING,
     app : BOOLEAN]
SettingsType ==
    [kind : STRING, url : UrlType \cup {None}, scheme : STRING, sslmode : STRING, host : STRING,
     port : Nat \cup {None}, password : STRING, jwt : STRING, insecure : BOOLEAN, ca : STRING,
     ssh : BastionType \cup {None}, safe : STRING, path : STRING]
SaidType == [bare : SettingsType, DEST : SettingsType, write : STRING]

ASSUME ConnectAssumption ==
    /\ None \notin STRING \cup UrlType \cup BastionType
    /\ \A f \in DOMAIN GivenSettings : GivenSettings[f] \subseteq SaidType
    /\ \A d \in KnownServers : "127.0.0.1" \notin d.names

VARIABLES
    part,
    mcToken, mcStore, mcKeychain, mcPc, mcRequest, mcFound, mcSettings, mcAnswer, mcSent,
    mcTouched, mcAsked, mcEdits,
    cnSaid, cnServer, cnSide, cnPc, cnConfig, cnClear, cnUrl, cnWire, cnPages

mcVars == <<mcToken, mcStore, mcKeychain, mcPc, mcRequest, mcFound, mcSettings, mcAnswer, mcSent,
            mcTouched, mcAsked, mcEdits>>
cnVars == <<cnSaid, cnServer, cnSide, cnPc, cnConfig, cnClear, cnUrl, cnWire, cnPages>>

-----------------------------------------------------------------------------
(* The MCP server: four kinds of connection, and a token of every reach.   *)

SavedRow(kind, own, scheme, ssl, verify, jwt, ssh, bound) ==
    [kind |-> kind, host |-> kind, own |-> own, scheme |-> scheme, sslmode |-> ssl,
     verify |-> verify, jwt |-> jwt, ssh |-> ssh, bound |-> bound, deleted |-> FALSE]
FourKinds ==
    {SavedRow("postgres", "own", "", "", TRUE, FALSE, "password", 0),
     SavedRow("postgres", "", "", "require", FALSE, FALSE, "none", 20),
     SavedRow("trino", "", "prefer", "", FALSE, TRUE, "key", 5),
     SavedRow("mysql", "own", "", "", TRUE, FALSE, "agent", 1)}
EveryTool ==
    {"db_drivers", "connections_list", "objects", "tables", "columns", "preview", "count",
     "explain", "export_to_file", "describe_table", "table_ddl"}
ThreeReaches ==
    {[scopes |-> EveryTool, allow |-> {"mine", "bogus"}],
     [scopes |-> {"objects", "explain", "columns"}, allow |-> {"mine"}],
     [scopes |-> EveryTool, allow |-> {}]}

Mc == INSTANCE McpServer WITH
    Rows <- SavedRows, Tokens <- GivenTokens, MaxAsked <- McpAsked, MaxEdits <- McpEdits,
    token <- mcToken, store <- mcStore, keychain <- mcKeychain, pc <- mcPc,
    request <- mcRequest, found <- mcFound, settings <- mcSettings, answer <- mcAnswer,
    sent <- mcSent, touched <- mcTouched, asked <- mcAsked, edits <- mcEdits

-----------------------------------------------------------------------------
(* Settings: what a form gives, what a URL gives, what is refused, the ways to a bastion, and a      *)
(* destination beside its source.                                                                    *)

Blank == [kind |-> {""}, url |-> {None}, scheme |-> {""}, sslmode |-> {""}, host |-> {""},
          port |-> {None}, password |-> {""}, jwt |-> {""}, insecure |-> {FALSE}, ca |-> {""},
          ssh |-> {None}, safe |-> {""}, path |-> {""}]
Of(g) == [kind : g.kind, url : g.url, scheme : g.scheme, sslmode : g.sslmode, host : g.host,
          port : g.port, password : g.password, jwt : g.jwt, insecure : g.insecure, ca : g.ca,
          ssh : g.ssh, safe : g.safe, path : g.path]
Bastions ==
    [auth : {"agent", "key", "password", "odd"}, password : {"", "ssh"}, key : {""},
     user : {"", "u"}, alias : {"", "found", "unknown"}, pin : {"", "pin", "odd"}, app : BOOLEAN]
Bastion == [auth |-> "password", password |-> "ssh", key |-> "", user |-> "", alias |-> "found",
            pin |-> "", app |-> FALSE]
ByParts ==
    [Blank EXCEPT !.kind = {"trino", "postgres", "mysql"}, !.scheme = {"", "http", "https"},
        !.sslmode = {"", "disable", "prefer", "require", "verify-full"},
        !.host = {"db", "10.0.0.1"}, !.port = {None, 443}, !.password = {"", "pw"},
        !.jwt = {"", "jwt"}, !.insecure = BOOLEAN, !.ca = {"", "ca"}, !.ssh = {None, Bastion}]
Urls == [scheme : {"http", "https", "postgres", "mysql"}, host : {"", "db"}, port : {None, 70000},
         password : {None, "", "pw"}, sslmode : {"", "require", "disable"}]
ByUrl == [Blank EXCEPT !.kind = {"", "postgres"}, !.url = Urls, !.sslmode = {"", "verify-full"},
             !.host = {"", "db2"}, !.password = {"", "pw2"}, !.jwt = {"", "jwt"}]
Odd == [Blank EXCEPT !.kind = {"odd", "trino", "postgres"}, !.host = {"", "db"},
            !.scheme = {"", "odd"}, !.jwt = {"", "odd"}, !.ca = {"", "bad"},
            !.sslmode = {"verify-ca", "odd"}]
ByAlias == [Blank EXCEPT !.kind = {"postgres"}, !.host = {"db"}, !.ssh = Bastions]
Source == [Blank EXCEPT !.kind = {"postgres"}, !.host = {"src"}, !.password = {"srcpw"}]
Dests == [Blank EXCEPT !.kind = {"", "mysql"}, !.host = {"db"}, !.password = {"", "pw"},
              !.safe = {"", "odd", "full"}, !.path = {"elsewhere"}]
Nowhere ==
    [kind |-> "", url |-> None, scheme |-> "", sslmode |-> "", host |-> "", port |-> None,
     password |-> "", jwt |-> "", insecure |-> FALSE, ca |-> "", ssh |-> None, safe |-> "",
     path |-> ""]
One(g) == [bare : Of(g), DEST : {Nowhere}, write : {"create"}]
Families ==
    <<One(ByParts), One(ByUrl), One(Odd), One(ByAlias),
      [bare : Of(Source), DEST : Of(Dests), write : {"create", "replace", "append", ""}]>>
Database(tls, issuer, names) == [tls |-> tls, issuer |-> issuer, names |-> names]
Databases ==
    {Database("none", "", {}), Database("broken", "", {}),
     Database("yes", "public", {"db", "10.0.0.1"}), Database("yes", "private", {"db", "10.0.0.1"}),
     Database("yes", "corporate", {"db", "10.0.0.1"}), Database("yes", "public", {"other"})}

Cn == INSTANCE Connect WITH
    Said <- GivenSettings, Servers <- KnownServers, MaxPages <- ConnectPages,
    said <- cnSaid, server <- cnServer, side <- cnSide, pc <- cnPc, config <- cnConfig,
    clear <- cnClear, url <- cnUrl, wire <- cnWire, pages <- cnPages

-----------------------------------------------------------------------------

Parts == {"store", "mcp", "connect"}

AppInit ==
    /\ part \in Parts
    /\ Init /\ (part # "store" => table = "saved_query")
    /\ IF part = "mcp" THEN Mc!Init
       ELSE /\ mcToken = None /\ mcStore = None /\ mcKeychain = None /\ mcPc = "idle"
            /\ mcRequest = None /\ mcFound = None /\ mcSettings = None /\ mcAnswer = None
            /\ mcSent = None /\ mcTouched = FALSE /\ mcAsked = 0 /\ mcEdits = 0
    /\ IF part = "connect" THEN Cn!Init
       ELSE /\ cnSaid = None /\ cnServer = None /\ cnSide = "" /\ cnPc = "settings"
            /\ cnConfig = None /\ cnClear = FALSE /\ cnUrl = None /\ cnWire = {} /\ cnPages = 0

StoreStep == part = "store" /\ Next /\ UNCHANGED <<part, mcVars, cnVars>>
McpStep == part = "mcp" /\ Mc!Next /\ UNCHANGED <<part, vars, cnVars>>
ConnectStep == part = "connect" /\ Cn!Next /\ UNCHANGED <<part, vars, mcVars>>
AppNext == StoreStep \/ McpStep \/ ConnectStep

AppVars == <<part, vars, mcVars, cnVars>>

AppSpec == AppInit /\ [][AppNext]_AppVars

Symmetric == Permutations(Host) \cup Permutations(FileRows)

-----------------------------------------------------------------------------
(* The components' properties under their own names.                       *)

\* Nothing the MCP server answers, and nothing it tells a database, depends on a connection the
\* token does not name: whatever is asked while the app saves, deletes and re-keys connections
\* (mcp.rs, "a token cannot use an error message to discover which connection ids exist").  And what
\* reaches a database through it: a tool in scope, a connection in the allowlist, its own host and
\* account, never a statement that writes, always a bound, and on PostgreSQL no other database than
\* the row names (mcp.rs settings_for, resolve).
McpConfined == part = "mcp" => Mc!NothingOutside /\ Mc!CallsConfined

\* A tunnel that logs in with a key uses the passphrase the Keychain has for the connection, as
\* docs/architecture/blueprints/w11-metadata-and-connections.md:657 says of the app and of MCP.
PassphraseUsed == part = "mcp" => Mc!PassphraseUsed

\* Every credential that leaves is the connection's own, reaches the host its settings name and no
\* other, through the bastion when one is named, never in clear where TLS was asked for, and, where
\* a certificate is to be checked, only a server the chosen CA vouches for under that name: through
\* the tunnel's rewriting, the fall back of `prefer`, DB_INSECURE, and pages on other addresses
\* (config.rs build, tunnel.rs retarget, the drivers' connect).
SecretsGuarded == part = "connect" => Cn!SecretsGuarded
=============================================================================
