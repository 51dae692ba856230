------------------------------ MODULE Connect ------------------------------
(***************************************************************************)
(* From settings to a connection: crates/qh-ffi/src/config.rs (build),     *)
(* env.rs (the destination's own settings), tunnel.rs (settings,           *)
(* retarget), RealEngine::connect, and what the three drivers then do with *)
(* the configuration: the TLS mode, the roots and the name a certificate   *)
(* is checked against, the fall back to clear text, and, on Trino, which   *)
(* request may carry the credential.                                       *)
(*                                                                         *)
(* A URL stands as the parts Parsed::parse reads out of it.  The network   *)
(* is a database that has a certificate or none, may break a handshake,    *)
(* and may name any address as the next page.                              *)
(***************************************************************************)
EXTENDS Naturals, Sequences, FiniteSets

CONSTANTS
    Said,       \* families of settings: sets of [bare, DEST, write], bare and DEST a record of keys
    Servers,    \* the databases considered: [tls, issuer, names]; no certificate names the loopback
    MaxPages,   \* bound on the pages a coordinator answers with
    None

Kinds == {"trino", "postgres", "mysql"}
Loopback == "127.0.0.1"
Literals == {"10.0.0.1", Loopback}

VARIABLES
    said, server,   \* the settings and the database of this behaviour
    side,           \* "" for the only or the source connection, "DEST" for the destination
    pc,             \* "settings", "tunnel", "dial", "retry", "pages", "open", "failed"
    config,         \* the ConnectionConfig the driver is given
    clear,          \* the connection is now in clear text
    url,            \* on Trino, the address the next request goes to
    wire,           \* every credential that was sent: what, where to, and how
    pages

vars == <<said, server, side, pc, config, clear, url, wire, pages>>

-----------------------------------------------------------------------------
(* env.rs                                                                  *)

\* A setting that nobody set.
Unset == [kind |-> "", url |-> None, scheme |-> "", sslmode |-> "", host |-> "", port |-> None,
          password |-> "", jwt |-> "", insecure |-> FALSE, ca |-> "", ssh |-> None, safe |-> "",
          path |-> ""]

\* Settings::prefixed: the destination's own keys, and DB_PATH from the top level only.
Prefixed(s) == [s.DEST EXCEPT !.path = s.bare.path]

\* Settings::without_prefix
WithoutPrefix(s) == s.bare

\* Settings::destination: one DEST_ key is a request, and it has to name a connection and a Safe Mode.
HasPrefixed(s) == s.DEST # Unset
DestinationRefused(s) ==
    LET dest == Prefixed(s)
    IN \/ dest.kind = "" /\ dest.url = None
       \/ dest.safe \notin {"full", "read_only"}
       \/ s.write \in {"", "append", "odd"}

View(s, where) == IF where = "DEST" THEN Prefixed(s) ELSE WithoutPrefix(s)

-----------------------------------------------------------------------------
(* config.rs                                                               *)

KindOfScheme(scheme) ==
    CASE scheme \in {"postgres", "postgresql"} -> "postgres"
      [] scheme = "mysql" -> "mysql"
      [] OTHER -> "trino"

Or(base, override) == IF override = "" THEN base ELSE override
Optional(value) == IF value = "" THEN None ELSE value

\* Parsed::parse: a URL names a host, or it is no URL.
UrlRefused(u) == u # None /\ u.host = ""

\* from_url: a port that is not there is the engine's own, and only Trino's scheme means TLS.
FromUrl(u, kind) ==
    LET https == u.scheme = "https"
    IN [host |-> u.host,
        port |-> IF u.port # None THEN u.port
                 ELSE IF kind # "trino" THEN 0 ELSE IF https THEN 443 ELSE 8080,
        password |-> u.password,
        scheme |-> IF kind # "trino" THEN "" ELSE IF https THEN "https" ELSE "http",
        sslmode |-> u.sslmode]

\* pick: the DB_* parts, over a URL's where there is one (overridden_by).
Parts(s) ==
    LET u == s.url
        kind == IF s.kind # "" THEN s.kind ELSE IF u = None THEN "trino" ELSE KindOfScheme(u.scheme)
        base == IF u = None
                THEN [host |-> "", port |-> None, password |-> None, scheme |-> "", sslmode |-> ""]
                ELSE FromUrl(u, kind)
        password == IF s.password # "" THEN s.password ELSE base.password
        port == IF s.port # None THEN s.port ELSE base.port
    IN [kind |-> kind, host |-> Or(base.host, s.host), password |-> password,
        port |-> IF kind = "trino" /\ password # None /\ port = None THEN 443 ELSE port,
        scheme |-> Or(base.scheme, s.scheme), sslmode |-> Or(base.sslmode, s.sslmode)]

\* libpq's words; "none" is a mode nobody named.
NamedMode(p) ==
    CASE p.sslmode = "" -> "none"
      [] p.sslmode = "disable" -> "Disable"
      [] p.sslmode = "prefer" -> "Prefer"
      [] p.sslmode = "require" -> "RequireNoVerify"
      [] p.sslmode \in {"verify-ca", "verify-full"} -> "Require"
      [] OTHER -> "unknown"

\* DB_INSECURE drops the certificate check; it never turns TLS off.
Insecurely(s, mode) == IF s.insecure /\ mode # "Disable" THEN "RequireNoVerify" ELSE mode

\* The Trino half of into_config: sslmode, else the scheme, else a bearer token asks for TLS; a
\* password or a standard HTTPS port raises clear text.
TrinoMode(s, p) ==
    LET named == NamedMode(p)
        mode == IF named # "none" THEN named
                ELSE IF p.scheme = "https" \/ (s.jwt # "" /\ p.scheme = "") THEN "Require"
                ELSE "Disable"
    IN IF mode = "Disable" /\ (p.password # None \/ p.port \in {443, 8443}) THEN "Require" ELSE mode

\* into_config
Tls(s, p) ==
    Insecurely(s, IF p.kind = "trino" THEN TrinoMode(s, p)
                  ELSE IF NamedMode(p) = "none" THEN "Prefer" ELSE NamedMode(p))

Widest == 65535
PortOf(s, p) ==
    LET port == IF p.port = None THEN 0 ELSE p.port
    IN IF port > Widest THEN 0
       ELSE IF p.kind = "trino" /\ port = 0 THEN (IF Tls(s, p) = "Disable" THEN 8080 ELSE 443)
       ELSE port

\* tunnel::settings: SSH_HOST is the switch; an alias fills in the user and the key.
TunnelRefused(ssh) ==
    /\ ssh # None
    /\ \/ ssh.alias = "unknown"
       \/ ssh.user = "" /\ ssh.alias = ""
       \/ ssh.auth = "key" /\ ssh.key = "" /\ ssh.alias = ""
       \/ ssh.auth = "password" /\ ssh.password = ""
       \/ ssh.auth \notin {"agent", "key", "password"}
       \/ ssh.pin # "" /\ (ssh.pin = "odd" \/ ~ssh.app)

\* bearer and into_config: only for Trino, alone, and of a bearer token's shape; and never where it
\* could be clear.  TrinoDriver::connect refuses the same again.
BearerRefused(s, p) ==
    /\ s.jwt # ""
    /\ \/ p.kind # "trino" \/ p.password # None \/ s.jwt = "odd"
       \/ NamedMode(p) \in {"Disable", "Prefer"}
       \/ NamedMode(p) = "none" /\ p.scheme = "http"

\* ca_for_verifying_mode: a bundle is refused where it would be ignored.
CaRefused(s, p) ==
    s.ca # "" /\ (p.kind = "mysql" \/ s.ca = "bad" \/ Tls(s, p) # "Require" \/ s.insecure)

\* Everything build refuses, before the network is touched.
BuildRefused(s) ==
    LET p == Parts(s)
    IN \/ p.kind \notin Kinds
       \/ s.url = None /\ s.host = ""
       \/ UrlRefused(s.url)
       \/ p.kind = "trino" /\ p.scheme \notin {"", "http", "https"}
       \/ NamedMode(p) = "unknown"
       \/ BearerRefused(s, p) \/ CaRefused(s, p) \/ TunnelRefused(s.ssh)
       \/ s.ssh # None /\ p.kind = "mysql" /\ Tls(s, p) = "Require"

\* build
Build(s) ==
    LET p == Parts(s)
    IN [kind |-> p.kind, host |-> p.host, port |-> PortOf(s, p), password |-> p.password,
        bearer |-> Optional(s.jwt), tls |-> Tls(s, p), ca |-> Optional(s.ca), tunnel |-> s.ssh,
        name |-> None]

-----------------------------------------------------------------------------
(* tunnel.rs                                                               *)

LocalPort == 1
\* A slip: every host is named to the driver, an address too.
RetargetNamed(c) == [c EXCEPT !.name = IF c.kind = "mysql" THEN None ELSE c.host,
                              !.host = Loopback, !.port = LocalPort]

\* retarget: the driver is pointed at the tunnel's end, and told the name the certificate carries.
Retarget(c) ==
    [c EXCEPT !.name = IF c.kind = "postgres" \/ (c.kind = "trino" /\ c.host \notin Literals)
                       THEN c.host ELSE None,
              !.host = Loopback, !.port = LocalPort]

-----------------------------------------------------------------------------
(* The drivers.                                                            *)

\* Where a socket opened towards `host` ends: the resolver override sends the database's name to
\* the tunnel, and an address is never looked up.
Reaches(host) ==
    IF config.tunnel # None /\ (host = Loopback \/ (host = config.name /\ host \notin Literals))
    THEN [at |-> "database", via |-> "tunnel"]
    ELSE [at |-> IF host = Parts(View(said, side)).host THEN "database" ELSE "elsewhere",
          via |-> "direct"]

\* tokio-postgres dials hostaddr; the others dial what they are given.
Dialled == IF config.kind = "trino" THEN url.host ELSE config.host

\* The name and the roots a certificate is checked against.
CheckedName == IF config.name = None THEN config.host ELSE config.name
Roots ==
    IF config.ca # None THEN {"private"} ELSE IF config.kind = "mysql" THEN {"public"}
    ELSE {"public", "corporate"}

\* connector_for, ssl_opts, build_client: only Require verifies.
Verifies == config.tls = "Require"
HandshakeHolds ==
    /\ server.tls = "yes"
    /\ Verifies => server.issuer \in Roots /\ CheckedName \in server.names

Secret == IF config.bearer # None THEN config.bearer ELSE config.password

\* ssl_mode's Prefer, may_fall_back and Trino's reserve client: in clear only when the server has no
\* TLS to speak, and on Trino only for a session without a secret.
MayFallBack == config.tls = "Prefer" /\ (config.kind = "trino" => Secret = None)

Send(secret) ==
    IF secret = None THEN wire
    ELSE wire \cup {[secret |-> secret, at |-> Reaches(Dialled).at, via |-> Reaches(Dialled).via,
                     clear |-> IF config.kind = "trino" THEN url.scheme = "http" ELSE clear]}

-----------------------------------------------------------------------------
(* Steps.                                                                  *)

Init ==
    /\ (\E f \in DOMAIN Said : said \in Said[f]) /\ server \in Servers
    /\ side = "" /\ pc = "settings" /\ config = None /\ clear = FALSE /\ url = None
    /\ wire = {} /\ pages = 0

\* build, and the base address of a Trino session (scheme_for, authority): no request is sent yet.
Configure(where) ==
    /\ pc = "settings" /\ side' = where
    /\ where = "DEST" <=> HasPrefixed(said)
    /\ LET s == View(said, where)
       IN IF (where = "DEST" /\ DestinationRefused(said)) \/ BuildRefused(s)
          THEN pc' = "failed" /\ UNCHANGED config
          ELSE /\ config' = Build(s)
               /\ pc' = IF s.ssh = None THEN "dial" ELSE "tunnel"
    /\ UNCHANGED <<said, server, clear, url, wire, pages>>

\* tunnel::open, then retarget.  The bastion's key is accepted or refused (see HostKeys).
OpenTunnel ==
    /\ pc = "tunnel"
    /\ \/ /\ pc' = "dial" /\ config' = Retarget(config)
          /\ wire' = IF config.tunnel.auth # "password" THEN wire
                     ELSE wire \cup {[secret |-> config.tunnel.password, at |-> "bastion",
                                      via |-> "direct", clear |-> FALSE]}
       \/ pc' = "failed" /\ UNCHANGED <<config, wire>>
    /\ UNCHANGED <<said, server, side, clear, url, pages>>

\* The base of a Trino session, and the origin its credentials belong to.
Base == [scheme |-> IF config.tls = "Disable" THEN "http" ELSE "https",
         host |-> CheckedName, port |-> config.port]

\* The first attempt, in the mode's own terms.
FirstAttempt ==
    /\ \/ /\ config.tls = "Disable" /\ clear' = TRUE /\ pc' = "login"
       \/ /\ config.tls # "Disable" /\ HandshakeHolds /\ pc' = "login" /\ UNCHANGED clear
       \/ /\ config.tls # "Disable" /\ server.tls = "none"
          /\ pc' = IF MayFallBack THEN "retry" ELSE "failed"
          /\ UNCHANGED clear
       \/ /\ config.tls # "Disable" /\ ~HandshakeHolds /\ server.tls # "none"
          /\ pc' = "failed" /\ UNCHANGED clear
    /\ UNCHANGED <<said, server, side, config, url, wire, pages>>

\* connect_bounded and open: tokio-postgres asks for TLS on the socket it then uses.
PostgresDial == pc = "dial" /\ config.kind = "postgres" /\ FirstAttempt

\* connect_within: the options of the attempt that worked are the session's from then on.
MysqlDial == pc = "dial" /\ config.kind = "mysql" /\ FirstAttempt

\* The server said it has no TLS: once more, in clear.
DialInClear ==
    /\ pc = "retry" /\ config.kind # "trino"
    /\ pc' = "login" /\ clear' = TRUE
    /\ UNCHANGED <<said, server, side, config, url, wire, pages>>

Login ==
    /\ pc = "login"
    /\ pc' = "open" /\ wire' = Send(config.password)
    /\ UNCHANGED <<said, server, side, config, clear, url, pages>>

\* A socket, a handshake or a login that is not finished in time, or is turned down.
GiveUp ==
    /\ pc \in {"dial", "retry", "login"}
    /\ pc' = "failed"
    /\ UNCHANGED <<said, server, side, config, clear, url, wire, pages>>

\* Trino's connect: no socket, only the client and the base.
TrinoConnect ==
    /\ pc = "dial" /\ config.kind = "trino"
    /\ pc' = "pages" /\ url' = Base
    /\ UNCHANGED <<said, server, side, config, clear, wire, pages>>

\* Credentials::refusal_for: a secret goes only to the session's own origin, a token only over https.
SameOrigin(u) == u = Base
MayCarry(u) ==
    Secret # None =>
        /\ SameOrigin(u)
        /\ config.bearer # None => u.scheme = "https"

\* Where a coordinator may send the client next.
PageUrls == {Base, [Base EXCEPT !.scheme = "http"], [Base EXCEPT !.host = "elsewhere"]}

\* authorized, and the answer: a page, a redirect, or nothing more.
Request ==
    /\ pc = "pages" /\ MayCarry(url)
    /\ url.scheme = "http" \/ HandshakeHolds
    /\ wire' = Send(Secret)
    /\ \/ /\ pages < MaxPages /\ pages' = pages + 1
          /\ \E u \in PageUrls : url' = u     \* nextUri; or a redirect, which no secret follows
          /\ pc' = "pages"
       \/ pc' = "open" /\ UNCHANGED <<url, pages>>
    /\ UNCHANGED <<said, server, side, config, clear>>

\* not_a_tls_server: the reserve client, on the same authority.
RequestInClear ==
    /\ pc = "pages" /\ pages = 0 /\ ~clear
    /\ url.scheme = "https" /\ server.tls = "none" /\ MayFallBack
    /\ clear' = TRUE /\ url' = [url EXCEPT !.scheme = "http"]
    /\ UNCHANGED <<said, server, side, pc, config, wire, pages>>

\* A handshake that broke, a certificate nobody vouches for, a request that may not carry the secret.
RequestFails ==
    /\ pc = "pages"
    /\ ~MayCarry(url) \/ (url.scheme = "https" /\ ~HandshakeHolds)
    /\ pc' = "failed"
    /\ UNCHANGED <<said, server, side, config, clear, url, wire, pages>>

Next ==
    \/ \E where \in {"", "DEST"} : Configure(where)
    \/ OpenTunnel \/ PostgresDial \/ MysqlDial \/ DialInClear \/ Login \/ GiveUp
    \/ TrinoConnect \/ Request \/ RequestInClear \/ RequestFails

Spec == Init /\ [][Next]_vars

-----------------------------------------------------------------------------
(* Properties.                                                             *)

TypeOK ==
    /\ server \in Servers /\ side \in {"", "DEST"}
    /\ pc \in {"settings", "tunnel", "dial", "retry", "login", "pages", "open", "failed"}
    /\ clear \in BOOLEAN /\ pages \in 0 .. MaxPages

\* What the person asked for, read off the settings and not off the configuration.
Asked == IF side = "DEST" THEN said.DEST ELSE said.bare
AskedWord ==
    IF Asked.sslmode # "" THEN Asked.sslmode ELSE IF Asked.url # None THEN Asked.url.sslmode ELSE ""
AskedHost == IF Asked.host # "" THEN Asked.host ELSE Asked.url.host
AskedVerified == AskedWord \in {"verify-ca", "verify-full"} /\ ~Asked.insecure
OwnSecrets ==
    {Asked.password, Asked.jwt}
    \cup (IF Asked.url = None THEN {} ELSE {Asked.url.password})
    \cup (IF Asked.ssh = None THEN {} ELSE {Asked.ssh.password})

\* Every credential that leaves is the connection's own, reaches the host its settings name and no
\* other, through the bastion when one is named, never in clear text where the settings ask for TLS
\* or the server is Trino, and, where they ask for a certificate to be checked, only a server that
\* the chosen CA (or the platform) vouches for under the name the settings give: through the
\* tunnel's rewriting, the fall back of `prefer`, DB_INSECURE, and pages on other addresses.
SecretsGuarded ==
    \A m \in wire :
        /\ m.secret \in OwnSecrets
        /\ m.at # "bastion" =>
            /\ m.at = "database" /\ (Asked.ssh # None => m.via = "tunnel")
            /\ m.clear =>
                /\ config.kind # "trino" /\ AskedWord \in {"", "prefer", "disable"}
                /\ Asked.insecure => AskedWord = "disable"
            /\ AskedVerified \/ Asked.ca # "" =>
                /\ server.tls = "yes" /\ AskedHost \in server.names
                /\ server.issuer \in IF Asked.ca # "" THEN {"private"} ELSE {"public", "corporate"}
=============================================================================
