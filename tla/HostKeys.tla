------------------------------ MODULE HostKeys ------------------------------
(***************************************************************************)
(* How a tunnel comes to trust a bastion's host key (crates/qh-tunnel,     *)
(* tunnel.rs and known_hosts.rs).  The caller of Tunnel::open and the SSH  *)
(* session russh runs for it are two tasks: the session checks the key     *)
(* against the files while the caller may give up, another process may     *)
(* append to the app's file, and a person may edit every file.             *)
(***************************************************************************)
EXTENDS Naturals

CONSTANTS
    Attempts,   \* calls of Tunnel::open, of this process or of another one
    Keys,       \* keys the bastion may present
    MaxEvents,  \* bound: calls, and edits of the files by a person, in a behaviour
    None

VARIABLES
    user,      \* lines for this host in the person's file
    system,    \* lines for it in the system's file
    app,       \* lines for this host in the app's own file
    broken,    \* the app's file has a line that does not parse
    att,       \* the attempts
    recorded,  \* keys that have stood whole on a line of some file (history)
    events     \* calls and edits so far

vars == <<user, system, app, broken, att, recorded, events>>

Line(mark, k) == [mark |-> mark, key |-> k]
Lines == {Line(m, k) : m \in {"host", "revoked"}, k \in Keys} \cup {Line("ca", None)}
HostKeysOf(lines) == {l.key : l \in {m \in lines : m.mark = "host"}}
RevokedOf(lines) == {l.key : l \in {m \in lines : m.mark = "revoked"}}

\* HostKeyPolicy: what to do with a key no file has.
Policies == {[kind |-> "Strict", pin |-> None]}
            \cup {[kind |-> t, pin |-> k] : t \in {"TrustNew", "TrustFingerprint"}, k \in Keys}

Idle == [caller |-> "off", session |-> "none", policy |-> [kind |-> "Strict", pin |-> None],
         key |-> None, read |-> {}, verified |-> FALSE, abandoned |-> FALSE,
         revoked |-> [user |-> {}, system |-> {}, app |-> {}]]

TypeOK ==
    /\ user \subseteq Lines /\ system \subseteq Lines /\ app \subseteq Lines /\ broken \in BOOLEAN
    /\ recorded \subseteq Keys /\ events \in Nat
    /\ \A a \in Attempts :
         /\ att[a].caller \in {"off", "waiting", "auth", "open", "failed"}
         /\ att[a].session \in {"none", "kex", "user", "system", "app", "absent", "write",
                               "decided", "dead"}
         /\ att[a].policy \in Policies /\ att[a].key \in Keys \cup {None}
         /\ att[a].read \subseteq Lines
         /\ att[a].revoked \in [user : SUBSET Keys, system : SUBSET Keys, app : SUBSET Keys]

Init ==
    /\ user \in {{}} \cup {{Line("host", k)} : k \in Keys}
    /\ system \in {{}, {Line("ca", None)}}
    /\ app = {} /\ broken = FALSE
    /\ att = [a \in Attempts |-> Idle]
    /\ recorded = HostKeysOf(user)
    /\ events = 0

-----------------------------------------------------------------------------
(* The caller: Tunnel::open, connect_verified, authenticate.               *)

\* recorded_key_types reads the files before the network is touched, and a broken one ends the call.
Open(a, policy) ==
    /\ att[a].caller = "off" /\ att[a].session = "none" /\ events < MaxEvents
    /\ events' = events + 1
    /\ att' = [att EXCEPT ![a] = [Idle EXCEPT !.caller = IF broken THEN "failed" ELSE "waiting",
                                              !.session = IF broken THEN "dead" ELSE "kex",
                                              !.policy = policy,
                                              !.revoked = [user |-> RevokedOf(user),
                                                           system |-> RevokedOf(system),
                                                           app |-> RevokedOf(app)]]]
    /\ UNCHANGED <<user, system, app, broken, recorded>>

\* connect_timeout passes: the session task goes on, and is told.
Timeout(a) ==
    /\ att[a].caller = "waiting"
    /\ att' = [att EXCEPT ![a].caller = "failed", ![a].abandoned = TRUE]
    /\ UNCHANGED <<user, system, app, broken, recorded, events>>

\* The handshake is over; require_verified, and only then authenticate.
Connected(a) ==
    /\ att[a].caller = "waiting" /\ att[a].session \in {"decided", "dead"}
    /\ att' = [att EXCEPT ![a].caller =
                  IF att[a].session = "decided" /\ att[a].verified THEN "auth" ELSE "failed"]
    /\ UNCHANGED <<user, system, app, broken, recorded, events>>

Authenticated(a) ==
    /\ att[a].caller = "auth"
    /\ \E ok \in BOOLEAN :
          att' = [att EXCEPT ![a].caller = IF ok /\ att[a].session = "decided"
                                            THEN "open" ELSE "failed",
                             ![a].session = IF ok THEN @ ELSE "dead"]
    /\ UNCHANGED <<user, system, app, broken, recorded, events>>

\* Tunnel::close and drop; a failed call whose session is over; the process dies.
Gone(a) ==
    /\ att[a].caller # "off"
    /\ att' = [att EXCEPT ![a] = Idle]
    /\ UNCHANGED <<user, system, app, broken, recorded, events>>

\* A key is accepted; a session that is over keeps nothing of what it read and decided.
Accepted(at) == [at EXCEPT !.session = "decided", !.verified = TRUE]
Over(at) == [Idle EXCEPT !.caller = at.caller, !.session = "dead"]

-----------------------------------------------------------------------------
(* The session: HostKeyVerifier, one step per file it reads or writes.     *)

\* decide: nothing is decided for a caller that has gone.
KeyArrives(a, k) ==
    /\ att[a].session = "kex"
    /\ att' = [att EXCEPT ![a] = IF @.abandoned THEN Over(@)
                                 ELSE [@ EXCEPT !.key = k, !.session = "user"]]
    /\ UNCHANGED <<user, system, app, broken, recorded, events>>

\* A certificate, the `none` exchange (kex_done), or a connection that breaks.
SessionLost(a) ==
    /\ att[a].session \in {"kex", "decided"}
    /\ att' = [att EXCEPT ![a] = IF @.session = "kex" THEN Over(@)
                                 ELSE [@ EXCEPT !.session = "dead"]]
    /\ UNCHANGED <<user, system, app, broken, recorded, events>>

\* check_all reads one file after another: the person's first, then the system's.
ReadUser(a) ==
    /\ att[a].session = "user"
    /\ att' = [att EXCEPT ![a].read = user, ![a].session = "system"]
    /\ UNCHANGED <<user, system, app, broken, recorded, events>>

ReadSystem(a) ==
    /\ att[a].session = "system"
    /\ att' = [att EXCEPT ![a].read = @ \cup system, ![a].session = "app"]
    /\ UNCHANGED <<user, system, app, broken, recorded, events>>

\* Scan::finish: a revocation beats a match, wherever either stands.
Verdict(lines, k) ==
    IF k \in RevokedOf(lines) THEN "Revoked"
    ELSE IF k \in HostKeysOf(lines) THEN "Matched"
    ELSE IF HostKeysOf(lines) # {} THEN "Mismatch"
    ELSE IF Line("ca", None) \in lines THEN "Covered" ELSE "Unknown"

\* decide_unknown: where the session goes with a key no file has.
Unknown(policy, k) ==
    IF policy.pin # k \/ policy.kind = "Strict" THEN "dead"
    ELSE IF policy.kind = "TrustNew" THEN "decided" ELSE "absent"

\* The app's file last, and the verdict on all of them.
ReadApp(a) ==
    /\ att[a].session = "app"
    /\ LET at == att[a]
           verdict == Verdict(at.read \cup app, at.key)
           next == IF broken THEN "dead"
                   ELSE IF verdict = "Matched" THEN "decided"
                   ELSE IF verdict = "Unknown" THEN Unknown(at.policy, at.key) ELSE "dead"
       IN att' = [att EXCEPT ![a] = IF next = "dead" THEN Over(at)
                                    ELSE [at EXCEPT !.session = next, !.read = {},
                                                    !.verified = (next = "decided")]]
    /\ UNCHANGED <<user, system, app, broken, recorded, events>>

\* append_if_absent reads the file once more; a broken one is not appended to.
AppendRead(a) ==
    /\ att[a].session = "absent"
    /\ att' = [att EXCEPT ![a] = IF broken THEN Over(@)
                                 ELSE IF @.key \in HostKeysOf(app) THEN Accepted(@)
                                 ELSE [@ EXCEPT !.session = "write"]]
    /\ UNCHANGED <<user, system, app, broken, recorded, events>>

\* Record first, accept second.
AppendLine(a) ==
    /\ att[a].session = "write"
    /\ app' = app \cup {Line("host", att[a].key)}
    /\ recorded' = recorded \cup {att[a].key}
    /\ att' = [att EXCEPT ![a] = Accepted(@)]
    /\ UNCHANGED <<user, system, broken, events>>

\* Mutant of AppendFails: a key that could not be recorded is accepted.
AppendFailsAccepts(a) ==
    /\ att[a].session = "write"
    /\ broken' \in {broken, TRUE}
    /\ att' = [att EXCEPT ![a] = Accepted(@)]
    /\ UNCHANGED <<user, system, app, recorded, events>>

\* The write fails, with nothing or a part of the line on disk (HostKeyRecordFailed).
AppendFails(a) ==
    /\ att[a].session = "write"
    /\ broken' \in {broken, TRUE}
    /\ att' = [att EXCEPT ![a] = Over(@)]
    /\ UNCHANGED <<user, system, app, recorded, events>>

-----------------------------------------------------------------------------
(* People edit the files, with ssh-keygen or an editor.                    *)

Edit ==
    /\ events < MaxEvents
    /\ events' = events + 1
    /\ \/ \E l \in Lines \ {Line("ca", None)} :
            \/ user' \in {user \cup {l}, user \ {l}} /\ UNCHANGED <<system, app, broken>>
            \/ system' \in {system \cup {l}, system \ {l}} /\ UNCHANGED <<user, app, broken>>
       \/ \E k \in Keys : app' = app \cup {Line("revoked", k)} /\ UNCHANGED <<user, system, broken>>
       \/ app' = {} /\ broken' = FALSE /\ UNCHANGED <<user, system>>
    /\ recorded' = recorded \cup HostKeysOf(user') \cup HostKeysOf(system')
    /\ att' = [a \in Attempts |->
                 [att[a] EXCEPT !.revoked = [user |-> @.user \cap RevokedOf(user'),
                                             system |-> @.system \cap RevokedOf(system'),
                                             app |-> @.app \cap RevokedOf(app')]]]

Next ==
    \/ Edit
    \/ \E a \in Attempts :
         \/ \E p \in Policies : Open(a, p)
         \/ Timeout(a) \/ Connected(a) \/ Authenticated(a) \/ Gone(a)
         \/ \E k \in Keys : KeyArrives(a, k)
         \/ SessionLost(a) \/ ReadUser(a) \/ ReadSystem(a) \/ ReadApp(a)
         \/ AppendRead(a) \/ AppendLine(a) \/ AppendFails(a)

Spec == Init /\ [][Next]_vars

-----------------------------------------------------------------------------

\* Credentials go only to a key that has stood on a whole line of some file or is the one the caller
\* named (tunnel.rs, "Record first, accept second: no authentication goes to a key that is not on
\* record"), and never to a key whose revocation has stood in one of the files ever since the call
\* began: whatever other attempts append, whatever a write leaves half done, whatever people edit
\* meanwhile.  One that is moved from a file not yet read to a file already read may be seen in
\* neither; nothing is said of it.
AuthOnRecord ==
    \A a \in Attempts : att[a].caller \in {"auth", "open"} =>
        /\ att[a].key \in recorded \/ att[a].policy = [kind |-> "TrustNew", pin |-> att[a].key]
        /\ \A file \in {"user", "system", "app"} : att[a].key \notin att[a].revoked[file]
=============================================================================
