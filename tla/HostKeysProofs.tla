--------------------------- MODULE HostKeysProofs ----------------------------
(***************************************************************************)
(* No credential goes to a key off the record, for every number of calls,  *)
(* keys and edits.  What makes it inductive: an attempt that has read a    *)
(* file still holds every revocation it found there that stands, an        *)
(* attempt about to append has found no revocation at all, and an attempt  *)
(* that has verified nothing has handed out nothing.                       *)
(***************************************************************************)
EXTENDS HostKeys, TLAPS

Attempt == [caller : {"off", "waiting", "auth", "open", "failed"},
            session : {"none", "kex", "user", "system", "app", "absent", "write", "decided", "dead"},
            policy : Policies, key : Keys \cup {None}, read : SUBSET Lines,
            verified : BOOLEAN, abandoned : BOOLEAN,
            revoked : [user : SUBSET Keys, system : SUBSET Keys, app : SUBSET Keys]]

\* The shape of the state, with the attempts as records.
ShapeOK ==
    /\ user \subseteq Lines /\ system \subseteq Lines /\ app \subseteq Lines /\ broken \in BOOLEAN
    /\ recorded \subseteq Keys /\ events \in Nat
    /\ att \in [Attempts -> Attempt]

\* What the files say is on the record.
FilesOK ==
    /\ HostKeysOf(user) \subseteq recorded
    /\ HostKeysOf(system) \subseteq recorded
    /\ HostKeysOf(app) \subseteq recorded

\* The key of an attempt may be trusted.
OnRecord(at) ==
    \/ at.key \in recorded
    \/ at.policy = [kind |-> "TrustNew", pin |-> at.key]

NotRevoked(at) == at.key \notin at.revoked.user \cup at.revoked.system \cup at.revoked.app

\* One attempt, wherever its session and its caller are.
AttemptOK(at) ==
    /\ at.revoked.user \subseteq RevokedOf(user)
    /\ at.revoked.app \subseteq RevokedOf(app)
    /\ at.revoked.system \subseteq RevokedOf(system)
    /\ at.session \in {"system", "app"} => /\ at.revoked.user \subseteq RevokedOf(at.read)
                                           /\ HostKeysOf(at.read) \subseteq recorded
    /\ at.session = "app" => at.revoked.system \subseteq RevokedOf(at.read)
    /\ at.session \in {"kex", "user", "system", "app", "absent", "write"} => ~at.verified
    /\ at.session \in {"absent", "write"} => at.key \in Keys /\ NotRevoked(at)
    /\ at.session \in {"user", "system", "app"} => at.key \in Keys
    /\ at.caller \in {"auth", "open"} => at.verified
    /\ at.verified => OnRecord(at) /\ NotRevoked(at)

KeysInv == ShapeOK /\ FilesOK /\ \A a \in Attempts : AttemptOK(att[a])

\* The keys of two files are the keys of their lines together.
LEMMA LinesJoin ==
    ASSUME NEW S, NEW T
    PROVE  /\ HostKeysOf(S \cup T) = HostKeysOf(S) \cup HostKeysOf(T)
           /\ RevokedOf(S \cup T) = RevokedOf(S) \cup RevokedOf(T)
BY DEF HostKeysOf, RevokedOf

\* What one line says.
LEMMA LineSays ==
    ASSUME NEW k
    PROVE  HostKeysOf({Line("host", k)}) = {k} /\ RevokedOf({Line("host", k)}) = {}
<1>1. \A l \in {Line("host", k)} : l.mark = "host" /\ l.key = k
      BY DEF Line
<1>2. {m \in {Line("host", k)} : m.mark = "host"} = {Line("host", k)}
      BY <1>1
<1>3. {m \in {Line("host", k)} : m.mark = "revoked"} = {}
      BY <1>1
<1> QED BY <1>1, <1>2, <1>3 DEF HostKeysOf, RevokedOf

\* Only keys stand on lines.
LEMMA LinesHaveKeys ==
    ASSUME NEW S \in SUBSET Lines
    PROVE  HostKeysOf(S) \subseteq Keys /\ RevokedOf(S) \subseteq Keys
BY DEF HostKeysOf, RevokedOf, Lines, Line

\* A fresh attempt is one, and has nothing to answer for.
LEMMA IdleShape == Idle \in Attempt
BY DEF Idle, Attempt, Policies

LEMMA IdleOK == AttemptOK(Idle)
BY DEF Idle, AttemptOK

\* So is an attempt whose session is over.
LEMMA OverOK ==
    ASSUME NEW at \in Attempt, AttemptOK(at), at.caller \notin {"auth", "open"}
    PROVE  Over(at) \in Attempt /\ AttemptOK(Over(at))
<1>1. Over(at) \in Attempt
      BY IdleShape DEF Over, Attempt
<1>2. /\ Over(at).revoked = Idle.revoked /\ Over(at).session = "dead"
      /\ Over(at).caller = at.caller /\ Over(at).verified = FALSE
      BY DEF Over, Idle
<1> QED BY <1>1, <1>2 DEF AttemptOK, Idle

LEMMA KeysInit == Init => KeysInv
<1> SUFFICES ASSUME Init PROVE KeysInv
    OBVIOUS
<1>1. user \subseteq Lines /\ system \subseteq Lines
      BY DEF Init, Lines
<1>2. HostKeysOf({}) = {} /\ HostKeysOf({Line("ca", None)}) = {}
      BY DEF HostKeysOf, Line
<1>3. recorded \subseteq Keys
      BY <1>1, LinesHaveKeys DEF Init
<1>4. ShapeOK
      BY <1>1, <1>3, IdleShape DEF Init, ShapeOK
<1>5. FilesOK
      BY <1>2, SMTT(30) DEF Init, FilesOK
<1>6. \A a \in Attempts : AttemptOK(att[a])
      BY IdleOK DEF Init
<1> QED BY <1>4, <1>5, <1>6 DEF KeysInv

\* A step of one attempt that leaves the files and the record alone keeps the others' facts.
LEMMA OnlyOne ==
    ASSUME KeysInv, NEW a \in Attempts, NEW v \in Attempt, AttemptOK(v),
           att' = [att EXCEPT ![a] = v], UNCHANGED <<user, system, app, recorded>>,
           broken' \in BOOLEAN, events' \in Nat
    PROVE  KeysInv'
<1>1. ShapeOK'
      BY DEF KeysInv, ShapeOK
<1>2. FilesOK'
      BY DEF KeysInv, FilesOK
<1>3. ASSUME NEW b \in Attempts PROVE AttemptOK(att[b])'
  <2>1. AttemptOK(att'[b])
        BY DEF KeysInv, ShapeOK
  <2> QED BY <2>1 DEF AttemptOK, OnRecord, NotRevoked
<1> QED BY <1>1, <1>2, <1>3 DEF KeysInv

\* Every step keeps it: one step per action, each of which changes one attempt, the app's file or
\* the person's.
LEMMA KeysStep == KeysInv /\ Next => KeysInv'
<1> SUFFICES ASSUME KeysInv, Next PROVE KeysInv'
    OBVIOUS
<1>a. \A a \in Attempts : att[a] \in Attempt /\ AttemptOK(att[a])
      BY DEF KeysInv, ShapeOK
<1>b. /\ user \subseteq Lines /\ system \subseteq Lines /\ app \subseteq Lines /\ broken \in BOOLEAN /\ events \in Nat
      /\ recorded \subseteq Keys /\ FilesOK
      BY DEF KeysInv, ShapeOK
<1>1. ASSUME NEW a \in Attempts, NEW p \in Policies, Open(a, p) PROVE KeysInv'
  <2> DEFINE v == [Idle EXCEPT !.caller = IF broken THEN "failed" ELSE "waiting",
                               !.session = IF broken THEN "dead" ELSE "kex",
                               !.policy = p,
                               !.revoked = [user |-> RevokedOf(user), system |-> RevokedOf(system),
                                            app |-> RevokedOf(app)]]
  <2>1. /\ att' = [att EXCEPT ![a] = v] /\ UNCHANGED <<user, system, app, recorded>>
        /\ broken' \in BOOLEAN /\ events' \in Nat
        BY <1>1, <1>b DEF Open
  <2>2. v \in Attempt
    <3>1. /\ RevokedOf(user) \in SUBSET Keys /\ RevokedOf(system) \in SUBSET Keys
          /\ RevokedOf(app) \in SUBSET Keys
          BY <1>b, LinesHaveKeys
    <3>2. Idle.policy \in Policies
          BY DEF Idle, Policies
    <3> QED BY <3>1, <3>2 DEF Idle, Attempt
  <2>3. AttemptOK(v)
        BY <1>1, <1>a, <1>b DEF Open, AttemptOK, OnRecord, NotRevoked, Attempt, FilesOK, Idle
  <2> HIDE DEF v
  <2> QED BY <2>1, <2>2, <2>3, OnlyOne
<1>2. ASSUME NEW a \in Attempts, Timeout(a) PROVE KeysInv'
  <2> DEFINE v == [att[a] EXCEPT !.caller = "failed", !.abandoned = TRUE]
  <2>1. /\ att' = [att EXCEPT ![a] = v] /\ UNCHANGED <<user, system, app, recorded>>
        /\ broken' \in BOOLEAN /\ events' \in Nat
        BY <1>2, <1>b DEF Timeout
  <2>2. v \in Attempt
        BY <1>2, <1>a DEF Timeout, Attempt
  <2>3. AttemptOK(v)
        BY <1>2, <1>a, <1>b DEF Timeout, AttemptOK, OnRecord, NotRevoked, Attempt, FilesOK, Idle
  <2> HIDE DEF v
  <2> QED BY <2>1, <2>2, <2>3, OnlyOne
<1>3. ASSUME NEW a \in Attempts, Connected(a) PROVE KeysInv'
  <2> DEFINE v == [att[a] EXCEPT !.caller =
                      IF att[a].session = "decided" /\ att[a].verified THEN "auth" ELSE "failed"]
  <2>1. /\ att' = [att EXCEPT ![a] = v] /\ UNCHANGED <<user, system, app, recorded>>
        /\ broken' \in BOOLEAN /\ events' \in Nat
        BY <1>3, <1>b DEF Connected
  <2>2. v \in Attempt
        BY <1>3, <1>a DEF Connected, Attempt
  <2>3. AttemptOK(v)
        BY <1>3, <1>a, <1>b DEF Connected, AttemptOK, OnRecord, NotRevoked, Attempt, FilesOK, Idle
  <2> HIDE DEF v
  <2> QED BY <2>1, <2>2, <2>3, OnlyOne
<1>4. ASSUME NEW a \in Attempts, Gone(a) PROVE KeysInv'
  <2> DEFINE v == Idle
  <2>1. /\ att' = [att EXCEPT ![a] = v] /\ UNCHANGED <<user, system, app, recorded>>
        /\ broken' \in BOOLEAN /\ events' \in Nat
        BY <1>4, <1>b DEF Gone
  <2>2. v \in Attempt
        BY IdleShape
  <2>3. AttemptOK(v)
        BY <1>4, <1>a, <1>b DEF Gone, AttemptOK, OnRecord, NotRevoked, Attempt, FilesOK, Idle
  <2> HIDE DEF v
  <2> QED BY <2>1, <2>2, <2>3, OnlyOne
<1>5. ASSUME NEW a \in Attempts, NEW k \in Keys, KeyArrives(a, k) PROVE KeysInv'
  <2> DEFINE v == IF att[a].abandoned THEN Over(att[a])
                  ELSE [att[a] EXCEPT !.key = k, !.session = "user"]
  <2>1. /\ att' = [att EXCEPT ![a] = v] /\ UNCHANGED <<user, system, app, recorded>>
        /\ broken' \in BOOLEAN /\ events' \in Nat
        BY <1>5, <1>b DEF KeyArrives
  <2>a. att[a].caller \notin {"auth", "open"}
        BY <1>5, <1>a DEF KeyArrives, AttemptOK
  <2>b. att[a].abandoned => v \in Attempt /\ AttemptOK(v)
        BY <1>a, <2>a, OverOK
  <2>c. ~(att[a].abandoned) => v \in Attempt
    <3>1. ~(att[a].abandoned) => v = [att[a] EXCEPT !.key = k, !.session = "user"]
          OBVIOUS
    <3> HIDE DEF v
    <3> QED BY <3>1, <1>5, <1>a DEF KeyArrives, Attempt
  <2>d. ~(att[a].abandoned) => AttemptOK(v)
    <3>1. ~(att[a].abandoned) => v = [att[a] EXCEPT !.key = k, !.session = "user"]
          OBVIOUS
    <3> HIDE DEF v
    <3> QED BY <3>1, <1>5, <1>a, <1>b DEF KeyArrives, AttemptOK, OnRecord, NotRevoked, Attempt, FilesOK
  <2> HIDE DEF v
  <2> QED BY <2>1, <2>b, <2>c, <2>d, OnlyOne
<1>6. ASSUME NEW a \in Attempts, SessionLost(a) PROVE KeysInv'
  <2> DEFINE v == IF att[a].session = "kex" THEN Over(att[a])
                  ELSE [att[a] EXCEPT !.session = "dead"]
  <2>1. /\ att' = [att EXCEPT ![a] = v] /\ UNCHANGED <<user, system, app, recorded>>
        /\ broken' \in BOOLEAN /\ events' \in Nat
        BY <1>6, <1>b DEF SessionLost
  <2>a. att[a].session = "kex" => att[a].caller \notin {"auth", "open"}
        BY <1>6, <1>a DEF SessionLost, AttemptOK
  <2>b. att[a].session = "kex" => v \in Attempt /\ AttemptOK(v)
        BY <1>a, <2>a, OverOK
  <2>c. ~(att[a].session = "kex") => v \in Attempt
    <3>1. ~(att[a].session = "kex") => v = [att[a] EXCEPT !.session = "dead"]
          OBVIOUS
    <3> HIDE DEF v
    <3> QED BY <3>1, <1>6, <1>a DEF SessionLost, Attempt
  <2>d. ~(att[a].session = "kex") => AttemptOK(v)
    <3>1. ~(att[a].session = "kex") => v = [att[a] EXCEPT !.session = "dead"]
          OBVIOUS
    <3> HIDE DEF v
    <3> QED BY <3>1, <1>6, <1>a, <1>b DEF SessionLost, AttemptOK, OnRecord, NotRevoked, Attempt, FilesOK
  <2> HIDE DEF v
  <2> QED BY <2>1, <2>b, <2>c, <2>d, OnlyOne
<1>7. ASSUME NEW a \in Attempts, ReadUser(a) PROVE KeysInv'
  <2> DEFINE v == [att[a] EXCEPT !.read = user, !.session = "system"]
  <2>1. /\ att' = [att EXCEPT ![a] = v] /\ UNCHANGED <<user, system, app, recorded>>
        /\ broken' \in BOOLEAN /\ events' \in Nat
        BY <1>7, <1>b DEF ReadUser
  <2>2. v \in Attempt
        BY <1>7, <1>a, <1>b DEF ReadUser, Attempt
  <2>3. AttemptOK(v)
        BY <1>7, <1>a, <1>b DEF ReadUser, AttemptOK, OnRecord, NotRevoked, Attempt, FilesOK, Idle
  <2> HIDE DEF v
  <2> QED BY <2>1, <2>2, <2>3, OnlyOne
<1>8. ASSUME NEW a \in Attempts, AppendRead(a) PROVE KeysInv'
  <2> DEFINE v == IF broken THEN Over(att[a])
                  ELSE IF att[a].key \in HostKeysOf(app) THEN Accepted(att[a])
                  ELSE [att[a] EXCEPT !.session = "write"]
  <2>1. /\ att' = [att EXCEPT ![a] = v] /\ UNCHANGED <<user, system, app, recorded>>
        /\ broken' \in BOOLEAN /\ events' \in Nat
        BY <1>8, <1>b DEF AppendRead, Accepted
  <2>a. att[a].caller \notin {"auth", "open"}
        BY <1>8, <1>a DEF AppendRead, AttemptOK
  <2>b. broken => v \in Attempt /\ AttemptOK(v)
        BY <1>a, <2>a, OverOK
  <2>c. ~broken /\ att[a].key \in HostKeysOf(app) => v \in Attempt /\ AttemptOK(v)
    <3>1. ASSUME ~broken, att[a].key \in HostKeysOf(app) PROVE v = Accepted(att[a])
          BY <3>1
    <3>2. att[a].key \in HostKeysOf(app) => OnRecord(att[a])
          BY <1>b DEF FilesOK, OnRecord
    <3> HIDE DEF v
    <3>3. Accepted(att[a]) \in Attempt
          BY <1>a DEF Accepted, Attempt
    <3>4. /\ Accepted(att[a]).revoked = att[a].revoked /\ Accepted(att[a]).session = "decided"
          /\ Accepted(att[a]).key = att[a].key /\ Accepted(att[a]).policy = att[a].policy
          /\ Accepted(att[a]).caller = att[a].caller /\ Accepted(att[a]).verified = TRUE
          BY <1>a DEF Accepted, Attempt
    <3>5. AttemptOK(att[a]) /\ att[a].session = "absent"
          BY <1>8, <1>a DEF AppendRead
    <3>6. att[a].key \in HostKeysOf(app) => AttemptOK(Accepted(att[a]))
          BY <3>2, <3>4, <3>5 DEF AttemptOK, OnRecord, NotRevoked
    <3> QED BY <3>1, <3>3, <3>6
  <2>d. ~broken /\ att[a].key \notin HostKeysOf(app) => v \in Attempt /\ AttemptOK(v)
    <3> DEFINE w == [att[a] EXCEPT !.session = "write"]
    <3>1. ~broken /\ att[a].key \notin HostKeysOf(app) => v = w
          OBVIOUS
    <3> HIDE DEF v
    <3>2. w \in Attempt
          BY <1>a DEF Attempt
    <3>3. AttemptOK(w)
          BY <1>8, <1>a DEF AppendRead, AttemptOK, OnRecord, NotRevoked, Attempt
    <3> QED BY <3>1, <3>2, <3>3
  <2> HIDE DEF v
  <2> QED BY <2>1, <2>b, <2>c, <2>d, OnlyOne
<1>9. ASSUME NEW a \in Attempts, AppendFails(a) PROVE KeysInv'
  <2> DEFINE v == Over(att[a])
  <2>1. /\ att' = [att EXCEPT ![a] = v] /\ UNCHANGED <<user, system, app, recorded>>
        /\ broken' \in BOOLEAN /\ events' \in Nat
        BY <1>9, <1>b DEF AppendFails
  <2>a. att[a].caller \notin {"auth", "open"}
        BY <1>9, <1>a DEF AppendFails, AttemptOK
  <2>2. v \in Attempt /\ AttemptOK(v)
        BY <1>a, <2>a, OverOK
  <2> HIDE DEF v
  <2> QED BY <2>1, <2>2, OnlyOne
<1>10. ASSUME NEW a \in Attempts, Authenticated(a) PROVE KeysInv'
  <2>1. PICK ok \in BOOLEAN :
           att' = [att EXCEPT ![a].caller = IF ok /\ att[a].session = "decided"
                                            THEN "open" ELSE "failed",
                              ![a].session = IF ok THEN @ ELSE "dead"]
        BY <1>10 DEF Authenticated
  <2> DEFINE v == [att[a] EXCEPT !.caller = IF ok /\ att[a].session = "decided"
                                            THEN "open" ELSE "failed",
                                 !.session = IF ok THEN att[a].session ELSE "dead"]
  <2>2. /\ att' = [att EXCEPT ![a] = v] /\ UNCHANGED <<user, system, app, recorded>>
        /\ broken' \in BOOLEAN /\ events' \in Nat
    <3>1. att \in [Attempts -> Attempt]
          BY DEF KeysInv, ShapeOK
    <3> QED BY <1>10, <1>b, <2>1, <3>1 DEF Authenticated, Attempt
  <2>3. v \in Attempt
        BY <1>10, <1>a DEF Authenticated, Attempt
  <2>4. AttemptOK(v)
        BY <1>10, <1>a DEF Authenticated, AttemptOK, OnRecord, NotRevoked, Attempt
  <2> HIDE DEF v
  <2> QED BY <2>2, <2>3, <2>4, OnlyOne
<1>11. ASSUME NEW a \in Attempts, ReadApp(a) PROVE KeysInv'
  <2> DEFINE at == att[a]
             verdict == Verdict(at.read \cup app, at.key)
             next == IF broken THEN "dead"
                     ELSE IF verdict = "Matched" THEN "decided"
                     ELSE IF verdict = "Unknown" THEN Unknown(at.policy, at.key) ELSE "dead"
             went == [at EXCEPT !.session = next, !.read = {}, !.verified = (next = "decided")]
             v == IF next = "dead" THEN Over(at) ELSE went
  <2>1. /\ att' = [att EXCEPT ![a] = v] /\ UNCHANGED <<user, system, app, recorded>>
        /\ broken' \in BOOLEAN /\ events' \in Nat
        BY <1>11, <1>b DEF ReadApp
  <2>2. next \in {"dead", "decided", "absent"}
        BY DEF Unknown
  <2>a. at.caller \notin {"auth", "open"}
        BY <1>11, <1>a DEF ReadApp, AttemptOK
  <2>3. v \in Attempt
    <3>1. went \in Attempt
          BY <2>2, <1>a DEF Attempt
    <3>2. at \in Attempt /\ AttemptOK(at)
          BY <1>a
    <3> HIDE DEF went, at, next
    <3>3. Over(at) \in Attempt
          BY <3>2, <2>a, OverOK
    <3> QED BY <3>1, <3>3
  <2>4. next # "dead" => NotRevoked(at)
    <3>1. at.session = "app" /\ AttemptOK(at)
          BY <1>11, <1>a DEF ReadApp
    <3>2. at.revoked.user \cup at.revoked.system \cup at.revoked.app \subseteq RevokedOf(at.read \cup app)
      <4>1. RevokedOf(at.read \cup app) = RevokedOf(at.read) \cup RevokedOf(app)
            BY LinesJoin
      <4> QED BY <4>1, <3>1 DEF AttemptOK
    <3> QED BY <3>2 DEF Verdict, NotRevoked
  <2>5. next = "decided" => OnRecord(at)
    <3>1. at.session = "app" /\ AttemptOK(at)
          BY <1>11, <1>a DEF ReadApp
    <3>2. HostKeysOf(at.read \cup app) \subseteq recorded
      <4>1. HostKeysOf(at.read \cup app) = HostKeysOf(at.read) \cup HostKeysOf(app)
            BY LinesJoin
      <4> QED BY <4>1, <3>1, <1>b DEF AttemptOK, FilesOK
    <3>3. CASE verdict = "Matched"
          BY <3>2, <3>3 DEF Verdict, OnRecord
    <3>4. CASE verdict # "Matched"
      <4>1. at.policy \in Policies
            BY <1>a DEF Attempt
      <4> QED BY <3>4, <4>1 DEF Unknown, OnRecord, Policies
    <3> QED BY <3>3, <3>4
  <2>6. AttemptOK(v)
    <3>1. at \in Attempt /\ AttemptOK(at) /\ at.session = "app"
          BY <1>11, <1>a DEF ReadApp
    <3>2. /\ went.revoked = at.revoked /\ went.session = next
          /\ went.verified = (next = "decided")
          /\ went.key = at.key /\ went.policy = at.policy /\ went.caller = at.caller
          BY <3>1 DEF Attempt
    <3>3. next = "dead" => AttemptOK(v)
          BY <3>1, <2>a, OverOK
    <3>4. next # "dead" => v = went
          OBVIOUS
    <3> HIDE DEF v, next, at, went
    <3> QED BY <3>1, <3>2, <3>3, <3>4, <2>2, <2>4, <2>5 DEF AttemptOK, OnRecord, NotRevoked
  <2> HIDE DEF v
  <2> QED BY <2>1, <2>3, <2>6, OnlyOne
<1>12. ASSUME NEW a \in Attempts, AppendLine(a) PROVE KeysInv'
  <2> DEFINE k == att[a].key
             v == Accepted(att[a])
  <2>1. /\ app' = app \cup {Line("host", k)} /\ recorded' = recorded \cup {k}
        /\ att' = [att EXCEPT ![a] = v] /\ UNCHANGED <<user, system, broken, events>>
        BY <1>12 DEF AppendLine
  <2>2. k \in Keys /\ NotRevoked(att[a])
        BY <1>12, <1>a DEF AppendLine, AttemptOK
  <2>3. HostKeysOf(app') = HostKeysOf(app) \cup {k} /\ RevokedOf(app') = RevokedOf(app)
    <3>1. /\ HostKeysOf(app \cup {Line("host", k)}) = HostKeysOf(app) \cup HostKeysOf({Line("host", k)})
          /\ RevokedOf(app \cup {Line("host", k)}) = RevokedOf(app) \cup RevokedOf({Line("host", k)})
          BY LinesJoin
    <3>2. HostKeysOf({Line("host", k)}) = {k} /\ RevokedOf({Line("host", k)}) = {}
          BY LineSays
    <3> QED BY <2>1, <3>1, <3>2
  <2>4. v \in Attempt
        BY <1>a DEF Accepted, Attempt
  <2>5. ShapeOK'
    <3>1. Line("host", k) \in Lines
          BY <2>2 DEF Lines
    <3>2. att \in [Attempts -> Attempt]
          BY DEF KeysInv, ShapeOK
    <3> HIDE DEF v, k
    <3> QED BY <3>1, <3>2, <2>1, <2>2, <2>4, <1>b DEF ShapeOK
  <2>6. FilesOK'
        BY <2>1, <2>3, <1>b DEF FilesOK
  <2>7. ASSUME NEW b \in Attempts PROVE AttemptOK(att[b])'
    <3>1. AttemptOK(att[b]) /\ att[b] \in Attempt
          BY <1>a
    <3>2. /\ att'[b].revoked = att[b].revoked /\ att'[b].key = att[b].key
          /\ att'[b].read = att[b].read /\ att'[b].policy = att[b].policy
          /\ att'[b].caller = att[b].caller
      <4>1. att \in [Attempts -> Attempt]
            BY DEF KeysInv, ShapeOK
      <4> QED BY <2>1, <4>1, <3>1 DEF Accepted, Attempt
    <3>3. att'[b] = att[b] \/ (b = a /\ att'[b].session = "decided")
      <4>1. att \in [Attempts -> Attempt]
            BY DEF KeysInv, ShapeOK
      <4> QED BY <2>1, <4>1 DEF Accepted, Attempt
    <3>4. \/ att'[b] = att[b]
          \/ att'[b].key \in recorded' /\ NotRevoked(att[b])
          BY <2>1, <2>2, <3>2, <3>3
    <3> HIDE DEF v, k
    <3>5. /\ recorded \subseteq recorded' /\ RevokedOf(app') = RevokedOf(app)
          /\ user' = user /\ system' = system
          BY <2>1, <2>3
    <3>6. CASE att'[b] = att[b]
          BY <3>1, <3>5, <3>6 DEF AttemptOK, OnRecord, NotRevoked
    <3>7. CASE att'[b] # att[b]
      <4>1. att'[b].session = "decided" /\ att'[b].key \in recorded' /\ NotRevoked(att[b])
            BY <3>3, <3>4, <3>7
      <4>2. att'[b].verified
            BY <2>1, <3>3, <3>7, <1>a DEF Accepted, Attempt, v, KeysInv, ShapeOK
      <4> QED BY <4>1, <4>2, <3>1, <3>2, <3>5 DEF AttemptOK, OnRecord, NotRevoked
    <3> QED BY <3>6, <3>7
  <2> QED BY <2>5, <2>6, <2>7 DEF KeysInv
<1>13. CASE Edit
  <2>1. /\ att' = [a \in Attempts |->
                    [att[a] EXCEPT !.revoked = [user |-> @.user \cap RevokedOf(user'),
                                                system |-> @.system \cap RevokedOf(system'),
                                                app |-> @.app \cap RevokedOf(app')]]]
        /\ recorded' = recorded \cup HostKeysOf(user') \cup HostKeysOf(system')
        BY <1>13 DEF Edit
  <2>2. /\ user' \subseteq Lines /\ system' \subseteq Lines /\ app' \subseteq Lines /\ broken' \in BOOLEAN /\ events' \in Nat
    <3>1. \A l \in Lines \ {Line("ca", None)} :
             /\ user \cup {l} \subseteq Lines /\ user \ {l} \subseteq Lines
             /\ system \cup {l} \subseteq Lines /\ system \ {l} \subseteq Lines
          BY <1>b
    <3>2. \A k \in Keys : app \cup {Line("revoked", k)} \subseteq Lines
          BY <1>b DEF Lines
    <3>3. /\ broken' \in {broken, FALSE} /\ events' = events + 1
          /\ user' = user \/ \E l \in Lines \ {Line("ca", None)} : user' \in {user \cup {l}, user \ {l}}
          /\ \/ system' = system
             \/ \E l \in Lines \ {Line("ca", None)} : system' \in {system \cup {l}, system \ {l}}
          /\ app' \in {app, {}} \/ \E k \in Keys : app' = app \cup {Line("revoked", k)}
          BY <1>13 DEF Edit
    <3>4. user' \subseteq Lines
          BY <1>b, <3>1, <3>3
    <3>5. app' \subseteq Lines
          BY <1>b, <3>2, <3>3
    <3>8. system' \subseteq Lines
          BY <1>b, <3>1, <3>3
    <3>6. broken' \in BOOLEAN
          BY <1>b, <3>3
    <3>7. events' \in Nat
          BY <1>b, <3>3
    <3> QED BY <3>4, <3>5, <3>6, <3>7, <3>8
  <2>3. HostKeysOf(app') \subseteq HostKeysOf(app)
    <3>1. CASE \E k \in Keys : app' = app \cup {Line("revoked", k)}
      <4>1. \A k \in Keys : HostKeysOf({Line("revoked", k)}) = {}
            BY DEF HostKeysOf, Line
      <4>2. PICK k \in Keys : app' = app \cup {Line("revoked", k)}
            BY <3>1
      <4>3. HostKeysOf(app \cup {Line("revoked", k)}) = HostKeysOf(app) \cup HostKeysOf({Line("revoked", k)})
            BY LinesJoin
      <4> QED BY <4>1, <4>2, <4>3
    <3>2. CASE app' = app
          BY <3>2
    <3>3. CASE app' = {}
          BY <3>3 DEF HostKeysOf
    <3> QED BY <1>13, <3>1, <3>2, <3>3 DEF Edit
  <2>4. ASSUME NEW b \in Attempts
        PROVE  /\ att'[b] \in Attempt /\ att'[b].session = att[b].session
               /\ att'[b].caller = att[b].caller /\ att'[b].key = att[b].key
               /\ att'[b].policy = att[b].policy /\ att'[b].read = att[b].read
               /\ att'[b].verified = att[b].verified
               /\ att'[b].revoked.user = att[b].revoked.user \cap RevokedOf(user')
               /\ att'[b].revoked.system = att[b].revoked.system \cap RevokedOf(system')
               /\ att'[b].revoked.app = att[b].revoked.app \cap RevokedOf(app')
        BY <2>1, <1>a DEF Attempt
  <2>5. ShapeOK'
    <3>1. att' \in [Attempts -> Attempt]
          BY <2>1, <2>4
    <3> QED BY <3>1, <2>1, <2>2, <1>b, LinesHaveKeys DEF ShapeOK
  <2>6. FilesOK'
        BY <2>1, <2>3, <1>b DEF FilesOK
  <2>7. ASSUME NEW b \in Attempts PROVE AttemptOK(att[b])'
    <3>1. AttemptOK(att[b]) /\ recorded \subseteq recorded'
          BY <1>a, <2>1
    <3> QED BY <2>4, <3>1 DEF AttemptOK, OnRecord, NotRevoked
  <2> QED BY <2>5, <2>6, <2>7 DEF KeysInv
<1>14. ASSUME NEW a \in Attempts, ReadSystem(a) PROVE KeysInv'
  <2> DEFINE v == [att[a] EXCEPT !.read = att[a].read \cup system, !.session = "app"]
  <2>1. /\ att' = [att EXCEPT ![a] = v] /\ UNCHANGED <<user, system, app, recorded>>
        /\ broken' \in BOOLEAN /\ events' \in Nat
    <3>1. att \in [Attempts -> Attempt]
          BY DEF KeysInv, ShapeOK
    <3> QED BY <1>14, <1>b, <3>1 DEF ReadSystem, Attempt
  <2>2. v \in Attempt
        BY <1>14, <1>a, <1>b DEF ReadSystem, Attempt
  <2>3. AttemptOK(v)
    <3>1. AttemptOK(att[a]) /\ att[a] \in Attempt /\ att[a].session = "system"
          BY <1>14, <1>a DEF ReadSystem
    <3>2. /\ RevokedOf(v.read) = RevokedOf(att[a].read) \cup RevokedOf(system)
          /\ HostKeysOf(v.read) = HostKeysOf(att[a].read) \cup HostKeysOf(system)
          BY <3>1, LinesJoin DEF Attempt
    <3>3. /\ v.revoked = att[a].revoked /\ v.session = "app" /\ v.verified = att[a].verified
          /\ v.key = att[a].key /\ v.policy = att[a].policy /\ v.caller = att[a].caller
          BY <3>1 DEF Attempt
    <3> HIDE DEF v
    <3> QED BY <3>1, <3>2, <3>3, <1>b DEF AttemptOK, OnRecord, NotRevoked, FilesOK
  <2> HIDE DEF v
  <2> QED BY <2>1, <2>2, <2>3, OnlyOne
<1> QED BY <1>1, <1>2, <1>3, <1>4, <1>5, <1>6, <1>7, <1>8, <1>9, <1>10, <1>11, <1>12, <1>13, <1>14 DEF Next

\* The invariant holds in every reachable state.
THEOREM KeysSafe == Spec => []KeysInv
<1>1. KeysInv /\ UNCHANGED vars => KeysInv'
      BY DEF KeysInv, ShapeOK, FilesOK, AttemptOK, OnRecord, NotRevoked, vars
<1> QED BY <1>1, KeysInit, KeysStep, PTL DEF Spec

\* The state of the attempts and of the files keeps its shape.
THEOREM KeyTypes == Spec => []TypeOK
<1>1. KeysInv => TypeOK
      BY DEF KeysInv, ShapeOK, Attempt, TypeOK
<1> QED BY <1>1, KeysSafe, PTL

\* Whoever sends credentials has a key that is on the record or that its caller named, and none
\* whose revocation stood in one file all along (tunnel.rs decide, known_hosts.rs check_all and
\* append_if_absent).
THEOREM CredentialsOnRecord == Spec => []AuthOnRecord
<1>1. KeysInv => AuthOnRecord
      BY DEF KeysInv, AttemptOK, OnRecord, NotRevoked, AuthOnRecord
<1> QED BY <1>1, KeysSafe, PTL

==============================================================================
