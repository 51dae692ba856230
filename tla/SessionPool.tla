----------------------------- MODULE SessionPool -----------------------------
(***************************************************************************)
(* The session pool behind the engine host: crates/qh-ffi/src/host/pool.rs *)
(* with the lease flags of host/lease.rs that decide what becomes of a     *)
(* session when it comes back.                                             *)
(*                                                                         *)
(* One connection identity is modelled.  Identities share nothing but the  *)
(* notification that ends a wait, and a wait also ends by itself.  An      *)
(* `Entry' of the code is an element of EntryIds; a credential change      *)
(* retires the entry and puts another one in its place.  Every lock region *)
(* (entries, entry.state, entry.tunnel) is one step, and every await point *)
(* between two of them lets the other actors in.                           *)
(*                                                                         *)
(* The idle list is a set: which of the idle sessions a checkout takes     *)
(* (the code: the one returned last) and which are past their TTL when the *)
(* janitor looks are left open.                                            *)
(***************************************************************************)
EXTENDS Integers, FiniteSets

CONSTANTS
    Runs,       \* leases that may be out at the same time, one per command
    LongOps,    \* export, import, to_table: sessions that are never pooled
    Sessions,   \* connection ids; one is used again only when nothing names it
    EntryIds,   \* pool entries; one is used again only when nothing holds it
    Tunnels,    \* tunnel ids, the same
    Creds,      \* the credential hash of a key
    Lanes,      \* Query and Metadata
    Cap,        \* QUERY_SESSIONS and METADATA_SESSIONS, per lane
    IdleMax,    \* IDLE_MAX
    Kind,       \* the driver: "postgres", "mysql" or "trino"
    UsesTunnel, \* config.tunnel.is_some()
    MaxParked,  \* bound: background tasks of an entry between park and drop(pending)
    None

ASSUME PoolAssumption ==
    /\ IsFiniteSet(Runs)
    /\ Cap \in [Lanes -> Nat]
    /\ IdleMax \in Nat
    /\ MaxParked \in Nat
    /\ UsesTunnel \in BOOLEAN
    /\ Runs \cap EntryIds = {}
    /\ Runs \cap LongOps = {}
    /\ EntryIds \cap LongOps = {}
    /\ None \notin Runs \cup LongOps \cup Sessions \cup EntryIds \cup Tunnels \cup Creds

VARIABLES
    current,  \* entries[identity]: the entry the map holds, or None
    cred,     \* Entry.credential
    idle,     \* EntryState.idle
    leased,   \* EntryState.leased
    pending,  \* EntryState.pending
    retired,  \* EntryState.retired
    slot,     \* Entry.tunnel: the shared tunnel, or None
    locked,   \* who holds the lock on Entry.tunnel across an await, or None
    parked,   \* background tasks that parked their session and still hold a PendingGuard
    run,      \* each command's lease
    back,     \* checkin tasks under way
    opening,  \* who is inside open_session, and where
    warming,  \* entries a warm-up has looked up and not yet asked for a session
    long,     \* each long operation
    sess,     \* what is true of each connection
    alive     \* tunnels whose connection is up

entryVars == <<cred, leased, pending, slot, locked, parked>>
vars == <<current, cred, idle, leased, pending, retired, slot, locked, parked,
          run, back, opening, warming, long, sess, alive>>

(***************************************************************************)
(* Types and helpers                                                       *)
(***************************************************************************)

\* Runs, background warm-ups (one per entry at most: it holds a PendingGuard and none starts
\* while one is held) and long operations all go through open_session.
Openers == Runs \cup EntryIds \cup LongOps

Fates == {"Reset", "Discard", "DiscardAndRefill"}

\* What a lease knows against its session, the gravest only: "left" is a cursor the server did
\* not end (dirty, last_cursor), the others are the flags of those names.
Doubts == {"none", "left", "broken", "unsettled", "cancelled"}

\* LeaseState, with the checkout that leads to it.
NoRun == [pc |-> "off", lane |-> None, cred |-> None, ent |-> None, sid |-> None,
          waited |-> FALSE, doubt |-> "none"]

RunPCs == {"off", "choose", "wait", "connect", "readonly", "held", "reconnect"}

\* The run counts in leased: its LeaseGuard is live.
Guarded(r) == run[r].pc \in {"connect", "readonly", "held", "reconnect"}

NotOpening == [at |-> "no", ent |-> None, tun |-> None]

\* `ent' is the entry a long operation opened through; the code forgets it once connected.
NoLong == [pc |-> "off", cred |-> None, ent |-> None, tun |-> None]

\* A connection that exists nowhere.  `late': a cancel was sent to it and has not landed yet;
\* once the connection is gone it has nothing to land on.
NoSession == [st |-> "free", cred |-> None, tun |-> None, late |-> FALSE]

\* The shapes of the records above.
RunState == [pc : RunPCs, lane : Lanes \cup {None}, cred : Creds \cup {None},
             ent : EntryIds \cup {None}, sid : Sessions \cup {None},
             waited : BOOLEAN, doubt : Doubts]

OpenState == [at : {"no", "tunnel", "opening", "connect"}, ent : EntryIds \cup {None},
              tun : Tunnels \cup {None}]

LongState == [pc : {"off", "opening", "holding"}, cred : Creds \cup {None},
              ent : EntryIds \cup {None}, tun : Tunnels \cup {None}]

Connection == [st : {"free", "open"}, cred : Creds \cup {None}, tun : Tunnels \cup {None},
               late : BOOLEAN]

\* A checkin task.  `half' is history: a call on the session was dropped in the middle.
Return == [sid : Sessions, ent : EntryIds, fate : Fates, half : BOOLEAN,
           step : {"decide", "reset", "refill"}]

\* Arc::strong_count(entry) > 1: somebody other than the map owns the entry.
Holds(e) ==
    \/ \E r \in Runs : run[r].ent = e
    \/ \E k \in back : k.ent = e
    \/ \E o \in Openers : opening[o].ent = e
    \/ e \in warming
    \/ parked[e] > 0

EntryLive(e) == e = current \/ Holds(e)

\* open_session begins: with no tunnel to ensure it goes straight to the connector.
Start(e) == [at |-> IF UsesTunnel THEN "tunnel" ELSE "connect", ent |-> e, tun |-> None]

\* Whoever shares a tunnel besides the slot of its entry.
TunnelShared(t) ==
    \/ \E s \in Sessions : sess[s].st # "free" /\ sess[s].tun = t
    \/ \E o \in Openers : opening[o].tun = t
    \/ \E x \in LongOps : long[x].tun = t

TunnelInUse(t) == TunnelShared(t) \/ \E e \in EntryIds : EntryLive(e) /\ slot[e] = t

TunnelDead(s) == sess[s].tun # None /\ sess[s].tun \notin alive

\* close_session and close_in_background: the sessions are out of every list and nothing names
\* them any more, so the bounded close that follows on a task of its own is not a step.
Close(S) == [s \in Sessions |-> IF s \in S THEN NoSession ELSE sess[s]]

Init ==
    /\ current = None
    /\ cred = [e \in EntryIds |-> None]
    /\ idle = [e \in EntryIds |-> {}]
    /\ leased = [e \in EntryIds |-> [l \in Lanes |-> 0]]
    /\ pending = [e \in EntryIds |-> 0]
    /\ retired = [e \in EntryIds |-> FALSE]
    /\ slot = [e \in EntryIds |-> None]
    /\ locked = [e \in EntryIds |-> None]
    /\ parked = [e \in EntryIds |-> 0]
    /\ run = [r \in Runs |-> NoRun]
    /\ back = {}
    /\ opening = [o \in Openers |-> NotOpening]
    /\ warming = {}
    /\ long = [x \in LongOps |-> NoLong]
    /\ sess = [s \in Sessions |-> NoSession]
    /\ alive = {}

(***************************************************************************)
(* entry_for: the entry of a key.  Another credential retires the entry    *)
(* the map holds and closes its idle sessions.                             *)
(***************************************************************************)

\* Mutant of SameKey: the identity alone, without the credential.
SameIdentity(e, c) == TRUE

\* entry.credential == key.credential
SameKey(e, c) == cred[e] = c

SameEntry(c, e) ==
    /\ current = e
    /\ SameKey(e, c)
    /\ UNCHANGED <<current, cred, idle, retired, slot, sess>>

NewEntry(c, e) ==
    /\ current # None => ~SameKey(current, c)
    /\ ~EntryLive(e) /\ \A x \in LongOps : long[x].ent # e
    /\ current' = e
    /\ cred' = [cred EXCEPT ![e] = c]
    /\ retired' = [x \in EntryIds |-> x # e /\ (retired[x] \/ x = current)]
    /\ idle' = [x \in EntryIds |-> IF x \in {e, current} THEN {} ELSE idle[x]]
    /\ slot' = [slot EXCEPT ![e] = None]
    /\ sess' = Close(IF current = None THEN {} ELSE idle[current])

EntryFor(c, e) == SameEntry(c, e) \/ NewEntry(c, e)

(***************************************************************************)
(* checkout                                                                *)
(***************************************************************************)

\* The key is computed and its entry looked up.
Begin(r, l, c, e) ==
    /\ run[r].pc = "off"
    /\ EntryFor(c, e)
    /\ run' = [run EXCEPT ![r] = [NoRun EXCEPT !.pc = "choose", !.lane = l, !.cred = c, !.ent = e]]
    /\ UNCHANGED <<leased, pending, locked, parked, back, opening, warming, long, alive>>

\* The idle sessions whose tunnel still stands; the others are closed by every pass.
Usable(e) == {s \in idle[e] : ~TunnelDead(s)}

Room(r) == leased[run[r].ent][run[r].lane] < Cap[run[r].lane]

CountLease(r) == leased' = [leased EXCEPT ![run[r].ent][run[r].lane] = @ + 1]

\* Mutant of TakeIdle: the session is handed out and stays in the list.
PeekIdle(e, s) == idle' = [idle EXCEPT ![e] = Usable(e)]

\* idle.pop()
TakeIdle(e, s) == idle' = [idle EXCEPT ![e] = Usable(e) \ {s}]

Reuse(r, s) ==
    /\ run[r].pc = "choose"
    /\ Room(r)
    /\ LET e == run[r].ent IN
       /\ s \in Usable(e)
       /\ TakeIdle(e, s)
       /\ sess' = Close(idle[e] \ Usable(e))
    /\ CountLease(r)
    /\ run' = [run EXCEPT ![r] = [@ EXCEPT !.pc = "readonly", !.sid = s]]
    /\ UNCHANGED <<current, cred, pending, retired, slot, locked, parked, back, opening, warming, long, alive>>

\* Nothing idle and a session on its way: wait for it, once.
Wait(r) ==
    /\ run[r].pc = "choose"
    /\ Room(r)
    /\ ~run[r].waited
    /\ LET e == run[r].ent IN
       /\ Usable(e) = {}
       /\ pending[e] > 0
       /\ idle' = [idle EXCEPT ![e] = {}]
       /\ sess' = Close(idle[e])
    /\ run' = [run EXCEPT ![r].pc = "wait"]
    /\ UNCHANGED <<current, entryVars, retired, back, opening, warming, long, alive>>

\* Mutant of WaitEnds: the checkout forgets that it has waited.
WaitEndsAgain(r) ==
    /\ run[r].pc = "wait"
    /\ run' = [run EXCEPT ![r].pc = "choose"]
    /\ UNCHANGED <<current, entryVars, idle, retired, back, opening, warming, long, sess, alive>>

\* CHECKIN_WAIT passed, or `changed' was signalled.
WaitEnds(r) ==
    /\ run[r].pc = "wait"
    /\ run' = [run EXCEPT ![r] = [@ EXCEPT !.pc = "choose", !.waited = TRUE]]
    /\ UNCHANGED <<current, entryVars, idle, retired, back, opening, warming, long, sess, alive>>

\* No room in the lane, or nothing to wait for: a connection of its own, counted all the same.
Open(r) ==
    /\ run[r].pc = "choose"
    /\ LET e == run[r].ent IN
       /\ Room(r) => Usable(e) = {} /\ (run[r].waited \/ pending[e] = 0)
       /\ idle' = [idle EXCEPT ![e] = Usable(e)]
       /\ sess' = Close(idle[e] \ Usable(e))
       /\ opening' = [opening EXCEPT ![r] = Start(e)]
    /\ CountLease(r)
    /\ run' = [run EXCEPT ![r].pc = "connect"]
    /\ UNCHANGED <<current, cred, pending, retired, slot, locked, parked, back, warming, long, alive>>

(***************************************************************************)
(* open_session and ensure_tunnel, for whoever opens                       *)
(***************************************************************************)

\* entry.tunnel.lock(), held across the opening of a tunnel.
SlotFree(e) == locked[e] = None

\* The key has a live tunnel: share it.
ShareTunnel(o) ==
    /\ opening[o].at = "tunnel"
    /\ LET e == opening[o].ent IN
       /\ SlotFree(e)
       /\ slot[e] \in alive
       /\ opening' = [opening EXCEPT ![o] = [@ EXCEPT !.at = "connect", !.tun = slot[e]]]
    /\ UNCHANGED <<current, entryVars, idle, retired, run, back, warming, long, sess, alive>>

\* No tunnel, or a dead one, which takes the idle sessions with it.  The slot stays locked
\* while the bastion is asked.
OpenTunnel(o) ==
    /\ opening[o].at = "tunnel"
    /\ LET e == opening[o].ent IN
       /\ SlotFree(e)
       /\ slot[e] \notin alive
       /\ locked' = [locked EXCEPT ![e] = o]
       /\ slot' = [slot EXCEPT ![e] = None]
       /\ idle' = IF slot[e] = None THEN idle ELSE [idle EXCEPT ![e] = {}]
       /\ sess' = Close(IF slot[e] = None THEN {} ELSE idle[e])
    /\ opening' = [opening EXCEPT ![o].at = "opening"]
    /\ UNCHANGED <<current, cred, leased, pending, retired, parked, run, back, warming, long, alive>>

TunnelOpened(o, t) ==
    /\ opening[o].at = "opening"
    /\ ~TunnelInUse(t)
    /\ alive' = alive \cup {t}
    /\ slot' = [slot EXCEPT ![opening[o].ent] = t]
    /\ locked' = [locked EXCEPT ![opening[o].ent] = None]
    /\ opening' = [opening EXCEPT ![o] = [@ EXCEPT !.at = "connect", !.tun = t]]
    /\ UNCHANGED <<current, cred, idle, leased, pending, retired, parked, run, back, warming, long, sess>>

(***************************************************************************)
(* park: into the idle list, or closed when the entry is retired or full.  *)
(***************************************************************************)

\* Mutant of NotParked: full and retired entries take the session all the same.
AlwaysParked(e) == FALSE

NotParked(e) == retired[e] \/ Cardinality(idle[e]) >= IdleMax

Park(e, s, after) ==
    IF NotParked(e)
    THEN /\ sess' = Close({s})
         /\ UNCHANGED idle
    ELSE /\ sess' = [sess EXCEPT ![s] = after]
         /\ idle' = [idle EXCEPT ![e] = @ \cup {s}]

\* The connector answered: a connection of the opener's own credential, on its tunnel.
Fresh(o, c) == [st |-> "open", cred |-> c, tun |-> opening[o].tun, late |-> FALSE]

Unused(s) == sess[s].st = "free"

ConnectRun(r, s) ==
    /\ opening[r].at = "connect"
    /\ Unused(s)
    /\ run[r].pc = "connect"
    /\ sess' = [sess EXCEPT ![s] = Fresh(r, run[r].cred)]
    /\ run' = [run EXCEPT ![r] = [@ EXCEPT !.pc = "readonly", !.sid = s]]
    /\ opening' = [opening EXCEPT ![r] = NotOpening]
    /\ UNCHANGED <<current, entryVars, idle, retired, back, warming, long, alive>>

\* Held::reconnect: the old session is dropped, and the flags start over.
ConnectAgain(r, s) ==
    /\ opening[r].at = "connect"
    /\ Unused(s)
    /\ run[r].pc = "reconnect"
    /\ sess' = [sess EXCEPT ![s] = Fresh(r, run[r].cred),
                            ![run[r].sid] = NoSession]
    /\ run' = [run EXCEPT ![r] = [@ EXCEPT !.pc = "held", !.sid = s, !.doubt = "none"]]
    /\ opening' = [opening EXCEPT ![r] = NotOpening]
    /\ UNCHANGED <<current, entryVars, idle, retired, back, warming, long, alive>>

\* A warm-up or a refill parks what it opened.  The PendingGuard is dropped after that.
ConnectWarm(e, s) ==
    /\ opening[e].at = "connect"
    /\ Unused(s)
    /\ parked[e] < MaxParked
    /\ Park(e, s, Fresh(e, cred[e]))
    /\ parked' = [parked EXCEPT ![e] = @ + 1]
    /\ opening' = [opening EXCEPT ![e] = NotOpening]
    /\ UNCHANGED <<current, cred, leased, pending, retired, slot, locked, run, back, warming, long,
                   alive>>

\* open_unleased: the entry is let go, the tunnel is kept.
ConnectLong(x) ==
    /\ opening[x].at = "connect"
    /\ long' = [long EXCEPT ![x] = [@ EXCEPT !.pc = "holding", !.tun = opening[x].tun]]
    /\ opening' = [opening EXCEPT ![x] = NotOpening]
    /\ UNCHANGED <<current, entryVars, idle, retired, run, back, sess, alive, warming>>

\* Mutant: a checkout that fails gives no count back.
NeverCounted(o) == FALSE

\* Dropping the checkout drops a LeaseGuard: a reconnecting lease keeps its own.
CountedByGuard(o) == o \in Runs /\ run[o].pc = "connect"

\* The tunnel or the connection failed, or timed out, or the future was dropped by a Stop:
\* the lock and the guards are given back.  A background task is not stopped, and waits for
\* the tunnel's lock as long as it takes.
GiveUp(o) ==
    /\ opening[o].at \in {"tunnel", "opening", "connect"}
    /\ o \in EntryIds => opening[o].at # "tunnel"
    /\ LET e == opening[o].ent IN
       /\ locked' = [locked EXCEPT ![e] = IF @ = o THEN None ELSE @]
       /\ leased' = IF CountedByGuard(o)
                    THEN [leased EXCEPT ![e][run[o].lane] = @ - 1] ELSE leased
       /\ pending' = IF o \in EntryIds THEN [pending EXCEPT ![e] = @ - 1] ELSE pending
    /\ run' = IF o \in Runs
              THEN [run EXCEPT ![o] = IF @.pc = "connect" THEN NoRun ELSE [@ EXCEPT !.pc = "held"]]
              ELSE run
    /\ long' = IF o \in LongOps THEN [long EXCEPT ![o] = NoLong] ELSE long
    /\ opening' = [opening EXCEPT ![o] = NotOpening]
    /\ UNCHANGED <<current, cred, idle, retired, slot, parked, back, sess, alive, warming>>

\* A Stop while the checkout has not counted anything yet.
StopEarly(r) ==
    /\ run[r].pc = "wait"
    /\ run' = [run EXCEPT ![r] = NoRun]
    /\ UNCHANGED <<current, entryVars, idle, retired, back, opening, warming, long, sess, alive>>

(***************************************************************************)
(* The lease: what a command does to its session                           *)
(***************************************************************************)

\* commands::open: the session is made read-only before the run's own statements, when Safe
\* Mode asks for it, through a call the lease does not track.  When that fails the command
\* closes the session, which is Release.
ReadOnly(r) ==
    /\ run[r].pc = "readonly"
    /\ run' = [run EXCEPT ![r].pc = "held"]
    /\ UNCHANGED <<current, entryVars, idle, retired, back, opening, warming, long, sess,
                   alive>>

\* A call on the session ended and left a doubt: its cursor was let go before the server ended
\* it, the connection was lost, or a Stop dropped the call in the middle.  (A call that left
\* none changes nothing here.)  No command calls again on a session it left mid-call, and a
\* broken one is only ever replaced.
Call(r) ==
    /\ run[r].pc = "held"
    /\ run[r].doubt \in {"none", "left"}
    /\ \E d \in {"left", "broken", "unsettled"} : run' = [run EXCEPT ![r].doubt = d]
    /\ UNCHANGED <<current, entryVars, idle, retired, back, opening, warming, long, sess,
                   alive>>

\* Marked before the cancel goes out, and the cancel may land long after.  Nothing is called on
\* the session after that: the commands that cancel a lease close it next.
Cancel(r) ==
    /\ run[r].pc = "held"
    /\ run[r].doubt # "cancelled"
    /\ run' = [run EXCEPT ![r].doubt = "cancelled"]
    /\ sess' = [sess EXCEPT ![run[r].sid].late = TRUE]
    /\ UNCHANGED <<current, entryVars, idle, retired, back, opening, warming, long, alive>>

\* Held::reconnect up to its first await.
Reconnect(r) ==
    /\ run[r].pc = "held"
    /\ run[r].doubt \notin {"unsettled", "cancelled"}
    /\ run' = [run EXCEPT ![r] = [@ EXCEPT !.pc = "reconnect", !.doubt = "broken"]]
    /\ opening' = [opening EXCEPT ![r] = Start(run[r].ent)]
    /\ UNCHANGED <<current, entryVars, idle, retired, back, warming, long, sess, alive>>

\* Mutant of Fate: a cancelled session is reset like any other.
FateIgnoringCancel(r) ==
    IF run[r].doubt \in {"broken", "unsettled"} THEN "Discard"
    ELSE IF Kind = "postgres" /\ run[r].doubt = "left" THEN "DiscardAndRefill"
    ELSE "Reset"

\* LeaseState::fate.
Fate(r) ==
    IF run[r].doubt \in {"broken", "unsettled", "cancelled"} THEN "Discard"
    ELSE IF Kind = "postgres" /\ run[r].doubt = "left" THEN "DiscardAndRefill"
    ELSE "Reset"

\* Held::release and checkin, up to the spawn: the lease ends and its session starts going
\* back in one step.  `half': a call on the session was dropped in the middle.
CheckinWith(r, half) ==
    LET e == run[r].ent IN
    /\ back' = back \cup {[sid |-> run[r].sid, ent |-> e, fate |-> Fate(r), half |-> half,
                           step |-> "decide"]}
    /\ leased' = [leased EXCEPT ![e][run[r].lane] = @ - 1]
    /\ pending' = [pending EXCEPT ![e] = @ + 1]
    /\ run' = [run EXCEPT ![r] = NoRun]
    /\ UNCHANGED <<current, cred, idle, retired, slot, locked, parked, opening, warming, long, sess, alive>>

Release(r) ==
    /\ run[r].pc = "held"
    /\ CheckinWith(r, run[r].doubt = "unsettled")

\* A Stop drops `open' while the read-only statement is under way.
StopReadOnly(r) ==
    /\ run[r].pc = "readonly"
    /\ CheckinWith(r, TRUE)

(***************************************************************************)
(* checkin: the background task                                            *)
(***************************************************************************)

Discarded(k) == k.fate # "Reset" \/ retired[k.ent] \/ TunnelDead(k.sid)

\* The PendingGuard goes first, so no checkout waits for a session that is only being closed.
CheckinDiscard(k) ==
    /\ k.step = "decide"
    /\ Discarded(k)
    /\ pending' = [pending EXCEPT ![k.ent] = @ - 1]
    /\ IF k.fate = "DiscardAndRefill"
       THEN back' = (back \ {k}) \cup {[k EXCEPT !.step = "refill"]} /\ UNCHANGED sess
       ELSE back' = back \ {k} /\ sess' = Close({k.sid})
    /\ UNCHANGED <<current, cred, idle, leased, retired, slot, locked, parked, run, opening, warming, long, alive>>

CheckinReset(k) ==
    /\ k.step = "decide"
    /\ ~Discarded(k)
    /\ back' = (back \ {k}) \cup {[k EXCEPT !.step = "reset"]}
    /\ UNCHANGED <<current, entryVars, idle, retired, run, opening, warming, long, sess, alive>>

ResetOk(k) ==
    /\ k.step = "reset"
    /\ parked[k.ent] < MaxParked
    /\ Park(k.ent, k.sid, sess[k.sid])
    /\ parked' = [parked EXCEPT ![k.ent] = @ + 1]
    /\ back' = back \ {k}
    /\ UNCHANGED <<current, cred, leased, pending, retired, slot, locked, run, opening, warming, long,
                   alive>>

\* The reset failed or ran over RESET_BUDGET.
ResetFails(k) ==
    /\ k.step = "reset"
    /\ pending' = [pending EXCEPT ![k.ent] = @ - 1]
    /\ sess' = Close({k.sid})
    /\ back' = back \ {k}
    /\ UNCHANGED <<current, cred, idle, leased, retired, slot, locked, parked, run, opening, warming, long, alive>>

DropPending(e) ==
    /\ parked[e] > 0
    /\ parked' = [parked EXCEPT ![e] = @ - 1]
    /\ pending' = [pending EXCEPT ![e] = @ - 1]
    /\ UNCHANGED <<current, cred, idle, leased, retired, slot, locked, run, back, opening, warming, long,
                   sess, alive>>

(***************************************************************************)
(* open_idle, and its two callers                                          *)
(***************************************************************************)
MayOpenIdle(e, onlyWhenUnused) ==
    /\ ~retired[e]
    /\ idle[e] = {}
    /\ onlyWhenUnused => \A l \in Lanes : leased[e][l] = 0
    /\ pending[e] = 0

StartOpenIdle(e) ==
    /\ pending' = [pending EXCEPT ![e] = @ + 1]
    /\ opening' = [opening EXCEPT ![e] = Start(e)]

Refill(k) ==
    /\ k.step = "refill"
    /\ IF MayOpenIdle(k.ent, FALSE) THEN StartOpenIdle(k.ent) ELSE UNCHANGED <<pending, opening>>
    /\ back' = back \ {k}
    /\ sess' = Close({k.sid})
    /\ UNCHANGED <<current, cred, idle, leased, retired, slot, locked, parked, run, warming, long,
                   alive>>

\* warm: entry_for, and then open_idle under the entry's own lock.
Warm(c, e) ==
    /\ e \notin warming
    /\ EntryFor(c, e)
    /\ warming' = warming \cup {e}
    /\ UNCHANGED <<leased, pending, locked, parked, run, back, opening, long, alive>>

WarmOpens(e) ==
    /\ e \in warming
    /\ warming' = warming \ {e}
    /\ IF MayOpenIdle(e, TRUE) THEN StartOpenIdle(e) ELSE UNCHANGED <<pending, opening>>
    /\ UNCHANGED <<current, cred, idle, leased, retired, slot, locked, parked, run, back, long,
                   sess, alive>>

(***************************************************************************)
(* Long operations                                                         *)
(***************************************************************************)
BeginLong(x, c, e) ==
    /\ long[x].pc = "off"
    /\ EntryFor(c, e)
    /\ long' = [long EXCEPT ![x] = [pc |-> "opening", cred |-> c, ent |-> e, tun |-> None]]
    /\ opening' = [opening EXCEPT ![x] = Start(e)]
    /\ UNCHANGED <<leased, pending, locked, parked, run, back, alive, warming>>

EndLong(x) ==
    /\ long[x].pc = "holding"
    /\ long' = [long EXCEPT ![x] = NoLong]
    /\ UNCHANGED <<current, entryVars, idle, retired, run, back, opening, sess, alive, warming>>

(***************************************************************************)
(* evict: idle sessions past their TTL, then the entry when it holds       *)
(* nothing.  An entry anybody else owns is left alone both times.          *)
(***************************************************************************)
EvictExpired(S) ==
    /\ current # None
    /\ ~Holds(current)
    /\ S # {} /\ S \subseteq idle[current]
    /\ idle' = [idle EXCEPT ![current] = @ \ S]
    /\ sess' = Close(S)
    /\ UNCHANGED <<current, entryVars, retired, run, back, opening, warming, long, alive>>

\* Mutant of TunnelKept: the janitor does not look at who shares the tunnel.
TunnelForgotten == FALSE

\* Arc::strong_count(tunnel) > 1
TunnelKept == slot[current] # None /\ TunnelShared(slot[current])

EvictEntry ==
    /\ current # None
    /\ ~Holds(current)
    /\ idle[current] = {}
    /\ \A l \in Lanes : leased[current][l] = 0
    /\ pending[current] = 0
    /\ ~TunnelKept
    /\ current' = None
    /\ UNCHANGED <<entryVars, idle, retired, run, back, opening, warming, long, sess, alive>>

(***************************************************************************)
(* The world outside                                                       *)
(***************************************************************************)

CancelLands(s) ==
    /\ sess[s].late
    /\ sess' = [sess EXCEPT ![s].late = FALSE]
    /\ UNCHANGED <<current, entryVars, idle, retired, run, back, opening, warming, long, alive>>

\* The bastion went away, or the last owner let the tunnel go.
TunnelDies(t) ==
    /\ t \in alive
    /\ alive' = alive \ {t}
    /\ UNCHANGED <<current, entryVars, idle, retired, run, back, opening, warming, long, sess>>

(***************************************************************************)
(* The specification                                                       *)
(***************************************************************************)
Checkout(r) ==
    \/ \E l \in Lanes, c \in Creds, e \in EntryIds : Begin(r, l, c, e)
    \/ \E s \in Sessions : Reuse(r, s)
    \/ Wait(r)
    \/ WaitEnds(r)
    \/ Open(r)
    \/ StopEarly(r)
    \/ \E s \in Sessions : ConnectRun(r, s)

Lease(r) ==
    \/ ReadOnly(r)
    \/ StopReadOnly(r)
    \/ Call(r)
    \/ Cancel(r)
    \/ Reconnect(r)
    \/ \E s \in Sessions : ConnectAgain(r, s)
    \/ Release(r)

OpenStep(o) ==
    \/ ShareTunnel(o)
    \/ OpenTunnel(o)
    \/ \E t \in Tunnels : TunnelOpened(o, t)
    \/ GiveUp(o)

Checkin(k) ==
    \/ CheckinDiscard(k)
    \/ CheckinReset(k)
    \/ ResetOk(k)
    \/ ResetFails(k)
    \/ Refill(k)

Background(e) ==
    \/ \E s \in Sessions : ConnectWarm(e, s)
    \/ DropPending(e)
    \/ \E c \in Creds : Warm(c, e)
    \/ WarmOpens(e)

LongOp(x) ==
    \/ \E c \in Creds, e \in EntryIds : BeginLong(x, c, e)
    \/ ConnectLong(x)
    \/ EndLong(x)

Next ==
    \/ \E r \in Runs : Checkout(r) \/ Lease(r)
    \/ \E o \in Openers : OpenStep(o)
    \/ \E k \in back : Checkin(k)
    \/ \E e \in EntryIds : Background(e)
    \/ \E x \in LongOps : LongOp(x)
    \/ \E S \in SUBSET Sessions : EvictExpired(S)
    \/ EvictEntry
    \/ \E s \in Sessions : CancelLands(s)
    \/ \E t \in Tunnels : TunnelDies(t)

Spec == Init /\ [][Next]_vars

\* What is certain to happen: a decision under a lock, a wait with a timeout, an opening whose
\* tunnel (TUNNEL_OPEN) or connection (the driver's connect timeout) does not answer, a checkin
\* whose reset does not (RESET_BUDGET).  A tokio mutex is handed out first come, first served.
\* The server is not asked to answer anything.
Decide(r) == (\E s \in Sessions : Reuse(r, s)) \/ Wait(r) \/ Open(r)

TimesOut(o) == opening[o].at \in {"opening", "connect"} /\ GiveUp(o)

Settle(s) == \E k \in back : k.sid = s /\ (CheckinDiscard(k) \/ CheckinReset(k)
                                             \/ ResetFails(k) \/ Refill(k))

Fairness ==
    /\ \A r \in Runs : WF_vars(Decide(r)) /\ WF_vars(WaitEnds(r))
    /\ \A o \in Openers : SF_vars(ShareTunnel(o) \/ OpenTunnel(o)) /\ WF_vars(TimesOut(o))
    /\ \A s \in Sessions : WF_vars(Settle(s))

FairSpec == Spec /\ Fairness

(***************************************************************************)
(* Properties                                                              *)
(***************************************************************************)

EntriesOK ==
    /\ current \in EntryIds \cup {None}
    /\ cred \in [EntryIds -> Creds \cup {None}]
    /\ idle \in [EntryIds -> SUBSET Sessions]
    /\ retired \in [EntryIds -> BOOLEAN]
    /\ slot \in [EntryIds -> Tunnels \cup {None}]
    /\ locked \in [EntryIds -> Openers \cup {None}]
    /\ warming \subseteq EntryIds

TasksOK ==
    /\ run \in [Runs -> RunState]
    /\ back \subseteq Return
    /\ opening \in [Openers -> OpenState]
    /\ long \in [LongOps -> LongState]
    /\ sess \in [Sessions -> Connection]
    /\ alive \subseteq Tunnels

CountersOK ==
    /\ leased \in [EntryIds -> [Lanes -> Nat]]
    /\ pending \in [EntryIds -> Nat]
    /\ parked \in [EntryIds -> Nat]

\* Every variable keeps its shape; the counters stay natural numbers, which is what the
\* code's saturating_sub would otherwise hide.
TypeOK == EntriesOK /\ TasksOK /\ CountersOK

\* A connection is in one place: one idle list, one lease or one checkin, and only while it
\* is open (pool.rs: sessions move between the lists, they are never shared).
SoleOwner ==
    /\ \A e, f \in EntryIds : e # f => idle[e] \cap idle[f] = {}
    /\ \A q, r \in Runs : q # r /\ run[q].sid # None => run[q].sid # run[r].sid
    /\ \A j, k \in back : j # k => j.sid # k.sid
    /\ \A e \in EntryIds : \A s \in idle[e] :
         /\ sess[s].st = "open"
         /\ \A r \in Runs : run[r].sid # s
         /\ \A k \in back : k.sid # s
    /\ \A k \in back : sess[k.sid].st = "open" /\ \A r \in Runs : run[r].sid # k.sid
    /\ \A r \in Runs : run[r].sid # None => sess[run[r].sid].st = "open"

\* pool.rs: "a late cancel can never land on the next statement".  While a cancel is under
\* way its connection is in no idle list, and whoever holds it has been cancelled.
CancelStaysHome ==
    \A s \in Sessions : sess[s].late =>
        /\ \A e \in EntryIds : s \notin idle[e]
        /\ \A r \in Runs : run[r].sid = s => run[r].doubt = "cancelled"

\* pool.rs: "a changed password never finds a session opened with the old one".  A lease
\* works on a connection opened with its own credential.
OwnCredential == \A r \in Runs : run[r].sid # None => sess[run[r].sid].cred = run[r].cred

\* Sessions are idle only in the entry the map holds: what comes back to a retired entry, or to
\* one the janitor dropped, is closed and not left where no checkout and no janitor finds it.
NothingStranded == \A e \in EntryIds : idle[e] # {} => e = current

\* The leases out on a lane of an entry, and the sessions on their way to its idle list.
OutOn(e, l) == {r \in Runs : Guarded(r) /\ run[r].ent = e /\ run[r].lane = l}
Returning(e) == {k \in back : k.ent = e /\ k.step # "refill"}
Warmup(e) == IF opening[e].at = "no" THEN 0 ELSE 1

\* The lane count of an entry is the number of leases that are out on it, and `pending' the
\* number of sessions on their way to idle, at every instant: a count that leaked would take
\* a place in the lane, or make every checkout wait, for as long as the entry lives.
CountsAreTrue ==
    \A e \in EntryIds :
        /\ \A l \in Lanes : leased[e][l] = Cardinality(OutOn(e, l))
        /\ pending[e] = parked[e] + Cardinality(Returning(e)) + Warmup(e)

\* IDLE_MAX holds although sessions are parked by checkins and by warm-ups at the same time.
IdleBounded == \A e \in EntryIds : Cardinality(idle[e]) <= IdleMax

OneTunnel ==
    LET Rides(s, e) == sess[s].tun \in alive => sess[s].tun = slot[e] IN
    /\ \A e \in EntryIds : \A s \in idle[e] : Rides(s, e)
    /\ \A r \in Runs : run[r].sid # None => Rides(run[r].sid, run[r].ent)
    /\ \A k \in back : Rides(k.sid, k.ent)

LongOpKeepsTunnel ==
    \A x \in LongOps :
        long[x].pc = "holding" /\ long[x].tun \in alive /\ ~retired[long[x].ent]
            => current = long[x].ent /\ slot[current] = long[x].tun

\* The sessions of an entry share one tunnel, whoever opened it and however many asked for it
\* at the same time: a session on another one rides on a tunnel that has died.  And evict: "a
\* tunnel never closes under a running export"; the runs that follow share that export's
\* tunnel instead of opening a second one.
TunnelsHeld == OneTunnel /\ LongOpKeepsTunnel

\* A checkout that has begun ends, in a session or in an error, although others keep taking
\* what is returned, and although the server never answers: it waits once, CHECKIN_WAIT, and
\* everything it waits for after that has a timeout of its own.
CheckoutEnds ==
    \A r \in Runs : run[r].pc \in {"choose", "wait", "connect"}
                       ~> run[r].pc \in {"off", "readonly", "held"}

\* A session that comes back is parked or closed, whatever the server does with the reset.
ReturnsSettle ==
    \A s \in Sessions : (\E k \in back : k.sid = s) ~> (\A k \in back : k.sid # s)

\* lease.rs: a session "is closed instead of reset [...] when a call on it was dropped
\* half-way".
HalfwayIsClosed == \A k \in back : k.step = "reset" => ~k.half

=============================================================================
