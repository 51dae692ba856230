------------------------- MODULE SessionPoolProofs ---------------------------
(***************************************************************************)
(* The safety of the session pool, for every number of commands, sessions, *)
(* entries, tunnels and credentials.  First the shape of its state: every  *)
(* action keeps the types of the entries, leases, checkins and             *)
(* connections, and a lease, what it opens and what it holds stay in step. *)
(* Then that the counters of an entry are true: `leased' is the number of  *)
(* leases that are out on a lane, `pending' the number of sessions on      *)
(* their way to idle.  Both are finite sets, and every action adds or      *)
(* removes one element and moves the counter by one, or touches neither.   *)
(* Last PoolInv, which is inductive; the invariants the runs check follow  *)
(* from it.                                                                *)
(***************************************************************************)
EXTENDS SessionPool, FiniteSetTheorems, TLAPS

\* What a lease holds and opens follows from where it is, and an opener works on its own entry.
Links ==
    /\ \A r \in Runs :
         /\ run[r].pc = "off" => run[r].ent = None
         /\ run[r].pc # "off" => run[r].ent \in EntryIds /\ run[r].lane \in Lanes
         /\ run[r].sid # None <=> run[r].pc \in {"readonly", "held", "reconnect"}
         /\ opening[r].at # "no" <=> run[r].pc \in {"connect", "reconnect"}
         /\ opening[r].at # "no" => opening[r].ent = run[r].ent
    /\ \A e \in EntryIds : opening[e].at # "no" => opening[e].ent = e
    /\ \A x \in LongOps :
         /\ opening[x].at # "no" <=> long[x].pc = "opening"
         /\ opening[x].at # "no" => opening[x].ent \in EntryIds

\* open_session begins at the tunnel or at the connector.
LEMMA StartOf ==
    ASSUME NEW e PROVE Start(e).at \in {"tunnel", "connect"} /\ Start(e).ent = e /\ Start(e).tun = None
BY PoolAssumption DEF Start

\* Records keep their shape when a field is replaced.
LEMMA RunWith ==
    ASSUME NEW x \in RunState, NEW p \in RunPCs, NEW d \in Doubts
    PROVE  /\ [x EXCEPT !.pc = p] \in RunState
           /\ [x EXCEPT !.pc = p, !.waited = TRUE] \in RunState
           /\ [x EXCEPT !.pc = p, !.doubt = d] \in RunState
           /\ [x EXCEPT !.doubt = d] \in RunState
BY DEF RunState

\* A lease that gets a session keeps its shape.
LEMMA RunWithSession ==
    ASSUME NEW x \in RunState, NEW p \in RunPCs, NEW z \in Sessions, NEW d \in Doubts
    PROVE  /\ [x EXCEPT !.pc = p, !.sid = z] \in RunState
           /\ [x EXCEPT !.pc = p, !.sid = z, !.doubt = d] \in RunState
BY DEF RunState

\* An opener's record keeps its shape.
LEMMA OpenWith ==
    ASSUME NEW x \in OpenState, NEW t \in Tunnels \cup {None}
    PROVE  /\ [x EXCEPT !.at = "opening"] \in OpenState
           /\ [x EXCEPT !.at = "connect", !.tun = t] \in OpenState
BY DEF OpenState

\* A long operation's record keeps its shape.
LEMMA LongWith ==
    ASSUME NEW x \in LongState, NEW t \in Tunnels \cup {None}
    PROVE  [x EXCEPT !.pc = "holding", !.tun = t] \in LongState
BY DEF LongState

\* A connection's record keeps its shape.
LEMMA ConnWith ==
    ASSUME NEW x \in Connection, NEW b \in BOOLEAN
    PROVE  [x EXCEPT !.late = b] \in Connection
BY DEF Connection

\* A checkin keeps its shape when it moves on.
LEMMA ReturnWith ==
    ASSUME NEW x \in Return
    PROVE  [x EXCEPT !.step = "refill"] \in Return /\ [x EXCEPT !.step = "reset"] \in Return
BY DEF Return

\* The free connection is a connection.
LEMMA NoSessionType == NoSession \in Connection
BY DEF NoSession, Connection

\* The lease nobody has is a lease.
LEMMA NoRunType == NoRun \in RunState
BY DEF NoRun, RunState, RunPCs, Doubts

\* The long operation that is off is one.
LEMMA NoLongType == NoLong \in LongState
BY DEF NoLong, LongState

\* The opener that is idle is one.
LEMMA NotOpeningType == NotOpening \in OpenState
BY DEF NotOpening, OpenState

\* open_session begins with a record of the right shape.
LEMMA StartType ==
    ASSUME NEW e \in EntryIds \cup {None}
    PROVE  Start(e) \in OpenState
BY DEF Start, OpenState

\* A connector's answer is a connection, on the tunnel it was opened through.
LEMMA FreshType ==
    ASSUME TasksOK, NEW o \in Openers, NEW c \in Creds \cup {None}
    PROVE  Fresh(o, c) \in Connection
<1>1. opening[o].tun \in Tunnels \cup {None}
      BY DEF TasksOK, OpenState
<1> QED BY <1>1 DEF Fresh, Connection

\* Closing keeps the connections' shape.
LEMMA CloseType ==
    ASSUME TasksOK, NEW S
    PROVE  Close(S) \in [Sessions -> Connection]
BY NoSessionType DEF TasksOK, Close

\* What Held::release hands to checkin is a checkin.
LEMMA CheckinType ==
    ASSUME TasksOK, Links, NEW r \in Runs, run[r].pc \in {"readonly", "held"}, NEW half \in BOOLEAN
    PROVE  [sid |-> run[r].sid, ent |-> run[r].ent, fate |-> Fate(r), half |-> half,
            step |-> "decide"] \in Return
<1>1. run[r].sid \in Sessions /\ run[r].ent \in EntryIds
      BY DEF TasksOK, Links, RunState
<1>2. Fate(r) \in Fates
      BY DEF Fate, Fates
<1> QED BY <1>1, <1>2 DEF Return

\* entry_for closes sessions and does nothing else to them.
LEMMA EntryForSess ==
    ASSUME TasksOK, NEW c, NEW e, EntryFor(c, e)
    PROVE  sess' \in [Sessions -> Connection]
BY CloseType DEF EntryFor, SameEntry, NewEntry, TasksOK


\* Every action keeps the shape of the entries.
LEMMA EntriesStep ==
    ASSUME EntriesOK, TasksOK, Links, Next
    PROVE  EntriesOK'
<1> USE PoolAssumption DEF EntriesOK, TasksOK, Links, entryVars, Openers, OpenState, RunState,
                    Return
<1>1. ASSUME NEW r \in Runs, NEW l \in Lanes, NEW c \in Creds, NEW e \in EntryIds,
             Begin(r, l, c, e) PROVE EntriesOK'
  <2>1. CASE SameEntry(c, e)
        BY <1>1, <2>1 DEF Begin, NoRun, SameEntry
  <2>2. CASE NewEntry(c, e)
        BY <1>1, <2>2 DEF Begin, NoRun, NewEntry, SameKey, EntryLive, Holds, Close, NoSession
  <2> QED BY <1>1, <2>1, <2>2 DEF Begin, EntryFor
<1>2. ASSUME NEW r \in Runs, NEW s \in Sessions, Reuse(r, s) PROVE EntriesOK'
      BY <1>2 DEF Reuse, TakeIdle, Usable, CountLease, Close, NoSession
<1>3. ASSUME NEW r \in Runs, Wait(r) PROVE EntriesOK'
      BY <1>3 DEF Wait, Usable, Close, NoSession
<1>4. ASSUME NEW r \in Runs, WaitEnds(r) PROVE EntriesOK'
      BY <1>4 DEF WaitEnds
<1>5. ASSUME NEW r \in Runs, Open(r) PROVE EntriesOK'
      BY <1>5 DEF Open, Usable, Start, CountLease, Close, NoSession
<1>6. ASSUME NEW r \in Runs, StopEarly(r) PROVE EntriesOK'
      BY <1>6 DEF StopEarly, NoRun
<1>7. ASSUME NEW r \in Runs, NEW s \in Sessions, ConnectRun(r, s) PROVE EntriesOK'
      BY <1>7 DEF ConnectRun, Fresh, Unused, NotOpening
<1>8. ASSUME NEW r \in Runs, ReadOnly(r) PROVE EntriesOK'
      BY <1>8 DEF ReadOnly
<1>9. ASSUME NEW r \in Runs, StopReadOnly(r) PROVE EntriesOK'
      BY <1>9 DEF StopReadOnly, CheckinWith, Fate, NoRun
<1>10. ASSUME NEW r \in Runs, Call(r) PROVE EntriesOK'
      BY <1>10 DEF Call
<1>11. ASSUME NEW r \in Runs, Cancel(r) PROVE EntriesOK'
      BY <1>11 DEF Cancel
<1>12. ASSUME NEW r \in Runs, Reconnect(r) PROVE EntriesOK'
      BY <1>12 DEF Reconnect, Start
<1>13. ASSUME NEW r \in Runs, NEW s \in Sessions, ConnectAgain(r, s) PROVE EntriesOK'
      BY <1>13 DEF ConnectAgain, Fresh, Unused, NotOpening, NoSession
<1>14. ASSUME NEW r \in Runs, Release(r) PROVE EntriesOK'
      BY <1>14 DEF Release, CheckinWith, Fate, NoRun
<1>15. ASSUME NEW o \in Openers, ShareTunnel(o) PROVE EntriesOK'
      BY <1>15 DEF ShareTunnel
<1>16. ASSUME NEW o \in Openers, OpenTunnel(o) PROVE EntriesOK'
      BY <1>16 DEF OpenTunnel, Close, NoSession
<1>17. ASSUME NEW o \in Openers, NEW t \in Tunnels, TunnelOpened(o, t) PROVE EntriesOK'
      BY <1>17 DEF TunnelOpened
<1>18. ASSUME NEW o \in Openers, GiveUp(o) PROVE EntriesOK'
      BY <1>18 DEF GiveUp, NotOpening, NoRun, NoLong
<1>19. ASSUME NEW k \in back, CheckinDiscard(k) PROVE EntriesOK'
  <2>1. CASE k.fate = "DiscardAndRefill"
        BY <1>19, <2>1 DEF CheckinDiscard, Discarded, Close, NoSession
  <2>2. CASE k.fate # "DiscardAndRefill"
        BY <1>19, <2>2 DEF CheckinDiscard, Discarded, Close, NoSession
  <2> QED BY <1>19, <2>1, <2>2
<1>20. ASSUME NEW k \in back, CheckinReset(k) PROVE EntriesOK'
      BY <1>20 DEF CheckinReset, Discarded
<1>21. ASSUME NEW k \in back, ResetOk(k) PROVE EntriesOK'
  <2>1. k.sid \in Sessions /\ k.ent \in EntryIds
        OBVIOUS
  <2>2. idle' \in [EntryIds -> SUBSET Sessions]
        BY <1>21, <2>1 DEF ResetOk, Park
  <2> QED BY <1>21, <2>2 DEF ResetOk
<1>22. ASSUME NEW k \in back, ResetFails(k) PROVE EntriesOK'
      BY <1>22 DEF ResetFails, Close, NoSession
<1>23. ASSUME NEW k \in back, Refill(k) PROVE EntriesOK'
  <2>1. CASE MayOpenIdle(k.ent, FALSE)
        BY <1>23, <2>1 DEF Refill, MayOpenIdle, StartOpenIdle, Start, Close, NoSession
  <2>2. CASE ~MayOpenIdle(k.ent, FALSE)
        BY <1>23, <2>2 DEF Refill, MayOpenIdle, StartOpenIdle, Start, Close, NoSession
  <2> QED BY <1>23, <2>1, <2>2
<1>24. ASSUME NEW e \in EntryIds, NEW s \in Sessions, ConnectWarm(e, s) PROVE EntriesOK'
  <2>1. CASE NotParked(e)
        BY <1>24, <2>1 DEF ConnectWarm, Park, Fresh, Unused, NotOpening, Close, NoSession
  <2>2. CASE ~NotParked(e)
        BY SMTT(60), <1>24, <2>2 DEF ConnectWarm, Park, Fresh, Unused, NotOpening, Close, NoSession
  <2> QED BY <1>24, <2>1, <2>2
<1>25. ASSUME NEW e \in EntryIds, DropPending(e) PROVE EntriesOK'
      BY <1>25 DEF DropPending
<1>26. ASSUME NEW c \in Creds, NEW e \in EntryIds, Warm(c, e) PROVE EntriesOK'
  <2>1. CASE SameEntry(c, e)
        BY <1>26, <2>1 DEF Warm, SameEntry
  <2>2. CASE NewEntry(c, e)
        BY <1>26, <2>2 DEF Warm, NewEntry, SameKey, EntryLive, Holds, Close, NoSession
  <2> QED BY <1>26, <2>1, <2>2 DEF Warm, EntryFor
<1>27. ASSUME NEW e \in EntryIds, WarmOpens(e) PROVE EntriesOK'
  <2>1. CASE MayOpenIdle(e, TRUE)
        BY <1>27, <2>1 DEF WarmOpens, MayOpenIdle, StartOpenIdle, Start
  <2>2. CASE ~MayOpenIdle(e, TRUE)
        BY <1>27, <2>2 DEF WarmOpens, MayOpenIdle, StartOpenIdle, Start
  <2> QED BY <1>27, <2>1, <2>2
<1>28. ASSUME NEW x \in LongOps, NEW c \in Creds, NEW e \in EntryIds, BeginLong(x, c, e)
     PROVE  EntriesOK'
  <2>1. CASE SameEntry(c, e)
        BY <1>28, <2>1 DEF BeginLong, Start, SameEntry
  <2>2. CASE NewEntry(c, e)
        BY <1>28, <2>2 DEF BeginLong, Start, NewEntry, SameKey, EntryLive, Holds, Close,
                           NoSession
  <2> QED BY <1>28, <2>1, <2>2 DEF BeginLong, EntryFor
<1>29. ASSUME NEW x \in LongOps, ConnectLong(x) PROVE EntriesOK'
      BY <1>29 DEF ConnectLong, NotOpening
<1>30. ASSUME NEW x \in LongOps, EndLong(x) PROVE EntriesOK'
      BY <1>30 DEF EndLong, NoLong
<1>31. ASSUME NEW S \in SUBSET Sessions, EvictExpired(S) PROVE EntriesOK'
      BY <1>31 DEF EvictExpired, Close, NoSession
<1>32. ASSUME EvictEntry PROVE EntriesOK'
      BY <1>32 DEF EvictEntry, Holds
<1>33. ASSUME NEW s \in Sessions, CancelLands(s) PROVE EntriesOK'
      BY <1>33 DEF CancelLands
<1>34. ASSUME NEW t \in Tunnels, TunnelDies(t) PROVE EntriesOK'
      BY <1>34 DEF TunnelDies
<1> QED BY <1>1, <1>2, <1>3, <1>4, <1>5, <1>6, <1>7, <1>8, <1>9, <1>10, <1>11, <1>12, <1>13,
           <1>14, <1>15, <1>16, <1>17, <1>18, <1>19, <1>20, <1>21, <1>22, <1>23, <1>24, <1>25,
           <1>26, <1>27, <1>28, <1>29, <1>30, <1>31, <1>32, <1>33, <1>34
        DEF Next, Checkout, Lease, OpenStep, Checkin, Background, LongOp

\* Every action keeps the shape of the leases, the tasks and the connections.
LEMMA TasksStep ==
    ASSUME EntriesOK, TasksOK, Links, Next
    PROVE  TasksOK'
<1> USE PoolAssumption DEF EntriesOK, TasksOK, entryVars
<1>1. ASSUME NEW r \in Runs, NEW l \in Lanes, NEW c \in Creds, NEW e \in EntryIds,
             Begin(r, l, c, e) PROVE TasksOK'
  <2>1. run' \in [Runs -> RunState]
        BY <1>1 DEF Begin, NoRun, RunState, RunPCs, Doubts
  <2>2. sess' \in [Sessions -> Connection]
        BY <1>1, EntryForSess DEF Begin
  <2> QED BY <1>1, <2>1, <2>2 DEF Begin
<1>2. ASSUME NEW r \in Runs, NEW s \in Sessions, Reuse(r, s) PROVE TasksOK'
  <2>1. run' \in [Runs -> RunState]
        BY <1>2, RunWithSession DEF Reuse, RunPCs, Doubts
  <2>2. sess' \in [Sessions -> Connection]
        BY <1>2, CloseType DEF Reuse, Usable
  <2> QED BY <1>2, <2>1, <2>2 DEF Reuse
<1>3. ASSUME NEW r \in Runs, Wait(r) PROVE TasksOK'
  <2>1. run' \in [Runs -> RunState]
        BY <1>3, RunWith DEF Wait, RunPCs, Doubts
  <2>2. sess' \in [Sessions -> Connection]
        BY <1>3, CloseType DEF Wait
  <2> QED BY <1>3, <2>1, <2>2 DEF Wait
<1>4. ASSUME NEW r \in Runs, WaitEnds(r) PROVE TasksOK'
  <2>1. run' \in [Runs -> RunState]
        BY <1>4, RunWith DEF WaitEnds, RunPCs, Doubts
  <2> QED BY <1>4, <2>1 DEF WaitEnds
<1>5. ASSUME NEW r \in Runs, Open(r) PROVE TasksOK'
  <2>1. run' \in [Runs -> RunState]
        BY <1>5, RunWith DEF Open, RunPCs, Doubts
  <2>2. run[r].ent \in EntryIds \cup {None}
        BY <1>5 DEF RunState
  <2>3. opening' \in [Openers -> OpenState]
        BY <1>5, <2>2, StartType DEF Open
  <2>4. sess' \in [Sessions -> Connection]
        BY <1>5, CloseType DEF Open, Usable
  <2> QED BY <1>5, <2>1, <2>2, <2>3, <2>4 DEF Open
<1>6. ASSUME NEW r \in Runs, StopEarly(r) PROVE TasksOK'
  <2>1. run' \in [Runs -> RunState]
        BY <1>6 DEF StopEarly, NoRun, RunState, RunPCs, Doubts
  <2> QED BY <1>6, <2>1 DEF StopEarly
<1>7. ASSUME NEW r \in Runs, NEW s \in Sessions, ConnectRun(r, s) PROVE TasksOK'
  <2>1. run' \in [Runs -> RunState]
        BY <1>7, RunWithSession DEF ConnectRun, RunPCs, Doubts
  <2>2. opening' \in [Openers -> OpenState]
        BY <1>7, NotOpeningType DEF ConnectRun
  <2>3. sess' \in [Sessions -> Connection]
        BY <1>7, FreshType DEF ConnectRun, RunState, Openers
  <2> QED BY <1>7, <2>1, <2>2, <2>3 DEF ConnectRun
<1>8. ASSUME NEW r \in Runs, ReadOnly(r) PROVE TasksOK'
  <2>1. run' \in [Runs -> RunState]
        BY <1>8, RunWith DEF ReadOnly, RunPCs, Doubts
  <2> QED BY <1>8, <2>1 DEF ReadOnly
<1>9. ASSUME NEW r \in Runs, StopReadOnly(r) PROVE TasksOK'
  <2>1. run' \in [Runs -> RunState]
        BY <1>9 DEF StopReadOnly, CheckinWith, NoRun, RunState, RunPCs, Doubts
  <2>2. [sid |-> run[r].sid, ent |-> run[r].ent, fate |-> Fate(r),
         half |-> TRUE, step |-> "decide"] \in Return
        BY <1>9, CheckinType DEF StopReadOnly
  <2>3. back' \subseteq Return
        BY <1>9, <2>2 DEF StopReadOnly, CheckinWith
  <2> QED BY <1>9, <2>1, <2>2, <2>3 DEF StopReadOnly, CheckinWith
<1>10. ASSUME NEW r \in Runs, Call(r) PROVE TasksOK'
  <2>1. PICK d \in Doubts : run' = [run EXCEPT ![r].doubt = d]
        BY <1>10 DEF Call, Doubts
  <2>2. [run[r] EXCEPT !.doubt = d] \in RunState
        BY RunWith DEF RunPCs
  <2>3. run' \in [Runs -> RunState]
        BY <2>1, <2>2
  <2> QED BY <1>10, <2>3 DEF Call
<1>11. ASSUME NEW r \in Runs, Cancel(r) PROVE TasksOK'
  <2>1. run' \in [Runs -> RunState]
        BY <1>11, RunWith DEF Cancel, RunPCs, Doubts
  <2>2. sess' \in [Sessions -> Connection]
        BY <1>11, ConnWith DEF Cancel
  <2> QED BY <1>11, <2>1, <2>2 DEF Cancel
<1>12. ASSUME NEW r \in Runs, Reconnect(r) PROVE TasksOK'
  <2>1. run' \in [Runs -> RunState]
        BY <1>12, RunWith DEF Reconnect, RunPCs, Doubts
  <2>2. run[r].ent \in EntryIds \cup {None}
        BY <1>12 DEF RunState
  <2>3. opening' \in [Openers -> OpenState]
        BY <1>12, <2>2, StartType DEF Reconnect
  <2> QED BY <1>12, <2>1, <2>2, <2>3 DEF Reconnect
<1>13. ASSUME NEW r \in Runs, NEW s \in Sessions, ConnectAgain(r, s) PROVE TasksOK'
  <2>1. run' \in [Runs -> RunState]
        BY <1>13, RunWithSession DEF ConnectAgain, RunPCs, Doubts
  <2>2. opening' \in [Openers -> OpenState]
        BY <1>13, NotOpeningType DEF ConnectAgain
  <2>3. sess' \in [Sessions -> Connection]
        BY <1>13, FreshType, NoSessionType DEF ConnectAgain, RunState, Openers
  <2> QED BY <1>13, <2>1, <2>2, <2>3 DEF ConnectAgain
<1>14. ASSUME NEW r \in Runs, Release(r) PROVE TasksOK'
  <2>1. run' \in [Runs -> RunState]
        BY <1>14 DEF Release, CheckinWith, NoRun, RunState, RunPCs, Doubts
  <2>2. [sid |-> run[r].sid, ent |-> run[r].ent, fate |-> Fate(r),
         half |-> run[r].doubt = "unsettled", step |-> "decide"] \in Return
        BY <1>14, CheckinType DEF Release
  <2>3. back' \subseteq Return
        BY <1>14, <2>2 DEF Release, CheckinWith
  <2> QED BY <1>14, <2>1, <2>2, <2>3 DEF Release, CheckinWith
<1>15. ASSUME NEW o \in Openers, ShareTunnel(o) PROVE TasksOK'
  <2>1. opening' \in [Openers -> OpenState]
        BY <1>15, OpenWith DEF ShareTunnel
  <2> QED BY <1>15, <2>1 DEF ShareTunnel
<1>16. ASSUME NEW o \in Openers, OpenTunnel(o) PROVE TasksOK'
  <2>1. opening' \in [Openers -> OpenState]
        BY <1>16, OpenWith DEF OpenTunnel
  <2>2. sess' \in [Sessions -> Connection]
        BY <1>16, CloseType DEF OpenTunnel
  <2> QED BY <1>16, <2>1, <2>2 DEF OpenTunnel
<1>17. ASSUME NEW o \in Openers, NEW t \in Tunnels, TunnelOpened(o, t) PROVE TasksOK'
  <2>1. opening' \in [Openers -> OpenState]
        BY <1>17, OpenWith DEF TunnelOpened
  <2>2. alive' \subseteq Tunnels
        BY <1>17 DEF TunnelOpened
  <2> QED BY <1>17, <2>1, <2>2 DEF TunnelOpened
<1>18. ASSUME NEW o \in Openers, GiveUp(o) PROVE TasksOK'
  <2>1. o \in Runs => [run[o] EXCEPT !.pc = "held"] \in RunState
        BY <1>18, RunWith DEF RunPCs, Doubts
  <2>2. run' \in [Runs -> RunState]
        BY <1>18, <2>1, NoRunType DEF GiveUp
  <2>3. opening' \in [Openers -> OpenState]
        BY <1>18, NotOpeningType DEF GiveUp
  <2>4. long' \in [LongOps -> LongState]
        BY <1>18, NoLongType DEF GiveUp
  <2> QED BY <1>18, <2>1, <2>2, <2>3, <2>4 DEF GiveUp
<1>19. ASSUME NEW k \in back, CheckinDiscard(k) PROVE TasksOK'
  <2>1. k \in Return /\ k.sid \in Sessions
        BY <1>19 DEF Return
  <2>2. [k EXCEPT !.step = "refill"] \in Return
        BY <1>19, <2>1, ReturnWith
  <2>3. back' \subseteq Return
        BY <1>19, <2>2 DEF CheckinDiscard
  <2>4. sess' \in [Sessions -> Connection]
        BY <1>19, <2>1, CloseType DEF CheckinDiscard
  <2> QED BY <1>19, <2>1, <2>2, <2>3, <2>4 DEF CheckinDiscard
<1>20. ASSUME NEW k \in back, CheckinReset(k) PROVE TasksOK'
  <2>1. back' \subseteq Return
        BY <1>20, ReturnWith DEF CheckinReset
  <2> QED BY <1>20, <2>1 DEF CheckinReset
<1>21. ASSUME NEW k \in back, ResetOk(k) PROVE TasksOK'
  <2>1. k.sid \in Sessions /\ sess[k.sid] \in Connection
        BY <1>21 DEF Return
  <2>2. sess' \in [Sessions -> Connection]
        BY <1>21, <2>1, CloseType DEF ResetOk, Park
  <2>3. back' \subseteq Return
        BY <1>21 DEF ResetOk
  <2> QED BY <1>21, <2>1, <2>2, <2>3 DEF ResetOk
<1>22. ASSUME NEW k \in back, ResetFails(k) PROVE TasksOK'
  <2>1. k.sid \in Sessions
        BY <1>22 DEF Return
  <2>2. sess' \in [Sessions -> Connection]
        BY <1>22, <2>1, CloseType DEF ResetFails
  <2>3. back' \subseteq Return
        BY <1>22 DEF ResetFails
  <2> QED BY <1>22, <2>1, <2>2, <2>3 DEF ResetFails
<1>23. ASSUME NEW k \in back, Refill(k) PROVE TasksOK'
  <2>1. k.sid \in Sessions /\ k.ent \in EntryIds
        BY <1>23 DEF Return
  <2>2. sess' \in [Sessions -> Connection]
        BY <1>23, <2>1, CloseType DEF Refill
  <2>3. Start(k.ent) \in OpenState
        BY <1>23, <2>1, StartType
  <2>4. opening' \in [Openers -> OpenState]
    <3>1. opening' = opening \/ opening' = [opening EXCEPT ![k.ent] = Start(k.ent)]
          BY <1>23 DEF Refill, StartOpenIdle
    <3> HIDE DEF OpenState
    <3> QED BY <2>3, <3>1
  <2>5. back' \subseteq Return
        BY <1>23 DEF Refill
  <2> QED BY <1>23, <2>1, <2>2, <2>3, <2>4, <2>5 DEF Refill
<1>24. ASSUME NEW e \in EntryIds, NEW s \in Sessions, ConnectWarm(e, s) PROVE TasksOK'
  <2>1. opening' \in [Openers -> OpenState]
        BY <1>24, NotOpeningType DEF ConnectWarm
  <2>2. Fresh(e, cred[e]) \in Connection
        BY <1>24, FreshType DEF Openers
  <2>3. sess' \in [Sessions -> Connection]
        BY <1>24, <2>2, CloseType DEF ConnectWarm, Park
  <2> QED BY <1>24, <2>1, <2>2, <2>3 DEF ConnectWarm
<1>25. ASSUME NEW e \in EntryIds, DropPending(e) PROVE TasksOK'
      BY <1>25 DEF DropPending
<1>26. ASSUME NEW c \in Creds, NEW e \in EntryIds, Warm(c, e) PROVE TasksOK'
  <2>1. sess' \in [Sessions -> Connection]
        BY <1>26, EntryForSess DEF Warm
  <2> QED BY <1>26, <2>1 DEF Warm
<1>27. ASSUME NEW e \in EntryIds, WarmOpens(e) PROVE TasksOK'
  <2>1. Start(e) \in OpenState
        BY <1>27, StartType
  <2>2. opening' \in [Openers -> OpenState]
    <3>1. opening' = opening \/ opening' = [opening EXCEPT ![e] = Start(e)]
          BY <1>27 DEF WarmOpens, StartOpenIdle
    <3> HIDE DEF OpenState
    <3> QED BY <2>1, <3>1
  <2> QED BY <1>27, <2>1, <2>2 DEF WarmOpens
<1>28. ASSUME NEW x \in LongOps, NEW c \in Creds, NEW e \in EntryIds, BeginLong(x, c, e)
     PROVE  TasksOK'
  <2>1. sess' \in [Sessions -> Connection]
        BY <1>28, EntryForSess DEF BeginLong
  <2>2. opening' \in [Openers -> OpenState]
        BY <1>28, StartType DEF BeginLong
  <2>3. long' \in [LongOps -> LongState]
        BY <1>28 DEF BeginLong, LongState
  <2> QED BY <1>28, <2>1, <2>2, <2>3 DEF BeginLong
<1>29. ASSUME NEW x \in LongOps, ConnectLong(x) PROVE TasksOK'
  <2>1. opening' \in [Openers -> OpenState]
        BY <1>29, NotOpeningType DEF ConnectLong
  <2>2. opening[x].tun \in Tunnels \cup {None}
        BY <1>29 DEF OpenState, Openers
  <2>3. long' \in [LongOps -> LongState]
        BY <1>29, <2>2, LongWith DEF ConnectLong
  <2> QED BY <1>29, <2>1, <2>2, <2>3 DEF ConnectLong
<1>30. ASSUME NEW x \in LongOps, EndLong(x) PROVE TasksOK'
  <2>1. long' \in [LongOps -> LongState]
        BY <1>30, NoLongType DEF EndLong
  <2> QED BY <1>30, <2>1 DEF EndLong
<1>31. ASSUME NEW S \in SUBSET Sessions, EvictExpired(S) PROVE TasksOK'
  <2>1. sess' \in [Sessions -> Connection]
        BY <1>31, CloseType DEF EvictExpired
  <2> QED BY <1>31, <2>1 DEF EvictExpired
<1>32. ASSUME EvictEntry PROVE TasksOK'
      BY <1>32 DEF EvictEntry
<1>33. ASSUME NEW s \in Sessions, CancelLands(s) PROVE TasksOK'
  <2>1. sess' \in [Sessions -> Connection]
        BY <1>33, ConnWith DEF CancelLands
  <2> QED BY <1>33, <2>1 DEF CancelLands
<1>34. ASSUME NEW t \in Tunnels, TunnelDies(t) PROVE TasksOK'
  <2>1. alive' \subseteq Tunnels
        BY <1>34 DEF TunnelDies
  <2> QED BY <1>34, <2>1 DEF TunnelDies
<1> QED BY <1>1, <1>2, <1>3, <1>4, <1>5, <1>6, <1>7, <1>8, <1>9, <1>10, <1>11, <1>12, <1>13,
           <1>14, <1>15, <1>16, <1>17, <1>18, <1>19, <1>20, <1>21, <1>22, <1>23, <1>24, <1>25,
           <1>26, <1>27, <1>28, <1>29, <1>30, <1>31, <1>32, <1>33, <1>34
        DEF Next, Checkout, Lease, OpenStep, Checkin, Background, LongOp

\* Every action keeps a lease, what it opens and what it holds in step.
LEMMA LinksStep ==
    ASSUME EntriesOK, TasksOK, Links, Next
    PROVE  Links'
<1> USE PoolAssumption DEF EntriesOK, TasksOK, Links, RunState, OpenState, LongState,
                    Connection, Return, RunPCs, Doubts, Fates, Openers, entryVars
<1>1. ASSUME NEW r \in Runs, NEW l \in Lanes, NEW c \in Creds, NEW e \in EntryIds,
             Begin(r, l, c, e) PROVE Links'
  <2>1. CASE SameEntry(c, e)
        BY <1>1, <2>1 DEF Begin, NoRun, SameEntry
  <2>2. CASE NewEntry(c, e)
        BY <1>1, <2>2 DEF Begin, NoRun, NewEntry, SameKey, EntryLive, Holds, Close, NoSession
  <2> QED BY <1>1, <2>1, <2>2 DEF Begin, EntryFor
<1>2. ASSUME NEW r \in Runs, NEW s \in Sessions, Reuse(r, s) PROVE Links'
      BY <1>2 DEF Reuse, TakeIdle, Usable, CountLease, Close, NoSession
<1>3. ASSUME NEW r \in Runs, Wait(r) PROVE Links'
      BY <1>3 DEF Wait, Usable, Close, NoSession
<1>4. ASSUME NEW r \in Runs, WaitEnds(r) PROVE Links'
      BY <1>4 DEF WaitEnds
<1>5. ASSUME NEW r \in Runs, Open(r) PROVE Links'
      BY <1>5 DEF Open, Usable, Start, CountLease, Close, NoSession
<1>6. ASSUME NEW r \in Runs, StopEarly(r) PROVE Links'
      BY <1>6 DEF StopEarly, NoRun
<1>7. ASSUME NEW r \in Runs, NEW s \in Sessions, ConnectRun(r, s) PROVE Links'
      BY <1>7 DEF ConnectRun, Fresh, Unused, NotOpening
<1>8. ASSUME NEW r \in Runs, ReadOnly(r) PROVE Links'
      BY <1>8 DEF ReadOnly
<1>9. ASSUME NEW r \in Runs, StopReadOnly(r) PROVE Links'
      BY <1>9 DEF StopReadOnly, CheckinWith, Fate, NoRun
<1>10. ASSUME NEW r \in Runs, Call(r) PROVE Links'
      BY <1>10 DEF Call
<1>11. ASSUME NEW r \in Runs, Cancel(r) PROVE Links'
      BY <1>11 DEF Cancel
<1>12. ASSUME NEW r \in Runs, Reconnect(r) PROVE Links'
      BY <1>12 DEF Reconnect, Start
<1>13. ASSUME NEW r \in Runs, NEW s \in Sessions, ConnectAgain(r, s) PROVE Links'
      BY <1>13 DEF ConnectAgain, Fresh, Unused, NotOpening, NoSession
<1>14. ASSUME NEW r \in Runs, Release(r) PROVE Links'
      BY <1>14 DEF Release, CheckinWith, Fate, NoRun
<1>15. ASSUME NEW o \in Openers, ShareTunnel(o) PROVE Links'
      BY <1>15 DEF ShareTunnel
<1>16. ASSUME NEW o \in Openers, OpenTunnel(o) PROVE Links'
      BY <1>16 DEF OpenTunnel, Close, NoSession
<1>17. ASSUME NEW o \in Openers, NEW t \in Tunnels, TunnelOpened(o, t) PROVE Links'
      BY <1>17 DEF TunnelOpened
<1>18. ASSUME NEW o \in Openers, GiveUp(o) PROVE Links'
      BY <1>18 DEF GiveUp, NotOpening, NoRun, NoLong
<1>19. ASSUME NEW k \in back, CheckinDiscard(k) PROVE Links'
  <2>1. CASE k.fate = "DiscardAndRefill"
        BY <1>19, <2>1 DEF CheckinDiscard, Discarded, Close, NoSession
  <2>2. CASE k.fate # "DiscardAndRefill"
        BY <1>19, <2>2 DEF CheckinDiscard, Discarded, Close, NoSession
  <2> QED BY <1>19, <2>1, <2>2
<1>20. ASSUME NEW k \in back, CheckinReset(k) PROVE Links'
      BY <1>20 DEF CheckinReset, Discarded
<1>21. ASSUME NEW k \in back, ResetOk(k) PROVE Links'
  <2>1. CASE NotParked(k.ent)
        BY <1>21, <2>1 DEF ResetOk, Park, Close, NoSession
  <2>2. CASE ~NotParked(k.ent)
        BY <1>21, <2>2 DEF ResetOk, Park, Close, NoSession
  <2> QED BY <1>21, <2>1, <2>2
<1>22. ASSUME NEW k \in back, ResetFails(k) PROVE Links'
      BY <1>22 DEF ResetFails, Close, NoSession
<1>23. ASSUME NEW k \in back, Refill(k) PROVE Links'
  <2>1. CASE MayOpenIdle(k.ent, FALSE)
    <3>1. opening' = [opening EXCEPT ![k.ent] = Start(k.ent)] /\ k.ent \in EntryIds
          BY <1>23, <2>1 DEF Refill, StartOpenIdle
    <3> QED BY <1>23, <3>1, StartOf DEF Refill
  <2>2. CASE ~MayOpenIdle(k.ent, FALSE)
        BY <1>23, <2>2 DEF Refill
  <2> QED BY <2>1, <2>2
<1>24. ASSUME NEW e \in EntryIds, NEW s \in Sessions, ConnectWarm(e, s) PROVE Links'
  <2>1. CASE NotParked(e)
        BY <1>24, <2>1 DEF ConnectWarm, Park, Fresh, Unused, NotOpening, Close, NoSession
  <2>2. CASE ~NotParked(e)
        BY <1>24, <2>2 DEF ConnectWarm, Park, Fresh, Unused, NotOpening, Close, NoSession
  <2> QED BY <1>24, <2>1, <2>2
<1>25. ASSUME NEW e \in EntryIds, DropPending(e) PROVE Links'
      BY <1>25 DEF DropPending
<1>26. ASSUME NEW c \in Creds, NEW e \in EntryIds, Warm(c, e) PROVE Links'
  <2>1. CASE SameEntry(c, e)
        BY <1>26, <2>1 DEF Warm, SameEntry
  <2>2. CASE NewEntry(c, e)
        BY <1>26, <2>2 DEF Warm, NewEntry, SameKey, EntryLive, Holds, Close, NoSession
  <2> QED BY <1>26, <2>1, <2>2 DEF Warm, EntryFor
<1>27. ASSUME NEW e \in EntryIds, WarmOpens(e) PROVE Links'
  <2>1. CASE MayOpenIdle(e, TRUE)
    <3>1. opening' = [opening EXCEPT ![e] = Start(e)] /\ e \in EntryIds
          BY <1>27, <2>1 DEF WarmOpens, StartOpenIdle
    <3> QED BY <1>27, <3>1, StartOf DEF WarmOpens
  <2>2. CASE ~MayOpenIdle(e, TRUE)
        BY <1>27, <2>2 DEF WarmOpens
  <2> QED BY <2>1, <2>2
<1>28. ASSUME NEW x \in LongOps, NEW c \in Creds, NEW e \in EntryIds, BeginLong(x, c, e)
     PROVE  Links'
  <2>1. CASE SameEntry(c, e)
        BY <1>28, <2>1 DEF BeginLong, Start, SameEntry
  <2>2. CASE NewEntry(c, e)
        BY <1>28, <2>2 DEF BeginLong, Start, NewEntry, SameKey, EntryLive, Holds, Close,
                           NoSession
  <2> QED BY <1>28, <2>1, <2>2 DEF BeginLong, EntryFor
<1>29. ASSUME NEW x \in LongOps, ConnectLong(x) PROVE Links'
      BY <1>29 DEF ConnectLong, NotOpening
<1>30. ASSUME NEW x \in LongOps, EndLong(x) PROVE Links'
      BY <1>30 DEF EndLong, NoLong
<1>31. ASSUME NEW S \in SUBSET Sessions, EvictExpired(S) PROVE Links'
      BY <1>31 DEF EvictExpired, Close, NoSession
<1>32. ASSUME EvictEntry PROVE Links'
      BY <1>32 DEF EvictEntry, Holds
<1>33. ASSUME NEW s \in Sessions, CancelLands(s) PROVE Links'
      BY <1>33 DEF CancelLands
<1>34. ASSUME NEW t \in Tunnels, TunnelDies(t) PROVE Links'
      BY <1>34 DEF TunnelDies
<1> QED BY <1>1, <1>2, <1>3, <1>4, <1>5, <1>6, <1>7, <1>8, <1>9, <1>10, <1>11, <1>12, <1>13,
           <1>14, <1>15, <1>16, <1>17, <1>18, <1>19, <1>20, <1>21, <1>22, <1>23, <1>24, <1>25,
           <1>26, <1>27, <1>28, <1>29, <1>30, <1>31, <1>32, <1>33, <1>34
        DEF Next, Checkout, Lease, OpenStep, Checkin, Background, LongOp

(***************************************************************************)
(* The counters                                                            *)
(***************************************************************************)

\* The lane counts are the leases that are out.
LeasesTrue ==
    /\ leased \in [EntryIds -> [Lanes -> Nat]]
    /\ \A e \in EntryIds : \A l \in Lanes : leased[e][l] = Cardinality(OutOn(e, l))

\* The leases out on a lane are finitely many.
LEMMA OutFinite ==
    ASSUME NEW e, NEW l
    PROVE  IsFiniteSet(OutOn(e, l)) /\ Cardinality(OutOn(e, l)) \in Nat
<1>1. OutOn(e, l) \subseteq Runs
      BY DEF OutOn
<1> QED BY <1>1, PoolAssumption, FS_Subset, FS_CardinalityType

\* No lease began or ended.
LEMMA LeaseKept ==
    ASSUME LeasesTrue, leased' = leased,
           \A r \in Runs : /\ Guarded(r)' <=> Guarded(r)
                           /\ Guarded(r) => /\ run'[r].ent = run[r].ent
                                            /\ run'[r].lane = run[r].lane
    PROVE  LeasesTrue'
<1>1. \A e, l : OutOn(e, l)' = OutOn(e, l)
      BY DEF OutOn
<1> QED BY <1>1 DEF LeasesTrue

\* A LeaseGuard is made: one lease and one count more.
LEMMA LeaseTaken ==
    ASSUME LeasesTrue, NEW r \in Runs, NEW f \in EntryIds, NEW m \in Lanes,
           run[r].ent = f, run[r].lane = m,
           ~Guarded(r), Guarded(r)',
           run'[r].ent = f, run'[r].lane = m,
           \A q \in Runs : q # r => run'[q] = run[q],
           leased' = [leased EXCEPT ![f][m] = @ + 1]
    PROVE  LeasesTrue'
<1>1. OutOn(f, m)' = OutOn(f, m) \cup {r} /\ r \notin OutOn(f, m)
      BY DEF OutOn, Guarded
<1>2. \A e, l : e # f \/ l # m => OutOn(e, l)' = OutOn(e, l)
      BY DEF OutOn, Guarded
<1>3. Cardinality(OutOn(f, m)') = Cardinality(OutOn(f, m)) + 1
      BY <1>1, OutFinite, FS_AddElement
<1>4. leased' \in [EntryIds -> [Lanes -> Nat]]
      BY DEF LeasesTrue
<1>5. \A e \in EntryIds : \A l \in Lanes :
        leased'[e][l] = IF e = f /\ l = m THEN leased[e][l] + 1 ELSE leased[e][l]
      BY DEF LeasesTrue
<1> QED BY <1>2, <1>3, <1>4, <1>5 DEF LeasesTrue

\* A LeaseGuard is dropped: one lease and one count less.
LEMMA LeaseGivenBack ==
    ASSUME LeasesTrue, NEW r \in Runs, NEW f \in EntryIds, NEW m \in Lanes,
           run[r].ent = f, run[r].lane = m,
           Guarded(r), ~Guarded(r)',
           \A q \in Runs : q # r => run'[q] = run[q],
           leased' = [leased EXCEPT ![f][m] = @ - 1]
    PROVE  LeasesTrue'
<1>0. \A q \in Runs : q # r => (Guarded(q)' <=> Guarded(q))
      BY DEF Guarded
<1>1. OutOn(f, m)' = OutOn(f, m) \ {r} /\ r \in OutOn(f, m)
      BY <1>0 DEF OutOn
<1>2. \A e, l : e # f \/ l # m => OutOn(e, l)' = OutOn(e, l)
      BY DEF OutOn, Guarded
<1>3. /\ Cardinality(OutOn(f, m)') = Cardinality(OutOn(f, m)) - 1
      /\ Cardinality(OutOn(f, m)') \in Nat /\ Cardinality(OutOn(f, m)) \in Nat
      <2>1. IsFiniteSet(OutOn(f, m) \ {r})
            BY OutFinite, FS_Subset
      <2> QED BY <1>1, <2>1, OutFinite, FS_RemoveElement, FS_CardinalityType
<1>4. leased[f][m] - 1 \in Nat
      BY <1>3 DEF LeasesTrue
<1>5. leased' \in [EntryIds -> [Lanes -> Nat]]
      BY <1>4 DEF LeasesTrue
<1>6. \A e \in EntryIds : \A l \in Lanes :
        leased'[e][l] = IF e = f /\ l = m THEN leased[e][l] - 1 ELSE leased[e][l]
      BY DEF LeasesTrue
<1>7. ASSUME NEW e \in EntryIds, NEW l \in Lanes
      PROVE  leased'[e][l] = Cardinality(OutOn(e, l)')
      <2>1. CASE e = f /\ l = m
            BY <1>3, <1>6, <2>1 DEF LeasesTrue
      <2>2. CASE e # f \/ l # m
            BY <1>2, <1>6, <2>2 DEF LeasesTrue
      <2> QED BY <2>1, <2>2
<1> QED BY <1>5, <1>7 DEF LeasesTrue

\* The pending counts are the sessions on their way to idle.
PendingTrue ==
    /\ pending \in [EntryIds -> Nat]
    /\ parked \in [EntryIds -> Nat]
    /\ IsFiniteSet(back)
    /\ \A e \in EntryIds : pending[e] = parked[e] + Cardinality(Returning(e)) + Warmup(e)

\* The checkins of an entry are finitely many.
LEMMA ReturningFinite ==
    ASSUME IsFiniteSet(back), NEW e
    PROVE  IsFiniteSet(Returning(e)) /\ Cardinality(Returning(e)) \in Nat
<1>1. Returning(e) \subseteq back
      BY DEF Returning
<1> QED BY <1>1, FS_Subset, FS_CardinalityType

\* A checkin begins.
LEMMA ReturnStarts ==
    ASSUME IsFiniteSet(back), NEW f, NEW n, n \notin back, n.ent = f, n.step # "refill",
           back' = back \cup {n}
    PROVE  /\ IsFiniteSet(back')
           /\ Cardinality(Returning(f)') = Cardinality(Returning(f)) + 1
           /\ \A e : e # f => Returning(e)' = Returning(e)
<1>1. Returning(f)' = Returning(f) \cup {n} /\ n \notin Returning(f)
      BY DEF Returning
<1>2. \A e : e # f => Returning(e)' = Returning(e)
      BY DEF Returning
<1> QED BY <1>1, <1>2, ReturningFinite, FS_AddElement

\* A checkin ends, or goes on as something no checkout waits for.
LEMMA ReturnEnds ==
    ASSUME IsFiniteSet(back), NEW f, NEW k \in back, k.ent = f, k.step # "refill", NEW n,
           n.step = "refill", back' \in {back \ {k}, (back \ {k}) \cup {n}}
    PROVE  /\ IsFiniteSet(back')
           /\ Cardinality(Returning(f)) \in Nat /\ Cardinality(Returning(f)) >= 1
           /\ Cardinality(Returning(f)') = Cardinality(Returning(f)) - 1
           /\ \A e : e # f => Returning(e)' = Returning(e)
<1>1. Returning(f)' = Returning(f) \ {k} /\ k \in Returning(f)
      BY DEF Returning
<1>2. \A e : e # f => Returning(e)' = Returning(e)
      BY DEF Returning
<1>3. IsFiniteSet(back \ {k})
      BY FS_Subset
<1>6. IsFiniteSet((back \ {k}) \cup {n})
      BY <1>3, FS_AddElement
<1>4. IsFiniteSet(back')
      BY <1>3, <1>6
<1>5. IsFiniteSet(Returning(f) \ {k}) /\ Cardinality(Returning(f) \ {k}) \in Nat
      BY <1>1, ReturningFinite, FS_Subset, FS_CardinalityType
<1> QED BY <1>1, <1>2, <1>4, <1>5, ReturningFinite, FS_RemoveElement

\* A checkin goes on to its reset.
LEMMA ReturnGoesOn ==
    ASSUME IsFiniteSet(back), NEW f, NEW k \in back, k.ent = f, k.step # "refill", NEW n,
           n \notin back, n.ent = f, n.step # "refill", back' = (back \ {k}) \cup {n}
    PROVE  /\ IsFiniteSet(back')
           /\ Cardinality(Returning(f)') = Cardinality(Returning(f))
           /\ \A e : e # f => Returning(e)' = Returning(e)
<1>1. Returning(f)' = (Returning(f) \ {k}) \cup {n} /\ k \in Returning(f) /\ n \notin Returning(f)
      BY DEF Returning
<1>2. \A e : e # f => Returning(e)' = Returning(e)
      BY DEF Returning
<1>3. IsFiniteSet(back \ {k})
      BY FS_Subset
<1>4. IsFiniteSet(back')
      BY <1>3, FS_AddElement
<1>5. /\ IsFiniteSet(Returning(f) \ {k})
      /\ Cardinality(Returning(f) \ {k}) = Cardinality(Returning(f)) - 1
      BY <1>1, ReturningFinite, FS_Subset, FS_RemoveElement
<1>6. Cardinality(Returning(f)') = Cardinality(Returning(f) \ {k}) + 1
      BY <1>1, <1>5, FS_AddElement
<1> QED BY <1>2, <1>4, <1>5, <1>6, ReturningFinite

\* Nothing moved that pending counts.
LEMMA PendingKept ==
    ASSUME PendingTrue, UNCHANGED <<pending, parked>>, IsFiniteSet(back'),
           \A e \in EntryIds : Returning(e)' = Returning(e) /\ Warmup(e)' = Warmup(e)
    PROVE  PendingTrue'
BY DEF PendingTrue

\* Every action keeps the lane counts.
LEMMA LeasesStep ==
    ASSUME TasksOK, Links, LeasesTrue, Next
    PROVE  LeasesTrue'
<1> USE PoolAssumption DEF TasksOK, Links, RunState, RunPCs, Guarded, entryVars
<1>1. ASSUME NEW r \in Runs, NEW l \in Lanes, NEW c \in Creds, NEW e \in EntryIds,
             Begin(r, l, c, e) PROVE LeasesTrue'
      BY <1>1, LeaseKept DEF Begin, NoRun
<1>2. ASSUME NEW r \in Runs, NEW s \in Sessions, Reuse(r, s) PROVE LeasesTrue'
  <2>1. /\ run[r].ent \in EntryIds /\ run[r].lane \in Lanes /\ ~Guarded(r) /\ Guarded(r)'
        /\ run'[r].ent = run[r].ent /\ run'[r].lane = run[r].lane
        /\ \A q \in Runs : q # r => run'[q] = run[q]
        BY <1>2 DEF Reuse
  <2> QED BY <1>2, <2>1, LeaseTaken DEF Reuse, CountLease
<1>3. ASSUME NEW r \in Runs, Wait(r) PROVE LeasesTrue'
      BY <1>3, LeaseKept DEF Wait
<1>4. ASSUME NEW r \in Runs, WaitEnds(r) PROVE LeasesTrue'
      BY <1>4, LeaseKept DEF WaitEnds
<1>5. ASSUME NEW r \in Runs, Open(r) PROVE LeasesTrue'
  <2>1. /\ run[r].ent \in EntryIds /\ run[r].lane \in Lanes /\ ~Guarded(r) /\ Guarded(r)'
        /\ run'[r].ent = run[r].ent /\ run'[r].lane = run[r].lane
        /\ \A q \in Runs : q # r => run'[q] = run[q]
        BY <1>5 DEF Open
  <2> QED BY <1>5, <2>1, LeaseTaken DEF Open, CountLease
<1>6. ASSUME NEW r \in Runs, StopEarly(r) PROVE LeasesTrue'
      BY <1>6, LeaseKept DEF StopEarly, NoRun
<1>7. ASSUME NEW r \in Runs, NEW s \in Sessions, ConnectRun(r, s) PROVE LeasesTrue'
      BY <1>7, LeaseKept DEF ConnectRun
<1>8. ASSUME NEW r \in Runs, ReadOnly(r) PROVE LeasesTrue'
      BY <1>8, LeaseKept DEF ReadOnly
<1>9. ASSUME NEW r \in Runs, StopReadOnly(r) PROVE LeasesTrue'
  <2>1. /\ run[r].ent \in EntryIds /\ run[r].lane \in Lanes /\ Guarded(r) /\ ~Guarded(r)'
        /\ \A q \in Runs : q # r => run'[q] = run[q]
        BY <1>9 DEF StopReadOnly, CheckinWith, NoRun
  <2> QED BY <1>9, <2>1, LeaseGivenBack DEF StopReadOnly, CheckinWith
<1>10. ASSUME NEW r \in Runs, Call(r) PROVE LeasesTrue'
      BY <1>10, LeaseKept DEF Call
<1>11. ASSUME NEW r \in Runs, Cancel(r) PROVE LeasesTrue'
      BY <1>11, LeaseKept DEF Cancel
<1>12. ASSUME NEW r \in Runs, Reconnect(r) PROVE LeasesTrue'
      BY <1>12, LeaseKept DEF Reconnect
<1>13. ASSUME NEW r \in Runs, NEW s \in Sessions, ConnectAgain(r, s) PROVE LeasesTrue'
      BY <1>13, LeaseKept DEF ConnectAgain
<1>14. ASSUME NEW r \in Runs, Release(r) PROVE LeasesTrue'
  <2>1. /\ run[r].ent \in EntryIds /\ run[r].lane \in Lanes /\ Guarded(r) /\ ~Guarded(r)'
        /\ \A q \in Runs : q # r => run'[q] = run[q]
        BY <1>14 DEF Release, CheckinWith, NoRun
  <2> QED BY <1>14, <2>1, LeaseGivenBack DEF Release, CheckinWith
<1>15. ASSUME NEW o \in Openers, ShareTunnel(o) PROVE LeasesTrue'
      BY <1>15, LeaseKept DEF ShareTunnel
<1>16. ASSUME NEW o \in Openers, OpenTunnel(o) PROVE LeasesTrue'
      BY <1>16, LeaseKept DEF OpenTunnel
<1>17. ASSUME NEW o \in Openers, NEW t \in Tunnels, TunnelOpened(o, t) PROVE LeasesTrue'
      BY <1>17, LeaseKept DEF TunnelOpened
<1>18. ASSUME NEW o \in Openers, GiveUp(o) PROVE LeasesTrue'
  <2>1. CASE CountedByGuard(o)
    <3>1. /\ o \in Runs /\ run[o].ent \in EntryIds /\ run[o].lane \in Lanes
          /\ opening[o].ent = run[o].ent /\ Guarded(o) /\ ~Guarded(o)'
          /\ \A q \in Runs : q # o => run'[q] = run[q]
          BY <1>18, <2>1 DEF GiveUp, CountedByGuard, NoRun
    <3> QED BY <1>18, <2>1, <3>1, LeaseGivenBack DEF GiveUp
  <2>2. CASE ~CountedByGuard(o)
    <3>1. \A r \in Runs : /\ Guarded(r)' <=> Guarded(r)
                          /\ Guarded(r) => /\ run'[r].ent = run[r].ent
                                           /\ run'[r].lane = run[r].lane
          BY <1>18, <2>2 DEF GiveUp, CountedByGuard, NoRun
    <3> QED BY <1>18, <2>2, <3>1, LeaseKept DEF GiveUp
  <2> QED BY <2>1, <2>2
<1>19. ASSUME NEW k \in back, CheckinDiscard(k) PROVE LeasesTrue'
      BY <1>19, LeaseKept DEF CheckinDiscard
<1>20. ASSUME NEW k \in back, CheckinReset(k) PROVE LeasesTrue'
      BY <1>20, LeaseKept DEF CheckinReset
<1>21. ASSUME NEW k \in back, ResetOk(k) PROVE LeasesTrue'
      BY <1>21, LeaseKept DEF ResetOk
<1>22. ASSUME NEW k \in back, ResetFails(k) PROVE LeasesTrue'
      BY <1>22, LeaseKept DEF ResetFails
<1>23. ASSUME NEW k \in back, Refill(k) PROVE LeasesTrue'
      BY <1>23, LeaseKept DEF Refill, StartOpenIdle
<1>24. ASSUME NEW e \in EntryIds, NEW s \in Sessions, ConnectWarm(e, s) PROVE LeasesTrue'
      BY <1>24, LeaseKept DEF ConnectWarm
<1>25. ASSUME NEW e \in EntryIds, DropPending(e) PROVE LeasesTrue'
      BY <1>25, LeaseKept DEF DropPending
<1>26. ASSUME NEW c \in Creds, NEW e \in EntryIds, Warm(c, e) PROVE LeasesTrue'
      BY <1>26, LeaseKept DEF Warm
<1>27. ASSUME NEW e \in EntryIds, WarmOpens(e) PROVE LeasesTrue'
      BY <1>27, LeaseKept DEF WarmOpens, StartOpenIdle
<1>28. ASSUME NEW x \in LongOps, NEW c \in Creds, NEW e \in EntryIds, BeginLong(x, c, e)
     PROVE  LeasesTrue'
      BY <1>28, LeaseKept DEF BeginLong
<1>29. ASSUME NEW x \in LongOps, ConnectLong(x) PROVE LeasesTrue'
      BY <1>29, LeaseKept DEF ConnectLong
<1>30. ASSUME NEW x \in LongOps, EndLong(x) PROVE LeasesTrue'
      BY <1>30, LeaseKept DEF EndLong
<1>31. ASSUME NEW S \in SUBSET Sessions, EvictExpired(S) PROVE LeasesTrue'
      BY <1>31, LeaseKept DEF EvictExpired
<1>32. ASSUME EvictEntry PROVE LeasesTrue'
      BY <1>32, LeaseKept DEF EvictEntry
<1>33. ASSUME NEW s \in Sessions, CancelLands(s) PROVE LeasesTrue'
      BY <1>33, LeaseKept DEF CancelLands
<1>34. ASSUME NEW t \in Tunnels, TunnelDies(t) PROVE LeasesTrue'
      BY <1>34, LeaseKept DEF TunnelDies
<1> QED BY <1>1, <1>2, <1>3, <1>4, <1>5, <1>6, <1>7, <1>8, <1>9, <1>10, <1>11, <1>12, <1>13,
           <1>14, <1>15, <1>16, <1>17, <1>18, <1>19, <1>20, <1>21, <1>22, <1>23, <1>24, <1>25,
           <1>26, <1>27, <1>28, <1>29, <1>30, <1>31, <1>32, <1>33, <1>34
        DEF Next, Checkout, Lease, OpenStep, Checkin, Background, LongOp

\* Every action keeps the pending counts.
LEMMA PendingStep ==
    ASSUME TasksOK, Links, SoleOwner, PendingTrue, Next
    PROVE  PendingTrue'
<1> USE PoolAssumption DEF TasksOK, PendingTrue, entryVars
<1>1. ASSUME NEW r \in Runs, NEW l \in Lanes, NEW c \in Creds, NEW e \in EntryIds,
             Begin(r, l, c, e) PROVE PendingTrue'
      BY <1>1, PendingKept DEF Begin, Returning, Warmup
<1>2. ASSUME NEW r \in Runs, NEW s \in Sessions, Reuse(r, s) PROVE PendingTrue'
      BY <1>2, PendingKept DEF Reuse, Returning, Warmup
<1>3. ASSUME NEW r \in Runs, Wait(r) PROVE PendingTrue'
      BY <1>3, PendingKept DEF Wait, Returning, Warmup
<1>4. ASSUME NEW r \in Runs, WaitEnds(r) PROVE PendingTrue'
      BY <1>4, PendingKept DEF WaitEnds, Returning, Warmup
<1>5. ASSUME NEW r \in Runs, Open(r) PROVE PendingTrue'
      BY <1>5, PendingKept DEF Open, Returning, Warmup, Start
<1>6. ASSUME NEW r \in Runs, StopEarly(r) PROVE PendingTrue'
      BY <1>6, PendingKept DEF StopEarly, Returning, Warmup
<1>7. ASSUME NEW r \in Runs, NEW s \in Sessions, ConnectRun(r, s) PROVE PendingTrue'
      BY <1>7, PendingKept DEF ConnectRun, Returning, Warmup, NotOpening
<1>8. ASSUME NEW r \in Runs, ReadOnly(r) PROVE PendingTrue'
      BY <1>8, PendingKept DEF ReadOnly, Returning, Warmup
<1>9. ASSUME NEW r \in Runs, StopReadOnly(r) PROVE PendingTrue'
  <2> DEFINE n == [sid |-> run[r].sid, ent |-> run[r].ent, fate |-> Fate(r),
                   half |-> TRUE, step |-> "decide"]
  <2>1. /\ back' = back \cup {n} /\ UNCHANGED <<parked, opening>>
        /\ pending' = [pending EXCEPT ![run[r].ent] = @ + 1]
        BY <1>9 DEF StopReadOnly, CheckinWith
  <2>2. run[r].ent \in EntryIds /\ run[r].sid # None
        BY <1>9 DEF StopReadOnly, Links
  <2>3. n.sid = run[r].sid /\ n.ent = run[r].ent /\ n.step # "refill"
        OBVIOUS
  <2>4. n \notin back
        BY <2>2, <2>3 DEF SoleOwner
  <2> HIDE DEF n
  <2>5. PICK f \in EntryIds : f = run[r].ent
        BY <2>2
  <2>6. /\ IsFiniteSet(back')
        /\ Cardinality(Returning(f)') = Cardinality(Returning(f)) + 1
        /\ \A g : g # f => Returning(g)' = Returning(g)
        BY <2>1, <2>3, <2>4, <2>5, ReturnStarts
  <2> QED BY <2>1, <2>5, <2>6, ReturningFinite DEF Warmup
<1>10. ASSUME NEW r \in Runs, Call(r) PROVE PendingTrue'
      BY <1>10, PendingKept DEF Call, Returning, Warmup
<1>11. ASSUME NEW r \in Runs, Cancel(r) PROVE PendingTrue'
      BY <1>11, PendingKept DEF Cancel, Returning, Warmup
<1>12. ASSUME NEW r \in Runs, Reconnect(r) PROVE PendingTrue'
      BY <1>12, PendingKept DEF Reconnect, Returning, Warmup, Start
<1>13. ASSUME NEW r \in Runs, NEW s \in Sessions, ConnectAgain(r, s) PROVE PendingTrue'
      BY <1>13, PendingKept DEF ConnectAgain, Returning, Warmup, NotOpening
<1>14. ASSUME NEW r \in Runs, Release(r) PROVE PendingTrue'
  <2> DEFINE n == [sid |-> run[r].sid, ent |-> run[r].ent, fate |-> Fate(r),
                   half |-> run[r].doubt = "unsettled", step |-> "decide"]
  <2>1. /\ back' = back \cup {n} /\ UNCHANGED <<parked, opening>>
        /\ pending' = [pending EXCEPT ![run[r].ent] = @ + 1]
        BY <1>14 DEF Release, CheckinWith
  <2>2. run[r].ent \in EntryIds /\ run[r].sid # None
        BY <1>14 DEF Release, Links
  <2>3. n.sid = run[r].sid /\ n.ent = run[r].ent /\ n.step # "refill"
        OBVIOUS
  <2>4. n \notin back
        BY <2>2, <2>3 DEF SoleOwner
  <2> HIDE DEF n
  <2>5. PICK f \in EntryIds : f = run[r].ent
        BY <2>2
  <2>6. /\ IsFiniteSet(back')
        /\ Cardinality(Returning(f)') = Cardinality(Returning(f)) + 1
        /\ \A g : g # f => Returning(g)' = Returning(g)
        BY <2>1, <2>3, <2>4, <2>5, ReturnStarts
  <2> QED BY <2>1, <2>5, <2>6, ReturningFinite DEF Warmup
<1>15. ASSUME NEW o \in Openers, ShareTunnel(o) PROVE PendingTrue'
      BY <1>15, PendingKept DEF ShareTunnel, Returning, Warmup
<1>16. ASSUME NEW o \in Openers, OpenTunnel(o) PROVE PendingTrue'
      BY <1>16, PendingKept DEF OpenTunnel, Returning, Warmup
<1>17. ASSUME NEW o \in Openers, NEW t \in Tunnels, TunnelOpened(o, t) PROVE PendingTrue'
      BY <1>17, PendingKept DEF TunnelOpened, Returning, Warmup
<1>18. ASSUME NEW o \in Openers, GiveUp(o) PROVE PendingTrue'
  <2>1. /\ UNCHANGED <<parked, back>> /\ opening' = [opening EXCEPT ![o] = NotOpening]
        /\ opening[o].at # "no"
        BY <1>18 DEF GiveUp
  <2>2. \A g : Returning(g)' = Returning(g)
        BY <2>1 DEF Returning
  <2>3. CASE o \in EntryIds
    <3>1. pending' = [pending EXCEPT ![o] = @ - 1]
          BY <1>18, <2>1, <2>3 DEF GiveUp, Links
    <3>2. /\ Warmup(o) = 1
          /\ \A g \in EntryIds : Warmup(g)' = IF g = o THEN 0 ELSE Warmup(g)
          BY <2>1, <2>3 DEF Warmup, NotOpening, Openers
    <3> QED BY <2>1, <2>2, <2>3, <3>1, <3>2, ReturningFinite
  <2>4. CASE o \notin EntryIds
    <3>1. UNCHANGED pending /\ \A g \in EntryIds : Warmup(g)' = Warmup(g)
          BY <1>18, <2>1, <2>4 DEF GiveUp, Warmup, Openers
    <3> QED BY <2>1, <2>2, <3>1, PendingKept
  <2> QED BY <2>3, <2>4
<1>19. ASSUME NEW k \in back, CheckinDiscard(k) PROVE PendingTrue'
  <2> DEFINE n == [k EXCEPT !.step = "refill"]
  <2>1. n.step = "refill" /\ k.ent \in EntryIds
        BY DEF Return
  <2>2. /\ back' \in {back \ {k}, (back \ {k}) \cup {n}} /\ UNCHANGED <<parked, opening>>
        /\ pending' = [pending EXCEPT ![k.ent] = @ - 1] /\ k.step # "refill"
        BY <1>19 DEF CheckinDiscard
  <2> HIDE DEF n
  <2>3. /\ IsFiniteSet(back')
        /\ Cardinality(Returning(k.ent)) \in Nat /\ Cardinality(Returning(k.ent)) >= 1
        /\ Cardinality(Returning(k.ent)') = Cardinality(Returning(k.ent)) - 1
        /\ \A g : g # k.ent => Returning(g)' = Returning(g)
        BY <2>1, <2>2, ReturnEnds
  <2> QED BY <2>1, <2>2, <2>3, ReturningFinite DEF Warmup
<1>20. ASSUME NEW k \in back, CheckinReset(k) PROVE PendingTrue'
  <2> DEFINE n == [k EXCEPT !.step = "reset"]
  <2>1. n.sid = k.sid /\ n.ent = k.ent /\ n.step = "reset" /\ k.ent \in EntryIds
        BY DEF Return
  <2>2. /\ back' = (back \ {k}) \cup {n} /\ UNCHANGED <<pending, parked, opening>>
        /\ k.step = "decide"
        BY <1>20 DEF CheckinReset, entryVars
  <2> HIDE DEF n
  <2>3. n \notin back
        BY <2>1, <2>2 DEF SoleOwner
  <2>4. /\ IsFiniteSet(back')
        /\ Cardinality(Returning(k.ent)') = Cardinality(Returning(k.ent))
        /\ \A g : g # k.ent => Returning(g)' = Returning(g)
        BY <2>1, <2>2, <2>3, ReturnGoesOn
  <2> QED BY <2>1, <2>2, <2>4, ReturningFinite DEF Warmup
<1>21. ASSUME NEW k \in back, ResetOk(k) PROVE PendingTrue'
  <2> DEFINE n == [k EXCEPT !.step = "refill"]
  <2>1. n.step = "refill" /\ k.ent \in EntryIds
        BY DEF Return
  <2>2. /\ back' = back \ {k} /\ UNCHANGED opening /\ k.step # "refill"
        /\ UNCHANGED pending /\ parked' = [parked EXCEPT ![k.ent] = @ + 1]
        BY <1>21 DEF ResetOk
  <2> HIDE DEF n
  <2>3. /\ IsFiniteSet(back')
        /\ Cardinality(Returning(k.ent)) \in Nat /\ Cardinality(Returning(k.ent)) >= 1
        /\ Cardinality(Returning(k.ent)') = Cardinality(Returning(k.ent)) - 1
        /\ \A g : g # k.ent => Returning(g)' = Returning(g)
        BY <2>1, <2>2, ReturnEnds
  <2> QED BY <2>1, <2>2, <2>3, ReturningFinite DEF Warmup
<1>22. ASSUME NEW k \in back, ResetFails(k) PROVE PendingTrue'
  <2> DEFINE n == [k EXCEPT !.step = "refill"]
  <2>1. n.step = "refill" /\ k.ent \in EntryIds
        BY DEF Return
  <2>2. /\ back' = back \ {k} /\ UNCHANGED opening /\ k.step # "refill"
        /\ UNCHANGED parked /\ pending' = [pending EXCEPT ![k.ent] = @ - 1]
        BY <1>22 DEF ResetFails
  <2> HIDE DEF n
  <2>3. /\ IsFiniteSet(back')
        /\ Cardinality(Returning(k.ent)) \in Nat /\ Cardinality(Returning(k.ent)) >= 1
        /\ Cardinality(Returning(k.ent)') = Cardinality(Returning(k.ent)) - 1
        /\ \A g : g # k.ent => Returning(g)' = Returning(g)
        BY <2>1, <2>2, ReturnEnds
  <2> QED BY <2>1, <2>2, <2>3, ReturningFinite DEF Warmup
<1>23. ASSUME NEW k \in back, Refill(k) PROVE PendingTrue'
  <2>1. CASE MayOpenIdle(k.ent, FALSE)
    <3>1. /\ k.ent \in EntryIds /\ opening' = [opening EXCEPT ![k.ent] = Start(k.ent)]
          /\ pending' = [pending EXCEPT ![k.ent] = @ + 1] /\ UNCHANGED parked
          BY <1>23, <2>1 DEF Refill, StartOpenIdle, Return
    <3>2. /\ IsFiniteSet(back') /\ \A g \in EntryIds : Returning(g)' = Returning(g)
          BY <1>23, FS_Subset DEF Refill, Returning
    <3>3. Warmup(k.ent) = 0 /\ pending[k.ent] = 0
          BY <2>1, <3>1, ReturningFinite DEF MayOpenIdle, Warmup
    <3>4. \A g \in EntryIds : Warmup(g)' = IF g = k.ent THEN 1 ELSE Warmup(g)
          BY <3>1, StartOf DEF Warmup, Openers
    <3> QED BY <3>1, <3>2, <3>3, <3>4, ReturningFinite
  <2>2. CASE ~MayOpenIdle(k.ent, FALSE)
    <3>1. /\ IsFiniteSet(back') /\ \A g \in EntryIds : Returning(g)' = Returning(g)
          BY <1>23, FS_Subset DEF Refill, Returning
    <3> QED BY <1>23, <2>2, <3>1, PendingKept DEF Refill, Warmup
  <2> QED BY <2>1, <2>2
<1>24. ASSUME NEW e \in EntryIds, NEW s \in Sessions, ConnectWarm(e, s) PROVE PendingTrue'
  <2>1. /\ UNCHANGED <<pending, back>> /\ parked' = [parked EXCEPT ![e] = @ + 1]
        /\ opening' = [opening EXCEPT ![e] = NotOpening] /\ opening[e].at # "no"
        BY <1>24 DEF ConnectWarm
  <2>2. /\ Warmup(e) = 1
        /\ \A g \in EntryIds : Warmup(g)' = IF g = e THEN 0 ELSE Warmup(g)
        BY <2>1 DEF Warmup, NotOpening, Openers
  <2>3. \A g : Returning(g)' = Returning(g)
        BY <2>1 DEF Returning
  <2> QED BY <2>1, <2>2, <2>3, ReturningFinite
<1>25. ASSUME NEW e \in EntryIds, DropPending(e) PROVE PendingTrue'
  <2>1. /\ UNCHANGED <<back, opening>> /\ parked[e] > 0
        /\ parked' = [parked EXCEPT ![e] = @ - 1] /\ pending' = [pending EXCEPT ![e] = @ - 1]
        BY <1>25 DEF DropPending
  <2>2. \A g : Returning(g)' = Returning(g) /\ Warmup(g)' = Warmup(g) /\ Warmup(g) \in Nat
        BY <2>1 DEF Returning, Warmup
  <2> QED BY <2>1, <2>2, ReturningFinite
<1>26. ASSUME NEW c \in Creds, NEW e \in EntryIds, Warm(c, e) PROVE PendingTrue'
      BY <1>26, PendingKept DEF Warm, Returning, Warmup
<1>27. ASSUME NEW e \in EntryIds, WarmOpens(e) PROVE PendingTrue'
  <2>1. CASE MayOpenIdle(e, TRUE)
    <3>1. /\ e \in EntryIds /\ opening' = [opening EXCEPT ![e] = Start(e)]
          /\ pending' = [pending EXCEPT ![e] = @ + 1] /\ UNCHANGED parked
          BY <1>27, <2>1 DEF WarmOpens, StartOpenIdle, Return
    <3>2. /\ IsFiniteSet(back') /\ \A g \in EntryIds : Returning(g)' = Returning(g)
          BY <1>27, FS_Subset DEF WarmOpens, Returning
    <3>3. Warmup(e) = 0 /\ pending[e] = 0
          BY <2>1, <3>1, ReturningFinite DEF MayOpenIdle, Warmup
    <3>4. \A g \in EntryIds : Warmup(g)' = IF g = e THEN 1 ELSE Warmup(g)
          BY <3>1, StartOf DEF Warmup, Openers
    <3> QED BY <3>1, <3>2, <3>3, <3>4, ReturningFinite
  <2>2. CASE ~MayOpenIdle(e, TRUE)
    <3>1. /\ IsFiniteSet(back') /\ \A g \in EntryIds : Returning(g)' = Returning(g)
          BY <1>27, FS_Subset DEF WarmOpens, Returning
    <3> QED BY <1>27, <2>2, <3>1, PendingKept DEF WarmOpens, Warmup
  <2> QED BY <2>1, <2>2
<1>28. ASSUME NEW x \in LongOps, NEW c \in Creds, NEW e \in EntryIds, BeginLong(x, c, e)
     PROVE  PendingTrue'
      BY <1>28, PendingKept DEF BeginLong, Returning, Warmup, Start
<1>29. ASSUME NEW x \in LongOps, ConnectLong(x) PROVE PendingTrue'
      BY <1>29, PendingKept DEF ConnectLong, Returning, Warmup, NotOpening
<1>30. ASSUME NEW x \in LongOps, EndLong(x) PROVE PendingTrue'
      BY <1>30, PendingKept DEF EndLong, Returning, Warmup
<1>31. ASSUME NEW S \in SUBSET Sessions, EvictExpired(S) PROVE PendingTrue'
      BY <1>31, PendingKept DEF EvictExpired, Returning, Warmup
<1>32. ASSUME EvictEntry PROVE PendingTrue'
      BY <1>32, PendingKept DEF EvictEntry, Returning, Warmup
<1>33. ASSUME NEW s \in Sessions, CancelLands(s) PROVE PendingTrue'
      BY <1>33, PendingKept DEF CancelLands, Returning, Warmup
<1>34. ASSUME NEW t \in Tunnels, TunnelDies(t) PROVE PendingTrue'
      BY <1>34, PendingKept DEF TunnelDies, Returning, Warmup
<1> QED BY <1>1, <1>2, <1>3, <1>4, <1>5, <1>6, <1>7, <1>8, <1>9, <1>10, <1>11, <1>12, <1>13,
           <1>14, <1>15, <1>16, <1>17, <1>18, <1>19, <1>20, <1>21, <1>22, <1>23, <1>24, <1>25,
           <1>26, <1>27, <1>28, <1>29, <1>30, <1>31, <1>32, <1>33, <1>34
        DEF Next, Checkout, Lease, OpenStep, Checkin, Background, LongOp

-----------------------------------------------------------------------------

\* The credential travels with the entry: its leases, its idle sessions and what comes back to it
\* were all opened with it.
CredInv ==
    /\ \A r \in Runs : run[r].pc # "off" => cred[run[r].ent] = run[r].cred
    /\ OwnCredential
    /\ \A e \in EntryIds : \A s \in idle[e] : sess[s].cred = cred[e]
    /\ \A k \in back : sess[k.sid].cred = cred[k.ent]

\* A connection with a cancel under way is held by a cancelled lease or on its way to be closed.
CancelInv ==
    /\ CancelStaysHome
    /\ \A s \in Sessions : sess[s].late => sess[s].st = "open"
    /\ \A r \in Runs : run[r].pc = "reconnect" => run[r].doubt = "broken"
    /\ \A k \in back : k.fate = "Reset" => ~sess[k.sid].late
    /\ \A k \in back : k.step = "reset" => k.fate = "Reset"

\* Whoever still holds an entry the map lost finds it retired, unless the janitor saw that nobody
\* held it.
StrandInv ==
    /\ NothingStranded
    /\ current # None => ~retired[current]
    /\ \A e \in EntryIds : Holds(e) => e = current \/ retired[e]

\* Who may be on a tunnel: the sessions, the openers about to connect and the long operations of an
\* entry are all on the tunnel in its slot, or on a dead one.  While one opens a tunnel it has the
\* slot's lock and the slot is empty.
TunnelInv ==
    /\ OneTunnel
    /\ LongOpKeepsTunnel
    /\ \A o \in Openers : opening[o].at = "connect" /\ opening[o].tun \in alive
                             => opening[o].tun = slot[opening[o].ent]
    /\ \A o \in Openers : opening[o].at = "opening"
                             => locked[opening[o].ent] = o /\ slot[opening[o].ent] = None
    /\ \A x \in LongOps : /\ long[x].pc = "opening" => long[x].ent = opening[x].ent
                          /\ long[x].pc = "holding" => long[x].ent \in EntryIds

\* The idle lists are finite and within IDLE_MAX.
IdleInv ==
    \A e \in EntryIds : IsFiniteSet(idle[e]) /\ Cardinality(idle[e]) <= IdleMax

\* Taking sessions out of the idle lists keeps the bound.
LEMMA IdleShrinks ==
    ASSUME IdleInv, \A e \in EntryIds : idle'[e] \subseteq idle[e]
    PROVE  IdleInv'
<1>1. SUFFICES ASSUME NEW e \in EntryIds
               PROVE  IsFiniteSet(idle'[e]) /\ Cardinality(idle'[e]) <= IdleMax
      BY DEF IdleInv
<1>2. IsFiniteSet(idle[e]) /\ Cardinality(idle[e]) \in Nat /\ Cardinality(idle[e]) <= IdleMax
      BY FS_CardinalityType DEF IdleInv
<1>3. IsFiniteSet(idle'[e]) /\ Cardinality(idle'[e]) <= Cardinality(idle[e])
      BY <1>2, FS_Subset
<1>4. Cardinality(idle'[e]) \in Nat /\ IdleMax \in Nat
      BY <1>3, FS_CardinalityType, PoolAssumption
<1> QED BY <1>2, <1>3, <1>4

\* park puts one session in, and only below IDLE_MAX.
LEMMA ParkKeepsBound ==
    ASSUME EntriesOK, IdleInv, NEW e \in EntryIds, NEW s \in Sessions, NEW after,
           Park(e, s, after)
    PROVE  IdleInv'
<1>1. CASE NotParked(e)
      BY <1>1 DEF Park, IdleInv
<1>2. CASE ~NotParked(e)
  <2>1. idle' = [idle EXCEPT ![e] = @ \cup {s}]
        BY <1>2 DEF Park
  <2>2. IsFiniteSet(idle[e]) /\ Cardinality(idle[e]) \in Nat /\ IdleMax \in Nat
        BY FS_CardinalityType, PoolAssumption DEF IdleInv
  <2>3. /\ IsFiniteSet(idle[e] \cup {s})
        /\ \/ Cardinality(idle[e] \cup {s}) = Cardinality(idle[e])
           \/ Cardinality(idle[e] \cup {s}) = Cardinality(idle[e]) + 1
        BY <2>2, FS_AddElement
  <2>4. Cardinality(idle[e] \cup {s}) <= IdleMax
        BY <1>2, <2>2, <2>3 DEF NotParked
  <2> QED BY <2>1, <2>3, <2>4 DEF IdleInv, EntriesOK
<1> QED BY <1>1, <1>2

\* A checkin moves the session of a lease, and nothing else, to the checkin task.
LEMMA CheckinKeepsOwner ==
    ASSUME EntriesOK, TasksOK, Links, SoleOwner, NEW r \in Runs, NEW half \in BOOLEAN,
           run[r].pc \in {"readonly", "held"}, CheckinWith(r, half)
    PROVE  SoleOwner'
<1> DEFINE n == [sid |-> run[r].sid, ent |-> run[r].ent, fate |-> Fate(r), half |-> half,
                 step |-> "decide"]
<1>1. /\ n.sid = run[r].sid /\ run[r].sid # None /\ run[r].sid \in Sessions
      /\ back' = back \cup {n} /\ run' = [run EXCEPT ![r] = NoRun] /\ UNCHANGED <<idle, sess>>
      BY PoolAssumption DEF CheckinWith, Links, TasksOK, RunState
<1>2. NoRun.sid = None
      BY DEF NoRun
<1> HIDE DEF n
<1>3. \A q \in Runs : run'[q].sid = IF q = r THEN None ELSE run[q].sid
      BY <1>1, <1>2 DEF TasksOK
<1>4. \A j \in back' : j \in back \/ j = n
      BY <1>1
<1>5. \A j \in back : j.sid # run[r].sid
      BY <1>1 DEF SoleOwner
<1>6. \A e \in EntryIds : run[r].sid \notin idle[e]
      BY <1>1 DEF SoleOwner
<1>7. \A q \in Runs : q # r => run[q].sid # run[r].sid
      BY <1>1 DEF SoleOwner
<1>8. sess[n.sid].st = "open"
      BY <1>1 DEF SoleOwner
<1>9. \A q, p \in Runs : q # p /\ run'[q].sid # None => run'[q].sid # run'[p].sid
      BY <1>3 DEF SoleOwner
<1>10. \A j, k \in back' : j # k => j.sid # k.sid
      BY <1>1, <1>4, <1>5 DEF SoleOwner
<1>11. \A e \in EntryIds : \A s \in idle[e] :
         /\ \A q \in Runs : run'[q].sid # s
         /\ \A k \in back' : k.sid # s
      BY <1>1, <1>3, <1>4, <1>6, PoolAssumption DEF SoleOwner, EntriesOK
<1>12. \A k \in back' : sess[k.sid].st = "open" /\ \A q \in Runs : run'[q].sid # k.sid
      BY <1>1, <1>3, <1>4, <1>7, <1>8, PoolAssumption DEF SoleOwner, TasksOK, Return
<1> QED BY <1>1, <1>3, <1>9, <1>10, <1>11, <1>12 DEF SoleOwner

\* No action puts a connection in two places.
LEMMA SoleOwnerStep ==
    ASSUME EntriesOK, TasksOK, Links, SoleOwner, Next
    PROVE  SoleOwner'
<1> USE PoolAssumption DEF EntriesOK, TasksOK, Links, SoleOwner, RunState, OpenState, LongState,
                    Connection, Return, RunPCs, Doubts, Fates, Openers
<1>1. ASSUME NEW r \in Runs, NEW l \in Lanes, NEW c \in Creds, NEW e \in EntryIds,
             Begin(r, l, c, e) PROVE SoleOwner'
  <2>1. CASE SameEntry(c, e)
        BY <1>1, <2>1 DEF Begin, NoRun, SameEntry
  <2>2. CASE NewEntry(c, e)
        BY <1>1, <2>2 DEF Begin, NoRun, NewEntry, SameKey, EntryLive, Holds, Close, NoSession
  <2> QED BY <1>1, <2>1, <2>2 DEF Begin, EntryFor
<1>2. ASSUME NEW r \in Runs, NEW s \in Sessions, Reuse(r, s) PROVE SoleOwner'
      BY <1>2 DEF Reuse, TakeIdle, Usable, CountLease, Close, NoSession
<1>3. ASSUME NEW r \in Runs, Wait(r) PROVE SoleOwner'
      BY <1>3 DEF Wait, Usable, Close, NoSession
<1>4. ASSUME NEW r \in Runs, WaitEnds(r) PROVE SoleOwner'
      BY <1>4 DEF WaitEnds
<1>5. ASSUME NEW r \in Runs, Open(r) PROVE SoleOwner'
      BY <1>5 DEF Open, Usable, Start, CountLease, Close, NoSession
<1>6. ASSUME NEW r \in Runs, StopEarly(r) PROVE SoleOwner'
      BY <1>6 DEF StopEarly, NoRun
<1>7. ASSUME NEW r \in Runs, NEW s \in Sessions, ConnectRun(r, s) PROVE SoleOwner'
      BY <1>7 DEF ConnectRun, Fresh, Unused, NotOpening
<1>8. ASSUME NEW r \in Runs, ReadOnly(r) PROVE SoleOwner'
      BY <1>8 DEF ReadOnly
<1>9. ASSUME NEW r \in Runs, StopReadOnly(r) PROVE SoleOwner'
      BY <1>9, CheckinKeepsOwner DEF StopReadOnly
<1>10. ASSUME NEW r \in Runs, Call(r) PROVE SoleOwner'
      BY <1>10 DEF Call
<1>11. ASSUME NEW r \in Runs, Cancel(r) PROVE SoleOwner'
      BY <1>11 DEF Cancel
<1>12. ASSUME NEW r \in Runs, Reconnect(r) PROVE SoleOwner'
      BY <1>12 DEF Reconnect, Start
<1>13. ASSUME NEW r \in Runs, NEW s \in Sessions, ConnectAgain(r, s) PROVE SoleOwner'
  <2>1. run[r].sid \in Sessions /\ sess[s].st = "free" /\ sess[run[r].sid].st = "open"
        BY <1>13 DEF ConnectAgain, Unused
  <2>2. \A q \in Runs : /\ run'[q].sid = IF q = r THEN s ELSE run[q].sid
                        /\ run'[q].cred = run[q].cred /\ run'[q].ent = run[q].ent
                        /\ q # r => run'[q] = run[q]
                        /\ run'[r].pc = "held"
        BY <1>13 DEF ConnectAgain
  <2>3. \A z \in Sessions : sess'[z] = IF z = s THEN Fresh(r, run[r].cred)
                                      ELSE IF z = run[r].sid THEN NoSession ELSE sess[z]
        BY <1>13, <2>1 DEF ConnectAgain
  <2>4. UNCHANGED <<idle, back, cred>> /\ run[r].pc = "reconnect"
        BY <1>13 DEF ConnectAgain, entryVars
  <2>5. Fresh(r, run[r].cred).st = "open"
        BY DEF Fresh, NoSession
  <2>6. \A e \in EntryIds : \A z \in idle[e] : z \in Sessions /\ z # s /\ z # run[r].sid
        BY <2>1
  <2>7. \A q \in Runs : q # r /\ run[q].sid # None
                          => run[q].sid \in Sessions /\ run[q].sid # s /\ run[q].sid # run[r].sid
        BY <2>1
  <2>8. \A k \in back : k.sid \in Sessions /\ k.sid # s /\ k.sid # run[r].sid
        BY <2>1
  <2> HIDE PoolAssumption DEF EntriesOK, TasksOK, Links, RunState, OpenState, LongState, Connection, Return,
                              RunPCs, Doubts, Fates, Openers
  <2> QED BY <2>1, <2>2, <2>3, <2>4, <2>5, <2>6, <2>7, <2>8
<1>14. ASSUME NEW r \in Runs, Release(r) PROVE SoleOwner'
      BY <1>14, CheckinKeepsOwner DEF Release
<1>15. ASSUME NEW o \in Openers, ShareTunnel(o) PROVE SoleOwner'
      BY <1>15 DEF ShareTunnel
<1>16. ASSUME NEW o \in Openers, OpenTunnel(o) PROVE SoleOwner'
      BY SMTT(60), <1>16 DEF OpenTunnel, Close, NoSession
<1>17. ASSUME NEW o \in Openers, NEW t \in Tunnels, TunnelOpened(o, t) PROVE SoleOwner'
      BY <1>17 DEF TunnelOpened
<1>18. ASSUME NEW o \in Openers, GiveUp(o) PROVE SoleOwner'
      BY <1>18 DEF GiveUp, NotOpening, NoRun, NoLong
<1>19. ASSUME NEW k \in back, CheckinDiscard(k) PROVE SoleOwner'
  <2>1. CASE k.fate = "DiscardAndRefill"
    <3> DEFINE n == [k EXCEPT !.step = "refill"]
    <3>1. n.sid = k.sid /\ n.ent = k.ent /\ n.fate = k.fate /\ n.step = "refill" /\ k \in Return
          OBVIOUS
    <3>2. back' = (back \ {k}) \cup {n} /\ UNCHANGED <<idle, run, sess>>
          BY <1>19, <2>1 DEF CheckinDiscard
    <3> HIDE DEF n
    <3> QED BY <3>1, <3>2
  <2>2. CASE k.fate # "DiscardAndRefill"
        BY <1>19, <2>2 DEF CheckinDiscard, Close, NoSession
  <2> QED BY <2>1, <2>2
<1>20. ASSUME NEW k \in back, CheckinReset(k) PROVE SoleOwner'
  <2> DEFINE n == [k EXCEPT !.step = "reset"]
  <2>1. n.sid = k.sid /\ n.ent = k.ent /\ n.fate = k.fate /\ n.step = "reset" /\ k \in Return
          OBVIOUS
  <2>2. back' = (back \ {k}) \cup {n} /\ UNCHANGED <<idle, run, sess>>
          BY <1>20 DEF CheckinReset
  <2> HIDE DEF n
  <2> QED BY <2>1, <2>2
<1>21. ASSUME NEW k \in back, ResetOk(k) PROVE SoleOwner'
  <2>1. CASE NotParked(k.ent)
        BY <1>21, <2>1 DEF ResetOk, Park, Close, NoSession
  <2>2. CASE ~NotParked(k.ent)
    <3>1. /\ idle' = [idle EXCEPT ![k.ent] = @ \cup {k.sid}]
          /\ sess' = [sess EXCEPT ![k.sid] = sess[k.sid]]
          /\ back' = back \ {k}
          /\ UNCHANGED run
          BY <1>21, <2>2 DEF ResetOk, Park
    <3>2. sess' = sess /\ k.sid \in Sessions /\ k.ent \in EntryIds
          BY <3>1
    <3> HIDE DEF RunState, OpenState, LongState, Connection, Return, RunPCs, Doubts, Fates
    <3> QED BY <3>1, <3>2
  <2> QED BY <2>1, <2>2
<1>22. ASSUME NEW k \in back, ResetFails(k) PROVE SoleOwner'
      BY <1>22 DEF ResetFails, Close, NoSession
<1>23. ASSUME NEW k \in back, Refill(k) PROVE SoleOwner'
  <2>1. CASE MayOpenIdle(k.ent, FALSE)
        BY <1>23, <2>1 DEF Refill, MayOpenIdle, StartOpenIdle, Start, Close, NoSession
  <2>2. CASE ~MayOpenIdle(k.ent, FALSE)
        BY <1>23, <2>2 DEF Refill, MayOpenIdle, StartOpenIdle, Start, Close, NoSession
  <2> QED BY <1>23, <2>1, <2>2
<1>24. ASSUME NEW e \in EntryIds, NEW s \in Sessions, ConnectWarm(e, s) PROVE SoleOwner'
  <2>1. \A f \in EntryIds : s \notin idle[f]
        BY <1>24 DEF ConnectWarm, Unused
  <2>2. \A r \in Runs : run[r].sid # s
        BY <1>24 DEF ConnectWarm, Unused
  <2>5. \A k \in back : k.sid # s
        BY <1>24 DEF ConnectWarm, Unused
  <2>3. CASE NotParked(e)
    <3>1. sess' = Close({s}) /\ UNCHANGED <<idle, run, back>>
          BY <1>24, <2>3 DEF ConnectWarm, Park
    <3> QED BY <2>1, <2>2, <2>5, <3>1 DEF Close, NoSession
  <2>4. CASE ~NotParked(e)
    <3>1. /\ idle' = [idle EXCEPT ![e] = @ \cup {s}]
          /\ sess' = [sess EXCEPT ![s] = Fresh(e, cred[e])]
          /\ UNCHANGED <<run, back>>
          BY <1>24, <2>4 DEF ConnectWarm, Park
    <3>2. Fresh(e, cred[e]).st = "open"
          BY DEF Fresh
    <3> HIDE DEF RunState, OpenState, LongState, Connection, Return, RunPCs, Doubts, Fates
    <3> QED BY <2>1, <2>2, <2>5, <3>1, <3>2
  <2> QED BY <2>3, <2>4
<1>25. ASSUME NEW e \in EntryIds, DropPending(e) PROVE SoleOwner'
      BY <1>25 DEF DropPending
<1>26. ASSUME NEW c \in Creds, NEW e \in EntryIds, Warm(c, e) PROVE SoleOwner'
  <2>1. CASE SameEntry(c, e)
        BY <1>26, <2>1 DEF Warm, SameEntry
  <2>2. CASE NewEntry(c, e)
        BY <1>26, <2>2 DEF Warm, NewEntry, SameKey, EntryLive, Holds, Close, NoSession
  <2> QED BY <1>26, <2>1, <2>2 DEF Warm, EntryFor
<1>27. ASSUME NEW e \in EntryIds, WarmOpens(e) PROVE SoleOwner'
  <2>1. CASE MayOpenIdle(e, TRUE)
        BY <1>27, <2>1 DEF WarmOpens, MayOpenIdle, StartOpenIdle, Start
  <2>2. CASE ~MayOpenIdle(e, TRUE)
        BY <1>27, <2>2 DEF WarmOpens, MayOpenIdle, StartOpenIdle, Start
  <2> QED BY <1>27, <2>1, <2>2
<1>28. ASSUME NEW x \in LongOps, NEW c \in Creds, NEW e \in EntryIds, BeginLong(x, c, e)
     PROVE  SoleOwner'
  <2>1. CASE SameEntry(c, e)
        BY <1>28, <2>1 DEF BeginLong, Start, SameEntry
  <2>2. CASE NewEntry(c, e)
        BY <1>28, <2>2 DEF BeginLong, Start, NewEntry, SameKey, EntryLive, Holds, Close,
                           NoSession
  <2> QED BY <1>28, <2>1, <2>2 DEF BeginLong, EntryFor
<1>29. ASSUME NEW x \in LongOps, ConnectLong(x) PROVE SoleOwner'
      BY <1>29 DEF ConnectLong, NotOpening
<1>30. ASSUME NEW x \in LongOps, EndLong(x) PROVE SoleOwner'
      BY <1>30 DEF EndLong, NoLong
<1>31. ASSUME NEW S \in SUBSET Sessions, EvictExpired(S) PROVE SoleOwner'
      BY <1>31 DEF EvictExpired, Close, NoSession
<1>32. ASSUME EvictEntry PROVE SoleOwner'
      BY <1>32 DEF EvictEntry, Holds
<1>33. ASSUME NEW s \in Sessions, CancelLands(s) PROVE SoleOwner'
      BY <1>33 DEF CancelLands
<1>34. ASSUME NEW t \in Tunnels, TunnelDies(t) PROVE SoleOwner'
      BY <1>34 DEF TunnelDies
<1> QED BY <1>1, <1>2, <1>3, <1>4, <1>5, <1>6, <1>7, <1>8, <1>9, <1>10, <1>11, <1>12, <1>13,
           <1>14, <1>15, <1>16, <1>17, <1>18, <1>19, <1>20, <1>21, <1>22, <1>23, <1>24, <1>25,
           <1>26, <1>27, <1>28, <1>29, <1>30, <1>31, <1>32, <1>33, <1>34
        DEF Next, Checkout, Lease, OpenStep, Checkin, Background, LongOp

\* No action mixes credentials.
LEMMA CredentialStep ==
    ASSUME EntriesOK, TasksOK, Links, SoleOwner, CredInv, Next
    PROVE  CredInv'
<1> USE PoolAssumption DEF EntriesOK, TasksOK, Links, SoleOwner, CredInv, OwnCredential,
                    RunState, OpenState, LongState, Connection, Return, RunPCs, Doubts, Fates,
                    Openers, entryVars
<1>1. ASSUME NEW r \in Runs, NEW l \in Lanes, NEW c \in Creds, NEW e \in EntryIds,
             Begin(r, l, c, e) PROVE CredInv'
  <2>1. CASE SameEntry(c, e)
    <3>1. /\ cred[e] = c /\ UNCHANGED <<cred, idle, back, sess>>
          /\ run' = [run EXCEPT ![r] = [NoRun EXCEPT !.pc = "choose", !.lane = l, !.cred = c,
                                                    !.ent = e]]
          BY <1>1, <2>1 DEF Begin, SameEntry, SameKey
    <3> QED BY <3>1 DEF NoRun
  <2>2. CASE NewEntry(c, e)
        BY <1>1, <2>2 DEF Begin, NoRun, NewEntry, SameKey, EntryLive, Holds, Close, NoSession
  <2> QED BY <1>1, <2>1, <2>2 DEF Begin, EntryFor
<1>2. ASSUME NEW r \in Runs, NEW s \in Sessions, Reuse(r, s) PROVE CredInv'
      BY <1>2 DEF Reuse, TakeIdle, Usable, CountLease, Close, NoSession
<1>3. ASSUME NEW r \in Runs, Wait(r) PROVE CredInv'
      BY <1>3 DEF Wait, Usable, Close, NoSession
<1>4. ASSUME NEW r \in Runs, WaitEnds(r) PROVE CredInv'
      BY <1>4 DEF WaitEnds
<1>5. ASSUME NEW r \in Runs, Open(r) PROVE CredInv'
      BY SMTT(60), <1>5 DEF Open, Usable, Start, CountLease, Close, NoSession
<1>6. ASSUME NEW r \in Runs, StopEarly(r) PROVE CredInv'
      BY <1>6 DEF StopEarly, NoRun
<1>7. ASSUME NEW r \in Runs, NEW s \in Sessions, ConnectRun(r, s) PROVE CredInv'
      BY <1>7 DEF ConnectRun, Fresh, Unused, NotOpening
<1>8. ASSUME NEW r \in Runs, ReadOnly(r) PROVE CredInv'
      BY <1>8 DEF ReadOnly
<1>9. ASSUME NEW r \in Runs, StopReadOnly(r) PROVE CredInv'
      BY SMTT(60), <1>9 DEF StopReadOnly, CheckinWith, Fate, NoRun
<1>10. ASSUME NEW r \in Runs, Call(r) PROVE CredInv'
      BY <1>10 DEF Call
<1>11. ASSUME NEW r \in Runs, Cancel(r) PROVE CredInv'
      BY <1>11 DEF Cancel
<1>12. ASSUME NEW r \in Runs, Reconnect(r) PROVE CredInv'
      BY <1>12 DEF Reconnect, Start
<1>13. ASSUME NEW r \in Runs, NEW s \in Sessions, ConnectAgain(r, s) PROVE CredInv'
  <2>1. run[r].sid \in Sessions /\ sess[s].st = "free" /\ sess[run[r].sid].st = "open"
        BY <1>13 DEF ConnectAgain, Unused
  <2>2. \A q \in Runs : /\ run'[q].sid = IF q = r THEN s ELSE run[q].sid
                        /\ run'[q].cred = run[q].cred /\ run'[q].ent = run[q].ent
                        /\ q # r => run'[q] = run[q]
                        /\ run'[r].pc = "held"
        BY <1>13 DEF ConnectAgain
  <2>3. \A z \in Sessions : sess'[z] = IF z = s THEN Fresh(r, run[r].cred)
                                      ELSE IF z = run[r].sid THEN NoSession ELSE sess[z]
        BY <1>13, <2>1 DEF ConnectAgain
  <2>4. UNCHANGED <<idle, back, cred>> /\ run[r].pc = "reconnect"
        BY <1>13 DEF ConnectAgain, entryVars
  <2>5. Fresh(r, run[r].cred).cred = run[r].cred
        BY DEF Fresh, NoSession
  <2>6. \A e \in EntryIds : \A z \in idle[e] : z \in Sessions /\ z # s /\ z # run[r].sid
        BY <2>1
  <2>7. \A q \in Runs : q # r /\ run[q].sid # None
                          => run[q].sid \in Sessions /\ run[q].sid # s /\ run[q].sid # run[r].sid
        BY <2>1
  <2>8. \A k \in back : k.sid \in Sessions /\ k.sid # s /\ k.sid # run[r].sid
        BY <2>1
  <2> HIDE PoolAssumption DEF EntriesOK, TasksOK, Links, RunState, OpenState, LongState, Connection, Return,
                              RunPCs, Doubts, Fates, Openers
  <2> QED BY <2>1, <2>2, <2>3, <2>4, <2>5, <2>6, <2>7, <2>8
<1>14. ASSUME NEW r \in Runs, Release(r) PROVE CredInv'
      BY SMTT(60), <1>14 DEF Release, CheckinWith, Fate, NoRun
<1>15. ASSUME NEW o \in Openers, ShareTunnel(o) PROVE CredInv'
      BY <1>15 DEF ShareTunnel
<1>16. ASSUME NEW o \in Openers, OpenTunnel(o) PROVE CredInv'
  <2>4. opening[o].ent \in EntryIds
        BY SMTT(60), <1>16 DEF OpenTunnel
  <2>1. sess' = Close(IF slot[opening[o].ent] = None THEN {} ELSE idle[opening[o].ent])
        BY <1>16 DEF OpenTunnel
  <2>2. /\ \A e \in EntryIds : idle'[e] \subseteq idle[e]
        /\ \A e \in EntryIds : \A s \in idle'[e] : sess'[s] = sess[s]
        BY SMTT(60), <1>16, <2>1 DEF OpenTunnel, Close
  <2>3. /\ \A r \in Runs : run[r].sid # None => sess'[run[r].sid] = sess[run[r].sid]
        /\ \A k \in back : sess'[k.sid] = sess[k.sid]
        BY <1>16, <2>1, <2>4 DEF OpenTunnel, Close
  <2>5. UNCHANGED <<run, back, cred>>
        BY <1>16 DEF OpenTunnel
  <2> HIDE PoolAssumption DEF EntriesOK, TasksOK, Links, SoleOwner, RunState, OpenState, LongState,
              Connection, Return, RunPCs, Doubts, Fates, Openers
  <2> QED BY <2>2, <2>3, <2>5
<1>17. ASSUME NEW o \in Openers, NEW t \in Tunnels, TunnelOpened(o, t) PROVE CredInv'
      BY <1>17 DEF TunnelOpened
<1>18. ASSUME NEW o \in Openers, GiveUp(o) PROVE CredInv'
      BY <1>18 DEF GiveUp, NotOpening, NoRun, NoLong
<1>19. ASSUME NEW k \in back, CheckinDiscard(k) PROVE CredInv'
  <2>1. CASE k.fate = "DiscardAndRefill"
    <3> DEFINE n == [k EXCEPT !.step = "refill"]
    <3>1. n.sid = k.sid /\ n.ent = k.ent
          OBVIOUS
    <3>2. back' = (back \ {k}) \cup {n} /\ UNCHANGED <<cred, idle, run, sess>>
          BY <1>19, <2>1 DEF CheckinDiscard
    <3> HIDE DEF n, EntriesOK, TasksOK, Links, SoleOwner
    <3> QED BY <3>1, <3>2
  <2>2. CASE k.fate # "DiscardAndRefill"
    <3>1. sess' = Close({k.sid}) /\ back' = back \ {k} /\ UNCHANGED <<cred, idle, run>>
          BY <1>19, <2>2 DEF CheckinDiscard
    <3>2. /\ \A e \in EntryIds : \A s \in idle[e] : sess'[s] = sess[s]
          /\ \A r \in Runs : run[r].sid # None => sess'[run[r].sid] = sess[run[r].sid]
          /\ \A j \in back \ {k} : sess'[j.sid] = sess[j.sid]
          BY <3>1 DEF Close
    <3> HIDE PoolAssumption DEF EntriesOK, TasksOK, Links, SoleOwner, RunState, OpenState, LongState,
                Connection, Return, RunPCs, Doubts, Fates, Openers, Close
    <3> QED BY <3>1, <3>2
  <2> QED BY <1>19, <2>1, <2>2
<1>20. ASSUME NEW k \in back, CheckinReset(k) PROVE CredInv'
  <2> DEFINE n == [k EXCEPT !.step = "reset"]
  <2>1. n.sid = k.sid /\ n.ent = k.ent /\ n.fate = k.fate /\ n.step = "reset" /\ k \in Return
          OBVIOUS
  <2>2. back' = (back \ {k}) \cup {n} /\ UNCHANGED <<cred, idle, run, sess>>
          BY <1>20 DEF CheckinReset
  <2> HIDE DEF n
  <2> QED BY <2>1, <2>2
<1>21. ASSUME NEW k \in back, ResetOk(k) PROVE CredInv'
  <2>1. CASE NotParked(k.ent)
        BY <1>21, <2>1 DEF ResetOk, Park, Close, NoSession
  <2>2. CASE ~NotParked(k.ent)
        BY SMTT(60), <1>21, <2>2 DEF ResetOk, Park, Close, NoSession
  <2> QED BY <1>21, <2>1, <2>2
<1>22. ASSUME NEW k \in back, ResetFails(k) PROVE CredInv'
      BY <1>22 DEF ResetFails, Close, NoSession
<1>23. ASSUME NEW k \in back, Refill(k) PROVE CredInv'
  <2>1. CASE MayOpenIdle(k.ent, FALSE)
        BY <1>23, <2>1 DEF Refill, MayOpenIdle, StartOpenIdle, Start, Close, NoSession
  <2>2. CASE ~MayOpenIdle(k.ent, FALSE)
        BY <1>23, <2>2 DEF Refill, MayOpenIdle, StartOpenIdle, Start, Close, NoSession
  <2> QED BY <1>23, <2>1, <2>2
<1>24. ASSUME NEW e \in EntryIds, NEW s \in Sessions, ConnectWarm(e, s) PROVE CredInv'
  <2>1. /\ \A f \in EntryIds : s \notin idle[f]
        /\ \A r \in Runs : run[r].sid # s
        /\ \A k \in back : k.sid # s
        BY <1>24 DEF ConnectWarm, Unused
  <2>2. CASE NotParked(e)
    <3>1. sess' = Close({s}) /\ UNCHANGED <<cred, idle, run, back>>
          BY <1>24, <2>2 DEF ConnectWarm, Park
    <3> QED BY <2>1, <3>1 DEF Close
  <2>3. CASE ~NotParked(e)
    <3>1. /\ idle' = [idle EXCEPT ![e] = @ \cup {s}]
          /\ sess' = [sess EXCEPT ![s] = Fresh(e, cred[e])]
          /\ UNCHANGED <<cred, run, back>>
          BY <1>24, <2>3 DEF ConnectWarm, Park
    <3>2. Fresh(e, cred[e]).cred = cred[e]
          BY DEF Fresh
    <3> QED BY <2>1, <3>1, <3>2
  <2> QED BY <2>2, <2>3
<1>25. ASSUME NEW e \in EntryIds, DropPending(e) PROVE CredInv'
      BY <1>25 DEF DropPending
<1>26. ASSUME NEW c \in Creds, NEW e \in EntryIds, Warm(c, e) PROVE CredInv'
  <2>1. CASE SameEntry(c, e)
        BY <1>26, <2>1 DEF Warm, SameEntry
  <2>2. CASE NewEntry(c, e)
        BY <1>26, <2>2 DEF Warm, NewEntry, SameKey, EntryLive, Holds, Close, NoSession
  <2> QED BY <1>26, <2>1, <2>2 DEF Warm, EntryFor
<1>27. ASSUME NEW e \in EntryIds, WarmOpens(e) PROVE CredInv'
  <2>1. CASE MayOpenIdle(e, TRUE)
        BY <1>27, <2>1 DEF WarmOpens, MayOpenIdle, StartOpenIdle, Start
  <2>2. CASE ~MayOpenIdle(e, TRUE)
        BY <1>27, <2>2 DEF WarmOpens, MayOpenIdle, StartOpenIdle, Start
  <2> QED BY <1>27, <2>1, <2>2
<1>28. ASSUME NEW x \in LongOps, NEW c \in Creds, NEW e \in EntryIds, BeginLong(x, c, e)
     PROVE  CredInv'
  <2>1. CASE SameEntry(c, e)
        BY <1>28, <2>1 DEF BeginLong, Start, SameEntry
  <2>2. CASE NewEntry(c, e)
        BY <1>28, <2>2 DEF BeginLong, Start, NewEntry, SameKey, EntryLive, Holds, Close,
                           NoSession
  <2> QED BY <1>28, <2>1, <2>2 DEF BeginLong, EntryFor
<1>29. ASSUME NEW x \in LongOps, ConnectLong(x) PROVE CredInv'
      BY <1>29 DEF ConnectLong, NotOpening
<1>30. ASSUME NEW x \in LongOps, EndLong(x) PROVE CredInv'
      BY <1>30 DEF EndLong, NoLong
<1>31. ASSUME NEW S \in SUBSET Sessions, EvictExpired(S) PROVE CredInv'
      BY <1>31 DEF EvictExpired, Close, NoSession
<1>32. ASSUME EvictEntry PROVE CredInv'
      BY <1>32 DEF EvictEntry, Holds
<1>33. ASSUME NEW s \in Sessions, CancelLands(s) PROVE CredInv'
      BY <1>33 DEF CancelLands
<1>34. ASSUME NEW t \in Tunnels, TunnelDies(t) PROVE CredInv'
      BY <1>34 DEF TunnelDies
<1> QED BY <1>1, <1>2, <1>3, <1>4, <1>5, <1>6, <1>7, <1>8, <1>9, <1>10, <1>11, <1>12, <1>13,
           <1>14, <1>15, <1>16, <1>17, <1>18, <1>19, <1>20, <1>21, <1>22, <1>23, <1>24, <1>25,
           <1>26, <1>27, <1>28, <1>29, <1>30, <1>31, <1>32, <1>33, <1>34
        DEF Next, Checkout, Lease, OpenStep, Checkin, Background, LongOp

\* No action parks a cancelled connection.
LEMMA CancelStep ==
    ASSUME EntriesOK, TasksOK, Links, SoleOwner, CancelInv, Next
    PROVE  CancelInv'
<1> USE PoolAssumption DEF EntriesOK, TasksOK, Links, SoleOwner, CancelInv, CancelStaysHome,
                    RunState, OpenState, LongState, Connection, Return, RunPCs, Doubts, Fates,
                    Openers
<1>1. ASSUME NEW r \in Runs, NEW l \in Lanes, NEW c \in Creds, NEW e \in EntryIds,
             Begin(r, l, c, e) PROVE CancelInv'
  <2>1. CASE SameEntry(c, e)
        BY <1>1, <2>1 DEF Begin, NoRun, SameEntry
  <2>2. CASE NewEntry(c, e)
        BY <1>1, <2>2 DEF Begin, NoRun, NewEntry, SameKey, EntryLive, Holds, Close, NoSession
  <2> QED BY <1>1, <2>1, <2>2 DEF Begin, EntryFor
<1>2. ASSUME NEW r \in Runs, NEW s \in Sessions, Reuse(r, s) PROVE CancelInv'
      BY <1>2 DEF Reuse, TakeIdle, Usable, CountLease, Close, NoSession
<1>3. ASSUME NEW r \in Runs, Wait(r) PROVE CancelInv'
      BY <1>3 DEF Wait, Usable, Close, NoSession
<1>4. ASSUME NEW r \in Runs, WaitEnds(r) PROVE CancelInv'
      BY <1>4 DEF WaitEnds
<1>5. ASSUME NEW r \in Runs, Open(r) PROVE CancelInv'
      BY <1>5 DEF Open, Usable, Start, CountLease, Close, NoSession
<1>6. ASSUME NEW r \in Runs, StopEarly(r) PROVE CancelInv'
      BY <1>6 DEF StopEarly, NoRun
<1>7. ASSUME NEW r \in Runs, NEW s \in Sessions, ConnectRun(r, s) PROVE CancelInv'
      BY <1>7 DEF ConnectRun, Fresh, Unused, NotOpening
<1>8. ASSUME NEW r \in Runs, ReadOnly(r) PROVE CancelInv'
      BY <1>8 DEF ReadOnly
<1>9. ASSUME NEW r \in Runs, StopReadOnly(r) PROVE CancelInv'
      BY <1>9 DEF StopReadOnly, CheckinWith, Fate, NoRun
<1>10. ASSUME NEW r \in Runs, Call(r) PROVE CancelInv'
      BY <1>10 DEF Call
<1>11. ASSUME NEW r \in Runs, Cancel(r) PROVE CancelInv'
      BY <1>11 DEF Cancel
<1>12. ASSUME NEW r \in Runs, Reconnect(r) PROVE CancelInv'
      BY <1>12 DEF Reconnect, Start
<1>13. ASSUME NEW r \in Runs, NEW s \in Sessions, ConnectAgain(r, s) PROVE CancelInv'
  <2>1. run[r].sid \in Sessions /\ sess[s].st = "free" /\ sess[run[r].sid].st = "open"
        BY <1>13 DEF ConnectAgain, Unused
  <2>2. \A q \in Runs : /\ run'[q].sid = IF q = r THEN s ELSE run[q].sid
                        /\ run'[q].cred = run[q].cred /\ run'[q].ent = run[q].ent
                        /\ q # r => run'[q] = run[q]
                        /\ run'[r].pc = "held"
        BY <1>13 DEF ConnectAgain
  <2>3. \A z \in Sessions : sess'[z] = IF z = s THEN Fresh(r, run[r].cred)
                                      ELSE IF z = run[r].sid THEN NoSession ELSE sess[z]
        BY <1>13, <2>1 DEF ConnectAgain
  <2>4. UNCHANGED <<idle, back, cred>> /\ run[r].pc = "reconnect"
        BY <1>13 DEF ConnectAgain, entryVars
  <2>5. Fresh(r, run[r].cred).st = "open" /\ ~Fresh(r, run[r].cred).late /\ ~NoSession.late
        BY DEF Fresh, NoSession
  <2>6. \A e \in EntryIds : \A z \in idle[e] : z \in Sessions /\ z # s /\ z # run[r].sid
        BY <2>1
  <2>7. \A q \in Runs : q # r /\ run[q].sid # None
                          => run[q].sid \in Sessions /\ run[q].sid # s /\ run[q].sid # run[r].sid
        BY <2>1
  <2>8. \A k \in back : k.sid \in Sessions /\ k.sid # s /\ k.sid # run[r].sid
        BY <2>1
  <2> HIDE PoolAssumption DEF EntriesOK, TasksOK, Links, RunState, OpenState, LongState, Connection, Return,
                              RunPCs, Doubts, Fates, Openers
  <2> QED BY <2>1, <2>2, <2>3, <2>4, <2>5, <2>6, <2>7, <2>8
<1>14. ASSUME NEW r \in Runs, Release(r) PROVE CancelInv'
      BY <1>14 DEF Release, CheckinWith, Fate, NoRun
<1>15. ASSUME NEW o \in Openers, ShareTunnel(o) PROVE CancelInv'
      BY <1>15 DEF ShareTunnel
<1>16. ASSUME NEW o \in Openers, OpenTunnel(o) PROVE CancelInv'
      BY <1>16 DEF OpenTunnel, Close, NoSession
<1>17. ASSUME NEW o \in Openers, NEW t \in Tunnels, TunnelOpened(o, t) PROVE CancelInv'
      BY <1>17 DEF TunnelOpened
<1>18. ASSUME NEW o \in Openers, GiveUp(o) PROVE CancelInv'
      BY <1>18 DEF GiveUp, NotOpening, NoRun, NoLong
<1>19. ASSUME NEW k \in back, CheckinDiscard(k) PROVE CancelInv'
  <2>1. CASE k.fate = "DiscardAndRefill"
        BY SMTT(60), <1>19, <2>1 DEF CheckinDiscard, Discarded, Close, NoSession
  <2>2. CASE k.fate # "DiscardAndRefill"
        BY SMTT(60), <1>19, <2>2 DEF CheckinDiscard, Discarded, Close, NoSession
  <2> QED BY <1>19, <2>1, <2>2
<1>20. ASSUME NEW k \in back, CheckinReset(k) PROVE CancelInv'
      BY SMTT(60), <1>20 DEF CheckinReset, Discarded
<1>21. ASSUME NEW k \in back, ResetOk(k) PROVE CancelInv'
  <2>1. CASE NotParked(k.ent)
        BY <1>21, <2>1 DEF ResetOk, Park, Close, NoSession
  <2>2. CASE ~NotParked(k.ent)
    <3>1. /\ idle' = [idle EXCEPT ![k.ent] = @ \cup {k.sid}]
          /\ sess' = [sess EXCEPT ![k.sid] = sess[k.sid]]
          /\ back' = back \ {k}
          /\ UNCHANGED run
          BY <1>21, <2>2 DEF ResetOk, Park
    <3>2. sess' = sess /\ ~sess[k.sid].late /\ k.ent \in EntryIds
          BY <1>21, <3>1 DEF ResetOk
    <3> HIDE DEF RunState, OpenState, LongState, Connection, Return, RunPCs, Doubts, Fates
    <3> QED BY <3>1, <3>2
  <2> QED BY <2>1, <2>2
<1>22. ASSUME NEW k \in back, ResetFails(k) PROVE CancelInv'
      BY <1>22 DEF ResetFails, Close, NoSession
<1>23. ASSUME NEW k \in back, Refill(k) PROVE CancelInv'
  <2>1. CASE MayOpenIdle(k.ent, FALSE)
        BY <1>23, <2>1 DEF Refill, MayOpenIdle, StartOpenIdle, Start, Close, NoSession
  <2>2. CASE ~MayOpenIdle(k.ent, FALSE)
        BY <1>23, <2>2 DEF Refill, MayOpenIdle, StartOpenIdle, Start, Close, NoSession
  <2> QED BY <1>23, <2>1, <2>2
<1>24. ASSUME NEW e \in EntryIds, NEW s \in Sessions, ConnectWarm(e, s) PROVE CancelInv'
  <2>1. /\ \A f \in EntryIds : s \notin idle[f]
        /\ \A r \in Runs : run[r].sid # s
        /\ \A k \in back : k.sid # s
        BY <1>24 DEF ConnectWarm, Unused
  <2>2. CASE NotParked(e)
    <3>1. sess' = Close({s}) /\ UNCHANGED <<idle, run, back>>
          BY <1>24, <2>2 DEF ConnectWarm, Park
    <3> QED BY <2>1, <3>1 DEF Close, NoSession
  <2>3. CASE ~NotParked(e)
    <3>1. /\ idle' = [idle EXCEPT ![e] = @ \cup {s}]
          /\ sess' = [sess EXCEPT ![s] = Fresh(e, cred[e])]
          /\ UNCHANGED <<run, back>>
          BY <1>24, <2>3 DEF ConnectWarm, Park
    <3>2. ~Fresh(e, cred[e]).late
          BY DEF Fresh
    <3> QED BY <2>1, <3>1, <3>2
  <2> QED BY <2>2, <2>3
<1>25. ASSUME NEW e \in EntryIds, DropPending(e) PROVE CancelInv'
      BY <1>25 DEF DropPending
<1>26. ASSUME NEW c \in Creds, NEW e \in EntryIds, Warm(c, e) PROVE CancelInv'
  <2>1. CASE SameEntry(c, e)
        BY <1>26, <2>1 DEF Warm, SameEntry
  <2>2. CASE NewEntry(c, e)
        BY <1>26, <2>2 DEF Warm, NewEntry, SameKey, EntryLive, Holds, Close, NoSession
  <2> QED BY <1>26, <2>1, <2>2 DEF Warm, EntryFor
<1>27. ASSUME NEW e \in EntryIds, WarmOpens(e) PROVE CancelInv'
  <2>1. CASE MayOpenIdle(e, TRUE)
        BY <1>27, <2>1 DEF WarmOpens, MayOpenIdle, StartOpenIdle, Start
  <2>2. CASE ~MayOpenIdle(e, TRUE)
        BY <1>27, <2>2 DEF WarmOpens, MayOpenIdle, StartOpenIdle, Start
  <2> QED BY <1>27, <2>1, <2>2
<1>28. ASSUME NEW x \in LongOps, NEW c \in Creds, NEW e \in EntryIds, BeginLong(x, c, e)
     PROVE  CancelInv'
  <2>1. CASE SameEntry(c, e)
        BY <1>28, <2>1 DEF BeginLong, Start, SameEntry
  <2>2. CASE NewEntry(c, e)
        BY <1>28, <2>2 DEF BeginLong, Start, NewEntry, SameKey, EntryLive, Holds, Close,
                           NoSession
  <2> QED BY <1>28, <2>1, <2>2 DEF BeginLong, EntryFor
<1>29. ASSUME NEW x \in LongOps, ConnectLong(x) PROVE CancelInv'
      BY <1>29 DEF ConnectLong, NotOpening
<1>30. ASSUME NEW x \in LongOps, EndLong(x) PROVE CancelInv'
      BY <1>30 DEF EndLong, NoLong
<1>31. ASSUME NEW S \in SUBSET Sessions, EvictExpired(S) PROVE CancelInv'
      BY <1>31 DEF EvictExpired, Close, NoSession
<1>32. ASSUME EvictEntry PROVE CancelInv'
      BY <1>32 DEF EvictEntry, Holds
<1>33. ASSUME NEW s \in Sessions, CancelLands(s) PROVE CancelInv'
      BY <1>33 DEF CancelLands
<1>34. ASSUME NEW t \in Tunnels, TunnelDies(t) PROVE CancelInv'
      BY <1>34 DEF TunnelDies
<1> QED BY <1>1, <1>2, <1>3, <1>4, <1>5, <1>6, <1>7, <1>8, <1>9, <1>10, <1>11, <1>12, <1>13,
           <1>14, <1>15, <1>16, <1>17, <1>18, <1>19, <1>20, <1>21, <1>22, <1>23, <1>24, <1>25,
           <1>26, <1>27, <1>28, <1>29, <1>30, <1>31, <1>32, <1>33, <1>34
        DEF Next, Checkout, Lease, OpenStep, Checkin, Background, LongOp

\* No action parks a session out of reach.
LEMMA StrandedStep ==
    ASSUME EntriesOK, TasksOK, Links, StrandInv, Next
    PROVE  StrandInv'
<1> USE PoolAssumption DEF EntriesOK, TasksOK, Links, StrandInv, NothingStranded, Holds,
                    RunState, OpenState, LongState, Connection, Return, RunPCs, Doubts, Fates,
                    Openers, entryVars
<1>1. ASSUME NEW r \in Runs, NEW l \in Lanes, NEW c \in Creds, NEW e \in EntryIds,
             Begin(r, l, c, e) PROVE StrandInv'
  <2>1. CASE SameEntry(c, e)
        BY <1>1, <2>1 DEF Begin, SameEntry, NoRun
  <2>2. CASE NewEntry(c, e)
    <3>1. \A f \in EntryIds : f # e /\ Holds(f)' => Holds(f)
          BY <1>1 DEF Begin, NoRun
    <3>2. /\ current' = e
          /\ \A f \in EntryIds : retired'[f] <=> f # e /\ (retired[f] \/ f = current)
          /\ \A f \in EntryIds : idle'[f] # {} => idle[f] # {} /\ f # current
          BY <1>1, <2>2 DEF Begin, NewEntry
    <3> HIDE DEF Holds, RunState, OpenState, LongState, Connection, Return, RunPCs, Doubts, Fates
    <3> QED BY <3>1, <3>2
  <2> QED BY <1>1, <2>1, <2>2 DEF Begin, EntryFor
<1>2. ASSUME NEW r \in Runs, NEW s \in Sessions, Reuse(r, s) PROVE StrandInv'
      BY <1>2 DEF Reuse, TakeIdle, Usable, CountLease, Close, NoSession
<1>3. ASSUME NEW r \in Runs, Wait(r) PROVE StrandInv'
      BY <1>3 DEF Wait, Usable, Close, NoSession
<1>4. ASSUME NEW r \in Runs, WaitEnds(r) PROVE StrandInv'
      BY <1>4 DEF WaitEnds
<1>5. ASSUME NEW r \in Runs, Open(r) PROVE StrandInv'
      BY <1>5 DEF Open, Usable, Start, CountLease, Close, NoSession
<1>6. ASSUME NEW r \in Runs, StopEarly(r) PROVE StrandInv'
      BY <1>6 DEF StopEarly, NoRun
<1>7. ASSUME NEW r \in Runs, NEW s \in Sessions, ConnectRun(r, s) PROVE StrandInv'
      BY <1>7 DEF ConnectRun, Fresh, Unused, NotOpening
<1>8. ASSUME NEW r \in Runs, ReadOnly(r) PROVE StrandInv'
      BY <1>8 DEF ReadOnly
<1>9. ASSUME NEW r \in Runs, StopReadOnly(r) PROVE StrandInv'
      BY <1>9 DEF StopReadOnly, CheckinWith, Fate, NoRun
<1>10. ASSUME NEW r \in Runs, Call(r) PROVE StrandInv'
      BY <1>10 DEF Call
<1>11. ASSUME NEW r \in Runs, Cancel(r) PROVE StrandInv'
      BY <1>11 DEF Cancel
<1>12. ASSUME NEW r \in Runs, Reconnect(r) PROVE StrandInv'
      BY <1>12 DEF Reconnect, Start
<1>13. ASSUME NEW r \in Runs, NEW s \in Sessions, ConnectAgain(r, s) PROVE StrandInv'
      BY <1>13 DEF ConnectAgain, Fresh, Unused, NotOpening, NoSession
<1>14. ASSUME NEW r \in Runs, Release(r) PROVE StrandInv'
      BY <1>14 DEF Release, CheckinWith, Fate, NoRun
<1>15. ASSUME NEW o \in Openers, ShareTunnel(o) PROVE StrandInv'
      BY <1>15 DEF ShareTunnel
<1>16. ASSUME NEW o \in Openers, OpenTunnel(o) PROVE StrandInv'
      BY <1>16 DEF OpenTunnel, Close, NoSession
<1>17. ASSUME NEW o \in Openers, NEW t \in Tunnels, TunnelOpened(o, t) PROVE StrandInv'
      BY <1>17 DEF TunnelOpened
<1>18. ASSUME NEW o \in Openers, GiveUp(o) PROVE StrandInv'
      BY <1>18 DEF GiveUp, NotOpening, NoRun, NoLong
<1>19. ASSUME NEW k \in back, CheckinDiscard(k) PROVE StrandInv'
  <2>1. CASE k.fate = "DiscardAndRefill"
        BY <1>19, <2>1 DEF CheckinDiscard, Discarded, Close, NoSession
  <2>2. CASE k.fate # "DiscardAndRefill"
        BY <1>19, <2>2 DEF CheckinDiscard, Discarded, Close, NoSession
  <2> QED BY <1>19, <2>1, <2>2
<1>20. ASSUME NEW k \in back, CheckinReset(k) PROVE StrandInv'
      BY <1>20 DEF CheckinReset, Discarded
<1>21. ASSUME NEW k \in back, ResetOk(k) PROVE StrandInv'
  <2>1. CASE NotParked(k.ent)
        BY <1>21, <2>1 DEF ResetOk, Park, Close, NoSession, NotParked
  <2>2. CASE ~NotParked(k.ent)
        BY <1>21, <2>2 DEF ResetOk, Park, Close, NoSession, NotParked
  <2> QED BY <1>21, <2>1, <2>2
<1>22. ASSUME NEW k \in back, ResetFails(k) PROVE StrandInv'
      BY <1>22 DEF ResetFails, Close, NoSession
<1>23. ASSUME NEW k \in back, Refill(k) PROVE StrandInv'
  <2>1. CASE MayOpenIdle(k.ent, FALSE)
    <3>1. opening' = [opening EXCEPT ![k.ent] = Start(k.ent)] /\ k.ent \in EntryIds
          BY <1>23, <2>1 DEF Refill, StartOpenIdle
    <3> QED BY <1>23, <3>1, StartOf DEF Refill, Close
  <2>2. CASE ~MayOpenIdle(k.ent, FALSE)
        BY <1>23, <2>2 DEF Refill, Close
  <2> QED BY <2>1, <2>2
<1>24. ASSUME NEW e \in EntryIds, NEW s \in Sessions, ConnectWarm(e, s) PROVE StrandInv'
  <2>1. CASE NotParked(e)
        BY <1>24, <2>1 DEF ConnectWarm, Park, Fresh, Unused, NotOpening, Close, NoSession,
                           NotParked
  <2>2. CASE ~NotParked(e)
        BY SMTT(60), <1>24, <2>2 DEF ConnectWarm, Park, Fresh, Unused, NotOpening, Close, NoSession,
                           NotParked
  <2> QED BY <1>24, <2>1, <2>2
<1>25. ASSUME NEW e \in EntryIds, DropPending(e) PROVE StrandInv'
      BY <1>25 DEF DropPending
<1>26. ASSUME NEW c \in Creds, NEW e \in EntryIds, Warm(c, e) PROVE StrandInv'
  <2>1. CASE SameEntry(c, e)
        BY <1>26, <2>1 DEF Warm, SameEntry
  <2>2. CASE NewEntry(c, e)
    <3>1. \A f \in EntryIds : f # e /\ Holds(f)' => Holds(f)
          BY <1>26 DEF Warm
    <3>2. /\ current' = e
          /\ \A f \in EntryIds : retired'[f] <=> f # e /\ (retired[f] \/ f = current)
          /\ \A f \in EntryIds : idle'[f] # {} => idle[f] # {} /\ f # current
          BY <1>26, <2>2 DEF Warm, NewEntry
    <3> HIDE DEF Holds, RunState, OpenState, LongState, Connection, Return, RunPCs, Doubts, Fates
    <3> QED BY <3>1, <3>2
  <2> QED BY <1>26, <2>1, <2>2 DEF Warm, EntryFor
<1>27. ASSUME NEW e \in EntryIds, WarmOpens(e) PROVE StrandInv'
  <2>1. CASE MayOpenIdle(e, TRUE)
    <3>1. opening' = [opening EXCEPT ![e] = Start(e)] /\ e \in EntryIds
          BY <1>27, <2>1 DEF WarmOpens, StartOpenIdle
    <3> QED BY <1>27, <3>1, StartOf DEF WarmOpens
  <2>2. CASE ~MayOpenIdle(e, TRUE)
        BY <1>27, <2>2 DEF WarmOpens
  <2> QED BY <2>1, <2>2
<1>28. ASSUME NEW x \in LongOps, NEW c \in Creds, NEW e \in EntryIds, BeginLong(x, c, e)
     PROVE  StrandInv'
  <2>1. CASE SameEntry(c, e)
        BY <1>28, <2>1 DEF BeginLong, SameEntry, Start
  <2>2. CASE NewEntry(c, e)
    <3>1. \A f \in EntryIds : f # e /\ Holds(f)' => Holds(f)
          BY <1>28 DEF BeginLong, Start
    <3>2. /\ current' = e
          /\ \A f \in EntryIds : retired'[f] <=> f # e /\ (retired[f] \/ f = current)
          /\ \A f \in EntryIds : idle'[f] # {} => idle[f] # {} /\ f # current
          BY <1>28, <2>2 DEF BeginLong, NewEntry
    <3> HIDE DEF Holds, RunState, OpenState, LongState, Connection, Return, RunPCs, Doubts, Fates
    <3> QED BY <3>1, <3>2
  <2> QED BY <1>28, <2>1, <2>2 DEF BeginLong, EntryFor
<1>29. ASSUME NEW x \in LongOps, ConnectLong(x) PROVE StrandInv'
      BY <1>29 DEF ConnectLong, NotOpening
<1>30. ASSUME NEW x \in LongOps, EndLong(x) PROVE StrandInv'
      BY <1>30 DEF EndLong, NoLong
<1>31. ASSUME NEW S \in SUBSET Sessions, EvictExpired(S) PROVE StrandInv'
      BY <1>31 DEF EvictExpired, Close, NoSession
<1>32. ASSUME EvictEntry PROVE StrandInv'
      BY SMTT(60), <1>32 DEF EvictEntry, Holds
<1>33. ASSUME NEW s \in Sessions, CancelLands(s) PROVE StrandInv'
      BY <1>33 DEF CancelLands
<1>34. ASSUME NEW t \in Tunnels, TunnelDies(t) PROVE StrandInv'
      BY <1>34 DEF TunnelDies
<1> QED BY <1>1, <1>2, <1>3, <1>4, <1>5, <1>6, <1>7, <1>8, <1>9, <1>10, <1>11, <1>12, <1>13,
           <1>14, <1>15, <1>16, <1>17, <1>18, <1>19, <1>20, <1>21, <1>22, <1>23, <1>24, <1>25,
           <1>26, <1>27, <1>28, <1>29, <1>30, <1>31, <1>32, <1>33, <1>34
        DEF Next, Checkout, Lease, OpenStep, Checkin, Background, LongOp

\* Sessions that only move between the lists of their entry stay on its tunnel, as long as the slot
\* changes under nobody.
LEMMA OneTunnelKept ==
    ASSUME EntriesOK, TasksOK, OneTunnel, alive' = alive,
           \A z \in Sessions : sess'[z].tun \in {sess[z].tun, None},
           \A f \in EntryIds : \A z \in idle'[f] :
               z \in idle[f] \/ \E h \in back : h.sid = z /\ h.ent = f,
           \A r \in Runs : run'[r].sid # None
               => run'[r].sid = run[r].sid /\ run'[r].ent = run[r].ent,
           \A i \in back' : \E h \in back : i.sid = h.sid /\ i.ent = h.ent,
           \A f \in EntryIds :
               \/ slot'[f] = slot[f]
               \/ /\ idle'[f] = {}
                  /\ \A r \in Runs : run[r].ent # f
                  /\ \A h \in back : h.ent # f,
           \A r \in Runs : run[r].sid # None => run[r].ent \in EntryIds
    PROVE  OneTunnel'
<1>1. None \notin alive
      BY PoolAssumption DEF TasksOK
<1>2. /\ \A r \in Runs : run[r].sid # None => run[r].sid \in Sessions
      /\ \A h \in back : h.sid \in Sessions /\ h.ent \in EntryIds
      /\ \A f \in EntryIds : \A z \in idle[f] : z \in Sessions
      BY DEF EntriesOK, TasksOK, RunState, Return
<1>3. \A f \in EntryIds : \A z \in idle'[f] : sess'[z].tun \in alive => sess'[z].tun = slot'[f]
      BY <1>1, <1>2 DEF OneTunnel
<1>4. \A r \in Runs : run'[r].sid # None /\ sess'[run'[r].sid].tun \in alive
                         => sess'[run'[r].sid].tun = slot'[run'[r].ent]
      BY <1>1, <1>2 DEF OneTunnel
<1>5. \A i \in back' : sess'[i.sid].tun \in alive => sess'[i.sid].tun = slot'[i.ent]
      BY <1>1, <1>2 DEF OneTunnel
<1> QED BY <1>3, <1>4, <1>5 DEF OneTunnel

\* Looking up an entry empties the slot of an entry nobody holds, and retires the one it replaces.
LEMMA EntryForTunnel ==
    ASSUME EntriesOK, NEW c, NEW e \in EntryIds, EntryFor(c, e)
    PROVE  /\ \A f \in EntryIds : idle'[f] \subseteq idle[f]
           /\ \A z \in Sessions : sess'[z].tun \in {sess[z].tun, None}
           /\ \A f \in EntryIds : slot'[f] = slot[f] \/ (idle'[f] = {} /\ ~Holds(f))
           /\ \/ current' = current /\ retired' = retired /\ slot' = slot
              \/ /\ \A f \in EntryIds : f # e /\ (retired[f] \/ f = current) => retired'[f]
                 /\ \A x \in LongOps : long[x].ent # e
<1> USE DEF EntriesOK
<1>1. CASE SameEntry(c, e)
      BY <1>1 DEF SameEntry
<1>2. CASE NewEntry(c, e)
      BY <1>2 DEF NewEntry, EntryLive, Close, NoSession
<1> QED BY <1>1, <1>2 DEF EntryFor

\* No action puts a session of an entry on a second live tunnel, or lets the janitor take the
\* tunnel of a long operation.
LEMMA TunnelStep ==
    ASSUME EntriesOK, TasksOK, Links, SoleOwner, StrandInv, TunnelInv, Next
    PROVE  TunnelInv'
<1>a. \A q \in Openers : opening[q].at = "opening"
                             => locked[opening[q].ent] = q /\ slot[opening[q].ent] = None
      BY DEF TunnelInv
<1>b. \A q \in Openers : opening[q].at # "no" => opening[q].ent \in EntryIds
      BY PoolAssumption DEF Links, Openers, TasksOK, RunState
<1> USE PoolAssumption DEF EntriesOK, TasksOK, Links, SoleOwner, TunnelInv, OneTunnel,
                    LongOpKeepsTunnel, RunState, OpenState, LongState, Connection, Return, RunPCs,
                    Doubts, Fates, Openers, entryVars
<1>1. ASSUME NEW r \in Runs, NEW l \in Lanes, NEW c \in Creds, NEW e \in EntryIds, Begin(r, l, c, e)
     PROVE  TunnelInv'
  <2>1. OneTunnel'
    <3>1. /\ \A q \in Runs : run'[q].sid # None => run'[q].sid = run[q].sid /\ run'[q].ent = run[q].ent
          /\ back' = back /\ alive' = alive /\ EntryFor(c, e)
          BY <1>1 DEF Begin, NoRun
    <3>9. \A q \in Runs : run[q].sid # None => run[q].ent \in EntryIds
          OBVIOUS
    <3> HIDE DEF OneTunnel, Links, SoleOwner, LongOpKeepsTunnel, RunState, OpenState, LongState, Connection,
                 Return, RunPCs, Doubts, Fates, EntriesOK, TasksOK, TunnelInv
    <3> QED BY <3>1, <3>9, EntryForTunnel, OneTunnelKept DEF TunnelInv, Holds, NoSession
  <2>2. LongOpKeepsTunnel'
    <3>1. /\ alive' = alive /\ EntryFor(c, e)
          /\ \A y \in LongOps : long'[y].pc = "holding" => long'[y] = long[y]
          BY <1>1 DEF Begin, NoRun
    <3>2. \A y \in LongOps : long[y].pc = "holding" => long[y].ent \in EntryIds
          OBVIOUS
    <3> HIDE DEF OneTunnel, Links, SoleOwner, RunState, OpenState, LongState, Connection,
                 Return, RunPCs, Doubts, Fates, EntriesOK, TasksOK, TunnelInv
    <3> QED BY <3>1, <3>2, EntryForTunnel DEF TunnelInv
  <2>3. (\A q \in Openers : opening[q].at = "connect" /\ opening[q].tun \in alive
                             => opening[q].tun = slot[opening[q].ent])'
    <3>1. alive' = alive /\ EntryFor(c, e)
          BY <1>1 DEF Begin, NoRun
    <3>2. \A q \in Openers : opening'[q] = opening[q] \/ opening'[q].tun = None
          BY <1>1 DEF Begin, NoRun, Start
    <3>3. \A q \in Openers : opening[q].at # "no" => opening[q].ent \in EntryIds
          BY <1>b
    <3>4. None \notin alive
          OBVIOUS
    <3> HIDE DEF OneTunnel, Links, SoleOwner, LongOpKeepsTunnel, RunState, OpenState, LongState, Connection,
                 Return, RunPCs, Doubts, Fates, EntriesOK, TasksOK
    <3> QED BY <3>1, <3>2, <3>3, <3>4, EntryForTunnel DEF TunnelInv, Holds
  <2>4. (\A q \in Openers : opening[q].at = "opening"
                             => locked[opening[q].ent] = q /\ slot[opening[q].ent] = None)'
    <3>1. locked' = locked /\ EntryFor(c, e)
          BY <1>1 DEF Begin, NoRun
    <3>2. \A q \in Openers : opening'[q] = opening[q] \/ opening'[q].at # "opening"
          BY <1>1 DEF Begin, NoRun, Start
    <3>3. \A q \in Openers : opening[q].at # "no" => opening[q].ent \in EntryIds
          BY <1>b
    <3> HIDE DEF OneTunnel, Links, SoleOwner, LongOpKeepsTunnel, RunState, OpenState, LongState, Connection,
                 Return, RunPCs, Doubts, Fates, EntriesOK, TasksOK
    <3> QED BY <3>1, <3>2, <3>3, EntryForTunnel DEF TunnelInv, Holds
  <2>5. (\A y \in LongOps : /\ long[y].pc = "opening" => long[y].ent = opening[y].ent
                            /\ long[y].pc = "holding" => long[y].ent \in EntryIds)'
        BY <1>1 DEF Begin, EntryFor, SameEntry, NewEntry, EntryLive, Holds, NoRun, Close, NoSession
  <2> QED BY <2>1, <2>2, <2>3, <2>4, <2>5 DEF TunnelInv
<1>2. ASSUME NEW r \in Runs, NEW s \in Sessions, Reuse(r, s) PROVE TunnelInv'
      BY <1>2 DEF Reuse, TakeIdle, Usable, CountLease, Close, NoSession
<1>3. ASSUME NEW r \in Runs, Wait(r) PROVE TunnelInv'
      BY <1>3 DEF Wait, Usable, Close, NoSession
<1>4. ASSUME NEW r \in Runs, WaitEnds(r) PROVE TunnelInv'
      BY <1>4 DEF WaitEnds
<1>5. ASSUME NEW r \in Runs, Open(r) PROVE TunnelInv'
      BY <1>5 DEF Open, Usable, Start, CountLease, Close, NoSession
<1>6. ASSUME NEW r \in Runs, StopEarly(r) PROVE TunnelInv'
      BY <1>6 DEF StopEarly, NoRun
<1>7. ASSUME NEW r \in Runs, NEW s \in Sessions, ConnectRun(r, s) PROVE TunnelInv'
      BY <1>7 DEF ConnectRun, Fresh, Unused, NotOpening
<1>8. ASSUME NEW r \in Runs, ReadOnly(r) PROVE TunnelInv'
      BY <1>8 DEF ReadOnly
<1>9. ASSUME NEW r \in Runs, StopReadOnly(r) PROVE TunnelInv'
      BY <1>9 DEF StopReadOnly, CheckinWith, Fate, NoRun
<1>10. ASSUME NEW r \in Runs, Call(r) PROVE TunnelInv'
      BY <1>10 DEF Call
<1>11. ASSUME NEW r \in Runs, Cancel(r) PROVE TunnelInv'
      BY <1>11 DEF Cancel
<1>12. ASSUME NEW r \in Runs, Reconnect(r) PROVE TunnelInv'
      BY <1>12 DEF Reconnect, Start
<1>13. ASSUME NEW r \in Runs, NEW s \in Sessions, ConnectAgain(r, s) PROVE TunnelInv'
  <2>1. OneTunnel'
    <3>1. /\ opening[r].ent = run[r].ent /\ run[r].ent \in EntryIds
          /\ opening[r].tun \in alive => opening[r].tun = slot[run[r].ent]
          BY <1>13 DEF ConnectAgain
    <3>2. /\ \A f \in EntryIds : s \notin idle[f]
          /\ \A q \in Runs : run[q].sid # s
          /\ \A h \in back : h.sid # s
          BY <1>13 DEF ConnectAgain, Unused
    <3>3. /\ \A z \in Sessions \ {s} : sess'[z].tun \in {sess[z].tun, None}
          /\ sess'[s].tun \in {opening[r].tun, None}
          BY <1>13, <3>2 DEF ConnectAgain, Fresh, NoSession
    <3>4. /\ \A q \in Runs : run[q].sid # None => run[q].sid \in Sessions
          /\ \A h \in back : h.sid \in Sessions
          /\ \A f \in EntryIds : \A z \in idle[f] : z \in Sessions
          /\ None \notin alive
          OBVIOUS
    <3>5. slot' = slot /\ alive' = alive /\ back' = back
          BY <1>13 DEF ConnectAgain
    <3>6. \A f \in EntryIds : \A z \in idle'[f] : z \in idle[f] \/ (z = s /\ f = run[r].ent)
          BY <1>13 DEF ConnectAgain, Park
    <3>7. \A q \in Runs : run'[q].sid # None /\ run'[q] # run[q]
                             => run'[q].sid = s /\ run'[q].ent = run[r].ent
          BY <1>13 DEF ConnectAgain
    <3> HIDE DEF OneTunnel, Links, SoleOwner, LongOpKeepsTunnel, RunState, OpenState, LongState, Connection,
                 Return, RunPCs, Doubts, Fates, EntriesOK, TasksOK
    <3> QED BY <3>1, <3>2, <3>3, <3>4, <3>5, <3>6, <3>7 DEF OneTunnel
  <2>2. LongOpKeepsTunnel'
        BY <1>13 DEF ConnectAgain, Fresh, Unused, NotOpening, NoSession
  <2>3. (\A q \in Openers : opening[q].at = "connect" /\ opening[q].tun \in alive
                             => opening[q].tun = slot[opening[q].ent])'
        BY <1>13 DEF ConnectAgain, Fresh, Unused, NotOpening, NoSession
  <2>4. (\A q \in Openers : opening[q].at = "opening"
                             => locked[opening[q].ent] = q /\ slot[opening[q].ent] = None)'
        BY <1>13 DEF ConnectAgain, Fresh, Unused, NotOpening, NoSession
  <2>5. (\A y \in LongOps : /\ long[y].pc = "opening" => long[y].ent = opening[y].ent
                            /\ long[y].pc = "holding" => long[y].ent \in EntryIds)'
        BY <1>13 DEF ConnectAgain, Fresh, Unused, NotOpening, NoSession
  <2> QED BY <2>1, <2>2, <2>3, <2>4, <2>5 DEF TunnelInv
<1>14. ASSUME NEW r \in Runs, Release(r) PROVE TunnelInv'
      BY <1>14 DEF Release, CheckinWith, Fate, NoRun
<1>15. ASSUME NEW o \in Openers, ShareTunnel(o) PROVE TunnelInv'
      BY <1>15 DEF ShareTunnel
<1>16. ASSUME NEW o \in Openers, OpenTunnel(o) PROVE TunnelInv'
  <2>1. OneTunnel'
        BY <1>16 DEF OpenTunnel, SlotFree, Close, NoSession
  <2>2. LongOpKeepsTunnel'
        BY <1>16 DEF OpenTunnel, SlotFree, Close, NoSession
  <2>3. (\A q \in Openers : opening[q].at = "connect" /\ opening[q].tun \in alive
                             => opening[q].tun = slot[opening[q].ent])'
        BY <1>16 DEF OpenTunnel, SlotFree, Close, NoSession
  <2>4. (\A q \in Openers : opening[q].at = "opening"
                             => locked[opening[q].ent] = q /\ slot[opening[q].ent] = None)'
    <3>1. \A q \in Openers : opening[q].at # "no" => opening[q].ent \in EntryIds
          BY <1>b
    <3>2. /\ locked[opening[o].ent] = None /\ opening[o].at # "no"
          /\ locked' = [locked EXCEPT ![opening[o].ent] = o]
          /\ slot' = [slot EXCEPT ![opening[o].ent] = None]
          /\ opening' = [opening EXCEPT ![o].at = "opening"]
          BY <1>16 DEF OpenTunnel, SlotFree
    <3>3. /\ None \notin Openers
          /\ locked \in [EntryIds -> Openers \cup {None}] /\ slot \in [EntryIds -> Tunnels \cup {None}]
          /\ opening \in [Openers -> OpenState]
          OBVIOUS
    <3> HIDE DEF OneTunnel, Links, SoleOwner, LongOpKeepsTunnel, RunState, OpenState, LongState, Connection,
                 Return, RunPCs, Doubts, Fates, EntriesOK, TasksOK
    <3> QED BY <3>1, <3>2, <3>3 DEF TunnelInv, OpenState
  <2>5. (\A y \in LongOps : /\ long[y].pc = "opening" => long[y].ent = opening[y].ent
                            /\ long[y].pc = "holding" => long[y].ent \in EntryIds)'
        BY <1>16 DEF OpenTunnel, SlotFree, Close, NoSession
  <2> QED BY <2>1, <2>2, <2>3, <2>4, <2>5 DEF TunnelInv
<1>17. ASSUME NEW o \in Openers, NEW t \in Tunnels, TunnelOpened(o, t) PROVE TunnelInv'
  <2>1. OneTunnel'
        BY <1>17 DEF TunnelOpened, TunnelInUse, TunnelShared
  <2>2. LongOpKeepsTunnel'
        BY <1>17 DEF TunnelOpened, TunnelInUse, TunnelShared
  <2>3. (\A q \in Openers : opening[q].at = "connect" /\ opening[q].tun \in alive
                             => opening[q].tun = slot[opening[q].ent])'
        BY <1>17 DEF TunnelOpened, TunnelInUse, TunnelShared
  <2>4. (\A q \in Openers : opening[q].at = "opening"
                             => locked[opening[q].ent] = q /\ slot[opening[q].ent] = None)'
        BY <1>17 DEF TunnelOpened, TunnelInUse, TunnelShared
  <2>5. (\A y \in LongOps : /\ long[y].pc = "opening" => long[y].ent = opening[y].ent
                            /\ long[y].pc = "holding" => long[y].ent \in EntryIds)'
        BY <1>17 DEF TunnelOpened, TunnelInUse, TunnelShared
  <2> QED BY <2>1, <2>2, <2>3, <2>4, <2>5 DEF TunnelInv
<1>18. ASSUME NEW o \in Openers, GiveUp(o) PROVE TunnelInv'
      BY <1>18 DEF GiveUp, NotOpening, NoRun, NoLong
<1>19. ASSUME NEW k \in back, CheckinDiscard(k) PROVE TunnelInv'
  <2>1. OneTunnel'
    <3>1. \A i \in back' : \E h \in back : i.sid = h.sid /\ i.ent = h.ent
      <4>1. back' \subseteq back \cup {[k EXCEPT !.step = "refill"]}
            BY <1>19 DEF CheckinDiscard
      <4>2. [k EXCEPT !.step = "refill"].sid = k.sid /\ [k EXCEPT !.step = "refill"].ent = k.ent
            OBVIOUS
      <4> HIDE DEF Links, SoleOwner, TunnelInv, OneTunnel, LongOpKeepsTunnel, EntriesOK, TasksOK
      <4> QED BY <4>1, <4>2
    <3>2. \A z \in Sessions : sess'[z].tun \in {sess[z].tun, None}
          BY <1>19 DEF CheckinDiscard, Discarded, Close, NoSession
    <3>3. \A f \in EntryIds : \A z \in idle'[f] :
             z \in idle[f] \/ \E h \in back : h.sid = z /\ h.ent = f
          BY <1>19 DEF CheckinDiscard, Discarded, Close, NoSession
    <3>4. run' = run /\ slot' = slot /\ alive' = alive
          BY <1>19 DEF CheckinDiscard
    <3>9. \A q \in Runs : run[q].sid # None => run[q].ent \in EntryIds
          OBVIOUS
    <3> HIDE DEF OneTunnel, Links, SoleOwner, LongOpKeepsTunnel, RunState, OpenState, LongState, Connection,
                 Return, RunPCs, Doubts, Fates, EntriesOK, TasksOK
    <3> QED BY <3>1, <3>9, <3>2, <3>3, <3>4, OneTunnelKept DEF TunnelInv
  <2>2. LongOpKeepsTunnel'
        BY <1>19 DEF CheckinDiscard, Discarded, Close, NoSession
  <2>3. (\A q \in Openers : opening[q].at = "connect" /\ opening[q].tun \in alive
                             => opening[q].tun = slot[opening[q].ent])'
        BY <1>19 DEF CheckinDiscard, Discarded, Close, NoSession
  <2>4. (\A q \in Openers : opening[q].at = "opening"
                             => locked[opening[q].ent] = q /\ slot[opening[q].ent] = None)'
        BY <1>19 DEF CheckinDiscard, Discarded, Close, NoSession
  <2>5. (\A y \in LongOps : /\ long[y].pc = "opening" => long[y].ent = opening[y].ent
                            /\ long[y].pc = "holding" => long[y].ent \in EntryIds)'
        BY <1>19 DEF CheckinDiscard, Discarded, Close, NoSession
  <2> QED BY <2>1, <2>2, <2>3, <2>4, <2>5 DEF TunnelInv
<1>20. ASSUME NEW k \in back, CheckinReset(k) PROVE TunnelInv'
  <2>1. OneTunnel'
    <3>1. \A i \in back' : \E h \in back : i.sid = h.sid /\ i.ent = h.ent
          BY <1>20 DEF CheckinReset
    <3>2. \A z \in Sessions : sess'[z].tun \in {sess[z].tun, None}
          BY <1>20 DEF CheckinReset
    <3>3. \A f \in EntryIds : \A z \in idle'[f] :
             z \in idle[f] \/ \E h \in back : h.sid = z /\ h.ent = f
          BY <1>20 DEF CheckinReset
    <3>4. run' = run /\ slot' = slot /\ alive' = alive
          BY <1>20 DEF CheckinReset
    <3>9. \A q \in Runs : run[q].sid # None => run[q].ent \in EntryIds
          OBVIOUS
    <3> HIDE DEF OneTunnel, Links, SoleOwner, LongOpKeepsTunnel, RunState, OpenState, LongState, Connection,
                 Return, RunPCs, Doubts, Fates, EntriesOK, TasksOK
    <3> QED BY <3>1, <3>9, <3>2, <3>3, <3>4, OneTunnelKept DEF TunnelInv
  <2>2. LongOpKeepsTunnel'
        BY <1>20 DEF CheckinReset, Discarded
  <2>3. (\A q \in Openers : opening[q].at = "connect" /\ opening[q].tun \in alive
                             => opening[q].tun = slot[opening[q].ent])'
        BY <1>20 DEF CheckinReset, Discarded
  <2>4. (\A q \in Openers : opening[q].at = "opening"
                             => locked[opening[q].ent] = q /\ slot[opening[q].ent] = None)'
        BY <1>20 DEF CheckinReset, Discarded
  <2>5. (\A y \in LongOps : /\ long[y].pc = "opening" => long[y].ent = opening[y].ent
                            /\ long[y].pc = "holding" => long[y].ent \in EntryIds)'
        BY <1>20 DEF CheckinReset, Discarded
  <2> QED BY <2>1, <2>2, <2>3, <2>4, <2>5 DEF TunnelInv
<1>21. ASSUME NEW k \in back, ResetOk(k) PROVE TunnelInv'
  <2>1. OneTunnel'
    <3>1. \A i \in back' : \E h \in back : i.sid = h.sid /\ i.ent = h.ent
          BY <1>21 DEF ResetOk
    <3>2. \A z \in Sessions : sess'[z].tun \in {sess[z].tun, None}
          BY <1>21 DEF ResetOk, Park, Close, NoSession
    <3>3. \A f \in EntryIds : \A z \in idle'[f] :
             z \in idle[f] \/ \E h \in back : h.sid = z /\ h.ent = f
          BY <1>21 DEF ResetOk, Park, Close, NoSession
    <3>4. run' = run /\ slot' = slot /\ alive' = alive
          BY <1>21 DEF ResetOk
    <3>9. \A q \in Runs : run[q].sid # None => run[q].ent \in EntryIds
          OBVIOUS
    <3> HIDE DEF OneTunnel, Links, SoleOwner, LongOpKeepsTunnel, RunState, OpenState, LongState, Connection,
                 Return, RunPCs, Doubts, Fates, EntriesOK, TasksOK
    <3> QED BY <3>1, <3>9, <3>2, <3>3, <3>4, OneTunnelKept DEF TunnelInv
  <2>2. LongOpKeepsTunnel'
        BY <1>21 DEF ResetOk, Park, Close, NoSession
  <2>3. (\A q \in Openers : opening[q].at = "connect" /\ opening[q].tun \in alive
                             => opening[q].tun = slot[opening[q].ent])'
        BY <1>21 DEF ResetOk, Park, Close, NoSession
  <2>4. (\A q \in Openers : opening[q].at = "opening"
                             => locked[opening[q].ent] = q /\ slot[opening[q].ent] = None)'
        BY <1>21 DEF ResetOk, Park, Close, NoSession
  <2>5. (\A y \in LongOps : /\ long[y].pc = "opening" => long[y].ent = opening[y].ent
                            /\ long[y].pc = "holding" => long[y].ent \in EntryIds)'
        BY <1>21 DEF ResetOk, Park, Close, NoSession
  <2> QED BY <2>1, <2>2, <2>3, <2>4, <2>5 DEF TunnelInv
<1>22. ASSUME NEW k \in back, ResetFails(k) PROVE TunnelInv'
      BY <1>22 DEF ResetFails, Close, NoSession
<1>23. ASSUME NEW k \in back, Refill(k) PROVE TunnelInv'
  <2>1. /\ slot' = slot /\ alive' = alive /\ locked' = locked /\ long' = long /\ run' = run
        /\ current' = current /\ retired' = retired /\ idle' = idle
        BY <1>23 DEF Refill
  <2>2. k.ent \in EntryIds
        BY <1>23 DEF Refill
  <2>3. \A q \in Openers : opening'[q] = opening[q] \/ (q \in EntryIds /\ opening'[q] = Start(k.ent))
    <3>1. CASE MayOpenIdle(k.ent, FALSE)
      <4>1. opening' = [opening EXCEPT ![k.ent] = Start(k.ent)]
            BY <1>23, <3>1 DEF Refill, StartOpenIdle
      <4> QED BY <4>1, <2>2
    <3>2. CASE ~MayOpenIdle(k.ent, FALSE)
          BY <1>23, <3>2 DEF Refill
    <3> QED BY <3>1, <3>2
  <2>4. OneTunnel'
        BY <1>23, <2>1 DEF Refill, Close, NoSession
  <2>5. LongOpKeepsTunnel'
        BY <2>1
  <2>6. (\A q \in Openers : opening[q].at = "connect" /\ opening[q].tun \in alive
                             => opening[q].tun = slot[opening[q].ent])'
        BY <2>1, <2>3, StartOf
  <2>7. (\A q \in Openers : opening[q].at = "opening"
                             => locked[opening[q].ent] = q /\ slot[opening[q].ent] = None)'
    <3>1. \A q \in Openers : opening'[q].at = "opening" => opening'[q] = opening[q]
      <4> HIDE DEF Links, SoleOwner, TunnelInv, OneTunnel, LongOpKeepsTunnel, EntriesOK, TasksOK,
                   RunState, OpenState, LongState, Connection, Return
      <4> QED BY <2>3, StartOf
    <3> HIDE DEF Links, SoleOwner, TunnelInv, OneTunnel, LongOpKeepsTunnel, EntriesOK, TasksOK,
                 RunState, OpenState, LongState, Connection, Return
    <3> QED BY <1>a, <3>1, <2>1
  <2>8. (\A y \in LongOps : /\ long[y].pc = "opening" => long[y].ent = opening[y].ent
                            /\ long[y].pc = "holding" => long[y].ent \in EntryIds)'
        BY <2>1, <2>3
  <2> QED BY <2>4, <2>5, <2>6, <2>7, <2>8 DEF TunnelInv
<1>24. ASSUME NEW e \in EntryIds, NEW s \in Sessions, ConnectWarm(e, s) PROVE TunnelInv'
  <2>1. OneTunnel'
    <3>1. /\ opening[e].ent = e /\ e \in EntryIds
          /\ opening[e].tun \in alive => opening[e].tun = slot[e]
          BY <1>24 DEF ConnectWarm
    <3>2. /\ \A f \in EntryIds : s \notin idle[f]
          /\ \A q \in Runs : run[q].sid # s
          /\ \A h \in back : h.sid # s
          BY <1>24 DEF ConnectWarm, Unused
    <3>3. /\ \A z \in Sessions \ {s} : sess'[z].tun \in {sess[z].tun, None}
          /\ sess'[s].tun \in {opening[e].tun, None}
          BY <1>24, <3>2 DEF ConnectWarm, Park, Fresh, Close, NoSession
    <3>4. /\ \A q \in Runs : run[q].sid # None => run[q].sid \in Sessions
          /\ \A h \in back : h.sid \in Sessions
          /\ \A f \in EntryIds : \A z \in idle[f] : z \in Sessions
          /\ None \notin alive
          OBVIOUS
    <3>5. slot' = slot /\ alive' = alive /\ back' = back
          BY <1>24 DEF ConnectWarm
    <3>6. \A f \in EntryIds : \A z \in idle'[f] : z \in idle[f] \/ (z = s /\ f = e)
          BY <1>24 DEF ConnectWarm, Park
    <3>7. \A q \in Runs : run'[q].sid # None /\ run'[q] # run[q]
                             => run'[q].sid = s /\ run'[q].ent = e
          BY <1>24 DEF ConnectWarm
    <3> HIDE DEF OneTunnel, Links, SoleOwner, LongOpKeepsTunnel, RunState, OpenState, LongState, Connection,
                 Return, RunPCs, Doubts, Fates, EntriesOK, TasksOK
    <3> QED BY <3>1, <3>2, <3>3, <3>4, <3>5, <3>6, <3>7 DEF OneTunnel
  <2>2. LongOpKeepsTunnel'
        BY <1>24 DEF ConnectWarm, Park, Fresh, Unused, NotOpening, Close, NoSession
  <2>3. (\A q \in Openers : opening[q].at = "connect" /\ opening[q].tun \in alive
                             => opening[q].tun = slot[opening[q].ent])'
        BY <1>24 DEF ConnectWarm, Park, Fresh, Unused, NotOpening, Close, NoSession
  <2>4. (\A q \in Openers : opening[q].at = "opening"
                             => locked[opening[q].ent] = q /\ slot[opening[q].ent] = None)'
        BY <1>24 DEF ConnectWarm, Park, Fresh, Unused, NotOpening, Close, NoSession
  <2>5. (\A y \in LongOps : /\ long[y].pc = "opening" => long[y].ent = opening[y].ent
                            /\ long[y].pc = "holding" => long[y].ent \in EntryIds)'
        BY <1>24 DEF ConnectWarm, Park, Fresh, Unused, NotOpening, Close, NoSession
  <2> QED BY <2>1, <2>2, <2>3, <2>4, <2>5 DEF TunnelInv
<1>25. ASSUME NEW e \in EntryIds, DropPending(e) PROVE TunnelInv'
      BY <1>25 DEF DropPending
<1>26. ASSUME NEW c \in Creds, NEW e \in EntryIds, Warm(c, e) PROVE TunnelInv'
  <2>1. OneTunnel'
    <3>1. /\ \A q \in Runs : run'[q].sid # None => run'[q].sid = run[q].sid /\ run'[q].ent = run[q].ent
          /\ back' = back /\ alive' = alive /\ EntryFor(c, e)
          BY <1>26 DEF Warm
    <3>9. \A q \in Runs : run[q].sid # None => run[q].ent \in EntryIds
          OBVIOUS
    <3> HIDE DEF OneTunnel, Links, SoleOwner, LongOpKeepsTunnel, RunState, OpenState, LongState, Connection,
                 Return, RunPCs, Doubts, Fates, EntriesOK, TasksOK, TunnelInv
    <3> QED BY <3>1, <3>9, EntryForTunnel, OneTunnelKept DEF TunnelInv, Holds, NoSession
  <2>2. LongOpKeepsTunnel'
    <3>1. /\ alive' = alive /\ EntryFor(c, e)
          /\ \A y \in LongOps : long'[y].pc = "holding" => long'[y] = long[y]
          BY <1>26 DEF Warm
    <3>2. \A y \in LongOps : long[y].pc = "holding" => long[y].ent \in EntryIds
          OBVIOUS
    <3> HIDE DEF OneTunnel, Links, SoleOwner, RunState, OpenState, LongState, Connection,
                 Return, RunPCs, Doubts, Fates, EntriesOK, TasksOK, TunnelInv
    <3> QED BY <3>1, <3>2, EntryForTunnel DEF TunnelInv
  <2>3. (\A q \in Openers : opening[q].at = "connect" /\ opening[q].tun \in alive
                             => opening[q].tun = slot[opening[q].ent])'
    <3>1. alive' = alive /\ EntryFor(c, e)
          BY <1>26 DEF Warm
    <3>2. \A q \in Openers : opening'[q] = opening[q] \/ opening'[q].tun = None
          BY <1>26 DEF Warm, Start
    <3>3. \A q \in Openers : opening[q].at # "no" => opening[q].ent \in EntryIds
          BY <1>b
    <3>4. None \notin alive
          OBVIOUS
    <3> HIDE DEF OneTunnel, Links, SoleOwner, LongOpKeepsTunnel, RunState, OpenState, LongState, Connection,
                 Return, RunPCs, Doubts, Fates, EntriesOK, TasksOK
    <3> QED BY <3>1, <3>2, <3>3, <3>4, EntryForTunnel DEF TunnelInv, Holds
  <2>4. (\A q \in Openers : opening[q].at = "opening"
                             => locked[opening[q].ent] = q /\ slot[opening[q].ent] = None)'
    <3>1. locked' = locked /\ EntryFor(c, e)
          BY <1>26 DEF Warm
    <3>2. \A q \in Openers : opening'[q] = opening[q] \/ opening'[q].at # "opening"
          BY <1>26 DEF Warm, Start
    <3>3. \A q \in Openers : opening[q].at # "no" => opening[q].ent \in EntryIds
          BY <1>b
    <3> HIDE DEF OneTunnel, Links, SoleOwner, LongOpKeepsTunnel, RunState, OpenState, LongState, Connection,
                 Return, RunPCs, Doubts, Fates, EntriesOK, TasksOK
    <3> QED BY <3>1, <3>2, <3>3, EntryForTunnel DEF TunnelInv, Holds
  <2>5. (\A y \in LongOps : /\ long[y].pc = "opening" => long[y].ent = opening[y].ent
                            /\ long[y].pc = "holding" => long[y].ent \in EntryIds)'
        BY <1>26 DEF Warm, EntryFor, SameEntry, NewEntry, EntryLive, Holds, Close, NoSession
  <2> QED BY <2>1, <2>2, <2>3, <2>4, <2>5 DEF TunnelInv
<1>27. ASSUME NEW e \in EntryIds, WarmOpens(e) PROVE TunnelInv'
  <2>1. /\ slot' = slot /\ alive' = alive /\ locked' = locked /\ long' = long /\ run' = run
        /\ current' = current /\ retired' = retired /\ idle' = idle
        BY <1>27 DEF WarmOpens
  <2>2. e \in EntryIds
        BY <1>27 DEF WarmOpens
  <2>3. \A q \in Openers : opening'[q] = opening[q] \/ (q \in EntryIds /\ opening'[q] = Start(e))
    <3>1. CASE MayOpenIdle(e, TRUE)
      <4>1. opening' = [opening EXCEPT ![e] = Start(e)]
            BY <1>27, <3>1 DEF WarmOpens, StartOpenIdle
      <4> QED BY <4>1, <2>2
    <3>2. CASE ~MayOpenIdle(e, TRUE)
          BY <1>27, <3>2 DEF WarmOpens
    <3> QED BY <3>1, <3>2
  <2>4. OneTunnel'
        BY <1>27, <2>1 DEF WarmOpens, Close, NoSession
  <2>5. LongOpKeepsTunnel'
        BY <2>1
  <2>6. (\A q \in Openers : opening[q].at = "connect" /\ opening[q].tun \in alive
                             => opening[q].tun = slot[opening[q].ent])'
        BY <2>1, <2>3, StartOf
  <2>7. (\A q \in Openers : opening[q].at = "opening"
                             => locked[opening[q].ent] = q /\ slot[opening[q].ent] = None)'
    <3>1. \A q \in Openers : opening'[q].at = "opening" => opening'[q] = opening[q]
      <4> HIDE DEF Links, SoleOwner, TunnelInv, OneTunnel, LongOpKeepsTunnel, EntriesOK, TasksOK,
                   RunState, OpenState, LongState, Connection, Return
      <4> QED BY <2>3, StartOf
    <3> HIDE DEF Links, SoleOwner, TunnelInv, OneTunnel, LongOpKeepsTunnel, EntriesOK, TasksOK,
                 RunState, OpenState, LongState, Connection, Return
    <3> QED BY <1>a, <3>1, <2>1
  <2>8. (\A y \in LongOps : /\ long[y].pc = "opening" => long[y].ent = opening[y].ent
                            /\ long[y].pc = "holding" => long[y].ent \in EntryIds)'
        BY <2>1, <2>3
  <2> QED BY <2>4, <2>5, <2>6, <2>7, <2>8 DEF TunnelInv
<1>28. ASSUME NEW x \in LongOps, NEW c \in Creds, NEW e \in EntryIds, BeginLong(x, c, e) PROVE TunnelInv'
  <2>1. OneTunnel'
    <3>1. /\ \A q \in Runs : run'[q].sid # None => run'[q].sid = run[q].sid /\ run'[q].ent = run[q].ent
          /\ back' = back /\ alive' = alive /\ EntryFor(c, e)
          BY <1>28 DEF BeginLong
    <3>9. \A q \in Runs : run[q].sid # None => run[q].ent \in EntryIds
          OBVIOUS
    <3> HIDE DEF OneTunnel, Links, SoleOwner, LongOpKeepsTunnel, RunState, OpenState, LongState, Connection,
                 Return, RunPCs, Doubts, Fates, EntriesOK, TasksOK, TunnelInv
    <3> QED BY <3>1, <3>9, EntryForTunnel, OneTunnelKept DEF TunnelInv, Holds, NoSession
  <2>2. LongOpKeepsTunnel'
    <3>1. /\ alive' = alive /\ EntryFor(c, e)
          /\ \A y \in LongOps : long'[y].pc = "holding" => long'[y] = long[y]
          BY <1>28 DEF BeginLong
    <3>2. \A y \in LongOps : long[y].pc = "holding" => long[y].ent \in EntryIds
          OBVIOUS
    <3> HIDE DEF OneTunnel, Links, SoleOwner, RunState, OpenState, LongState, Connection,
                 Return, RunPCs, Doubts, Fates, EntriesOK, TasksOK, TunnelInv
    <3> QED BY <3>1, <3>2, EntryForTunnel DEF TunnelInv
  <2>3. (\A q \in Openers : opening[q].at = "connect" /\ opening[q].tun \in alive
                             => opening[q].tun = slot[opening[q].ent])'
    <3>1. alive' = alive /\ EntryFor(c, e)
          BY <1>28 DEF BeginLong
    <3>2. \A q \in Openers : opening'[q] = opening[q] \/ opening'[q].tun = None
          BY <1>28 DEF BeginLong, Start
    <3>3. \A q \in Openers : opening[q].at # "no" => opening[q].ent \in EntryIds
          BY <1>b
    <3>4. None \notin alive
          OBVIOUS
    <3> HIDE DEF OneTunnel, Links, SoleOwner, LongOpKeepsTunnel, RunState, OpenState, LongState, Connection,
                 Return, RunPCs, Doubts, Fates, EntriesOK, TasksOK
    <3> QED BY <3>1, <3>2, <3>3, <3>4, EntryForTunnel DEF TunnelInv, Holds
  <2>4. (\A q \in Openers : opening[q].at = "opening"
                             => locked[opening[q].ent] = q /\ slot[opening[q].ent] = None)'
    <3>1. locked' = locked /\ EntryFor(c, e)
          BY <1>28 DEF BeginLong
    <3>2. \A q \in Openers : opening'[q] = opening[q] \/ opening'[q].at # "opening"
          BY <1>28 DEF BeginLong, Start
    <3>3. \A q \in Openers : opening[q].at # "no" => opening[q].ent \in EntryIds
          BY <1>b
    <3> HIDE DEF OneTunnel, Links, SoleOwner, LongOpKeepsTunnel, RunState, OpenState, LongState, Connection,
                 Return, RunPCs, Doubts, Fates, EntriesOK, TasksOK
    <3> QED BY <3>1, <3>2, <3>3, EntryForTunnel DEF TunnelInv, Holds
  <2>5. (\A y \in LongOps : /\ long[y].pc = "opening" => long[y].ent = opening[y].ent
                            /\ long[y].pc = "holding" => long[y].ent \in EntryIds)'
        BY <1>28 DEF BeginLong, Start, EntryFor, SameEntry, NewEntry, EntryLive, Holds, Close, NoSession
  <2> QED BY <2>1, <2>2, <2>3, <2>4, <2>5 DEF TunnelInv
<1>29. ASSUME NEW x \in LongOps, ConnectLong(x) PROVE TunnelInv'
  <2>1. OneTunnel'
        BY <1>29 DEF ConnectLong, NotOpening, StrandInv, Holds
  <2>2. LongOpKeepsTunnel'
        BY <1>29 DEF ConnectLong, NotOpening, StrandInv, Holds
  <2>3. (\A q \in Openers : opening[q].at = "connect" /\ opening[q].tun \in alive
                             => opening[q].tun = slot[opening[q].ent])'
        BY <1>29 DEF ConnectLong, NotOpening, StrandInv, Holds
  <2>4. (\A q \in Openers : opening[q].at = "opening"
                             => locked[opening[q].ent] = q /\ slot[opening[q].ent] = None)'
        BY <1>29 DEF ConnectLong, NotOpening, StrandInv, Holds
  <2>5. (\A y \in LongOps : /\ long[y].pc = "opening" => long[y].ent = opening[y].ent
                            /\ long[y].pc = "holding" => long[y].ent \in EntryIds)'
        BY <1>29 DEF ConnectLong, NotOpening, StrandInv, Holds
  <2> QED BY <2>1, <2>2, <2>3, <2>4, <2>5 DEF TunnelInv
<1>30. ASSUME NEW x \in LongOps, EndLong(x) PROVE TunnelInv'
      BY <1>30 DEF EndLong, NoLong
<1>31. ASSUME NEW S \in SUBSET Sessions, EvictExpired(S) PROVE TunnelInv'
      BY <1>31 DEF EvictExpired, Close, NoSession
<1>32. ASSUME EvictEntry PROVE TunnelInv'
      BY <1>32 DEF EvictEntry, TunnelKept, TunnelShared
<1>33. ASSUME NEW s \in Sessions, CancelLands(s) PROVE TunnelInv'
      BY <1>33 DEF CancelLands
<1>34. ASSUME NEW t \in Tunnels, TunnelDies(t) PROVE TunnelInv'
      BY <1>34 DEF TunnelDies
<1> HIDE DEF EntriesOK, TasksOK, Links, SoleOwner, TunnelInv, OneTunnel, LongOpKeepsTunnel,
             RunState, OpenState, LongState, Connection, Return, RunPCs, Doubts, Fates
<1> QED BY <1>1, <1>2, <1>3, <1>4, <1>5, <1>6, <1>7, <1>8, <1>9, <1>10, <1>11, <1>12, <1>13,
           <1>14, <1>15, <1>16, <1>17, <1>18, <1>19, <1>20, <1>21, <1>22, <1>23, <1>24, <1>25,
           <1>26, <1>27, <1>28, <1>29, <1>30, <1>31, <1>32, <1>33, <1>34
        DEF Next, Checkout, Lease, OpenStep, Checkin, Background, LongOp

\* Only park adds to an idle list.
LEMMA IdleStep ==
    ASSUME EntriesOK, TasksOK, EntriesOK', IdleInv, Next
    PROVE  IdleInv'
<1> USE PoolAssumption DEF EntriesOK, TasksOK, entryVars
<1>1. ASSUME NEW r \in Runs, NEW l \in Lanes, NEW c \in Creds, NEW e \in EntryIds,
             Begin(r, l, c, e) PROVE IdleInv'
      BY <1>1, IdleShrinks DEF Begin, EntryFor, SameEntry, NewEntry
<1>2. ASSUME NEW r \in Runs, NEW s \in Sessions,
             Reuse(r, s) \/ ConnectRun(r, s) \/ ConnectAgain(r, s) PROVE IdleInv'
      BY <1>2, IdleShrinks DEF Reuse, TakeIdle, Usable, ConnectRun, ConnectAgain
<1>3. ASSUME NEW r \in Runs,
             Wait(r) \/ WaitEnds(r) \/ Open(r) \/ StopEarly(r) \/ ReadOnly(r) \/
             StopReadOnly(r) \/ Call(r) \/ Cancel(r) \/ Reconnect(r) \/ Release(r)
     PROVE  IdleInv'
      BY <1>3, IdleShrinks DEF Wait, Usable, WaitEnds, Open, StopEarly, ReadOnly, StopReadOnly,
                               CheckinWith, Call, Cancel, Reconnect, Release
<1>4. ASSUME NEW o \in Openers, ShareTunnel(o) \/ OpenTunnel(o) \/ GiveUp(o) PROVE IdleInv'
      BY <1>4, IdleShrinks DEF ShareTunnel, OpenTunnel, GiveUp
<1>5. ASSUME NEW o \in Openers, NEW t \in Tunnels, TunnelOpened(o, t) PROVE IdleInv'
      BY <1>5, IdleShrinks DEF TunnelOpened
<1>6. ASSUME NEW k \in back,
             CheckinDiscard(k) \/ CheckinReset(k) \/ ResetFails(k) \/ Refill(k) PROVE IdleInv'
      BY <1>6, IdleShrinks DEF CheckinDiscard, CheckinReset, ResetFails, Refill
<1>7. ASSUME NEW k \in back, ResetOk(k) PROVE IdleInv'
      BY <1>7, ParkKeepsBound DEF ResetOk, Return
<1>8. ASSUME NEW e \in EntryIds, NEW s \in Sessions, ConnectWarm(e, s) PROVE IdleInv'
      BY <1>8, ParkKeepsBound DEF ConnectWarm
<1>9. ASSUME NEW e \in EntryIds, DropPending(e) \/ WarmOpens(e) PROVE IdleInv'
      BY <1>9, IdleShrinks DEF DropPending, WarmOpens
<1>10. ASSUME NEW c \in Creds, NEW e \in EntryIds, Warm(c, e) PROVE IdleInv'
      BY <1>10, IdleShrinks DEF Warm, EntryFor, SameEntry, NewEntry
<1>11. ASSUME NEW x \in LongOps, NEW c \in Creds, NEW e \in EntryIds, BeginLong(x, c, e)
     PROVE  IdleInv'
      BY <1>11, IdleShrinks DEF BeginLong, EntryFor, SameEntry, NewEntry
<1>12. ASSUME NEW x \in LongOps, ConnectLong(x) \/ EndLong(x) PROVE IdleInv'
      BY <1>12, IdleShrinks DEF ConnectLong, EndLong
<1>13. ASSUME NEW S \in SUBSET Sessions, EvictExpired(S) PROVE IdleInv'
      BY <1>13, IdleShrinks DEF EvictExpired
<1>14. ASSUME EvictEntry PROVE IdleInv'
      BY <1>14, IdleShrinks DEF EvictEntry
<1>15. ASSUME NEW s \in Sessions, CancelLands(s) PROVE IdleInv'
      BY <1>15, IdleShrinks DEF CancelLands
<1>16. ASSUME NEW t \in Tunnels, TunnelDies(t) PROVE IdleInv'
      BY <1>16, IdleShrinks DEF TunnelDies
<1> QED BY <1>1, <1>2, <1>3, <1>4, <1>5, <1>6, <1>7, <1>8, <1>9, <1>10, <1>11, <1>12, <1>13,
           <1>14, <1>15, <1>16
        DEF Next, Checkout, Lease, OpenStep, Checkin, Background, LongOp

\* The inductive invariant.
PoolInv ==
    /\ EntriesOK /\ TasksOK /\ Links
    /\ SoleOwner /\ CredInv /\ CancelInv /\ StrandInv /\ TunnelInv
    /\ LeasesTrue /\ PendingTrue /\ IdleInv

\* A new pool satisfies it.
LEMMA PoolInit == Init => PoolInv
<1> SUFFICES ASSUME Init PROVE PoolInv
    OBVIOUS
<1> USE PoolAssumption
<1>1. EntriesOK
      BY DEF Init, EntriesOK
<1>2. TasksOK
      BY NoRunType, NoLongType, NotOpeningType, NoSessionType DEF Init, TasksOK
<1>3. Links
      BY DEF Init, Links, NoRun, NotOpening, NoLong, Openers
<1>4. SoleOwner /\ CredInv /\ CancelInv
      BY DEF Init, SoleOwner, CredInv, OwnCredential, CancelInv, CancelStaysHome, NoRun, NoSession
<1>5. StrandInv
      BY DEF Init, StrandInv, NothingStranded, Holds, NoRun, NotOpening, Openers
<1>6. LeasesTrue
  <2>1. \A e, l : OutOn(e, l) = {}
        BY DEF Init, OutOn, Guarded, NoRun
  <2> QED BY <2>1, FS_EmptySet DEF Init, LeasesTrue
<1>7. PendingTrue
  <2>1. \A e : Returning(e) = {}
        BY DEF Init, Returning
  <2>2. \A e \in EntryIds : Warmup(e) = 0
        BY DEF Init, Warmup, NotOpening, Openers
  <2>3. IsFiniteSet(back) /\ Cardinality({}) = 0
        BY FS_EmptySet DEF Init
  <2>4. \A e : Cardinality(Returning(e)) = 0
        BY <2>1, <2>3
  <2> QED BY <2>2, <2>3, <2>4 DEF Init, PendingTrue
<1>8. IdleInv
      BY FS_EmptySet DEF Init, IdleInv
<1>9. TunnelInv
      BY DEF Init, TunnelInv, OneTunnel, LongOpKeepsTunnel, NoRun, NoLong, NotOpening, Openers
<1> QED BY <1>1, <1>2, <1>3, <1>4, <1>5, <1>6, <1>7, <1>8, <1>9 DEF PoolInv

\* Every step keeps it.
LEMMA PoolNext == PoolInv /\ [Next]_vars => PoolInv'
<1> SUFFICES ASSUME PoolInv, [Next]_vars PROVE PoolInv'
    OBVIOUS
<1>1. CASE Next
  <2>1. EntriesOK' /\ TasksOK' /\ Links'
        BY <1>1, EntriesStep, TasksStep, LinksStep DEF PoolInv
  <2>2. SoleOwner' /\ CredInv' /\ CancelInv' /\ StrandInv'
        BY <1>1, SoleOwnerStep, CredentialStep, CancelStep, StrandedStep DEF PoolInv
  <2>3. LeasesTrue' /\ PendingTrue' /\ IdleInv'
        BY <1>1, <2>1, LeasesStep, PendingStep, IdleStep DEF PoolInv
  <2>4. TunnelInv'
        BY <1>1, TunnelStep DEF PoolInv
  <2> QED BY <2>1, <2>2, <2>3, <2>4 DEF PoolInv
<1>2. CASE UNCHANGED vars
  <2> USE <1>2 DEF vars
  <2>1. EntriesOK' /\ TasksOK' /\ Links'
        BY DEF PoolInv, EntriesOK, TasksOK, Links
  <2>2. SoleOwner' /\ CredInv' /\ CancelInv'
        BY DEF PoolInv, SoleOwner, CredInv, OwnCredential, CancelInv, CancelStaysHome
  <2>3. StrandInv'
        BY DEF PoolInv, StrandInv, NothingStranded, Holds
  <2>4. LeasesTrue' /\ PendingTrue' /\ IdleInv'
        BY DEF PoolInv, LeasesTrue, OutOn, Guarded, PendingTrue, Returning, Warmup, IdleInv
  <2>5. TunnelInv'
        BY DEF PoolInv, TunnelInv, OneTunnel, LongOpKeepsTunnel
  <2> QED BY <2>1, <2>2, <2>3, <2>4, <2>5 DEF PoolInv
<1> QED BY <1>1, <1>2

\* The invariant holds in every reachable state of the pool.
THEOREM PoolSafe == Spec => []PoolInv
<1> QED BY PoolInit, PoolNext, PTL DEF Spec

\* Every variable keeps its shape; no counter of pool.rs ever reaches its saturating_sub at zero.
THEOREM TypeCorrect == Spec => []TypeOK
<1>1. PoolInv => TypeOK
      BY DEF PoolInv, TypeOK, CountersOK, LeasesTrue, PendingTrue
<1> QED BY <1>1, PoolSafe, PTL

\* No connection is ever in two of the idle lists, leases and checkins of pool.rs.
THEOREM OneOwner == Spec => []SoleOwner
<1>1. PoolInv => SoleOwner
      BY DEF PoolInv
<1> QED BY <1>1, PoolSafe, PTL

\* A lease never works on a connection that was opened with another credential than its own.
THEOREM CredentialKept == Spec => []OwnCredential
<1>1. PoolInv => OwnCredential
      BY DEF PoolInv, CredInv
<1> QED BY <1>1, PoolSafe, PTL

\* A cancel that lands late lands on nobody else's statement.
THEOREM LateCancelHarmless == Spec => []CancelStaysHome
<1>1. PoolInv => CancelStaysHome
      BY DEF PoolInv, CancelInv
<1> QED BY <1>1, PoolSafe, PTL

\* No session is parked in an entry the map has lost.
THEOREM NoneStranded == Spec => []NothingStranded
<1>1. PoolInv => NothingStranded
      BY DEF PoolInv, StrandInv
<1> QED BY <1>1, PoolSafe, PTL

\* The sessions of an entry share one live tunnel, and the janitor never takes the tunnel of a
\* running export (pool.rs ensure_tunnel, evict).
THEOREM TunnelHolds == Spec => []TunnelsHeld
<1>1. PoolInv => TunnelsHeld
      BY DEF PoolInv, TunnelInv, TunnelsHeld
<1> QED BY <1>1, PoolSafe, PTL

\* The lane counts and the pending count of every entry are exact, whoever is stopped where.
THEOREM CountsExact == Spec => []CountsAreTrue
<1>1. PoolInv => CountsAreTrue
      BY DEF PoolInv, LeasesTrue, PendingTrue, CountsAreTrue
<1> QED BY <1>1, PoolSafe, PTL

\* No idle list grows beyond IDLE_MAX.
THEOREM IdleWithinMax == Spec => []IdleBounded
<1>1. PoolInv => IdleBounded
      BY DEF PoolInv, IdleInv, IdleBounded
<1> QED BY <1>1, PoolSafe, PTL

==============================================================================
