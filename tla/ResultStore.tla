----------------------------- MODULE ResultStore -----------------------------
(***************************************************************************)
(* The result stores of crates/qh-result-store: registry.rs (the budget,   *)
(* eviction, the decoded cache, release) and the lifecycle and residency   *)
(* of store.rs.                                                            *)
(*                                                                         *)
(* Every store has one writer (the fetch loop of a run) and one owner that *)
(* releases it (a closed tab).  Readers are window calls and view          *)
(* expansions.  A step is one atomic operation or one locked region, so    *)
(* any other thread may act between two of them: between the two halves of *)
(* set_phase, between the encrypting and the swap of a spill, between the  *)
(* charge of a chunk and its publication.                                  *)
(*                                                                         *)
(* Every chunk is charged one unit.  Which chunk or cache entry is the     *)
(* oldest is left open, so every eviction order is covered.  The three     *)
(* finished phases are one, the row count is counted in chunks, and what a *)
(* chunk holds, the encryption and the column list are left out.           *)
(***************************************************************************)
EXTENDS Integers, FiniteSets

CONSTANTS
    Stores,
    Readers,     \* threads that read chunks
    Pool,        \* those of them that expand a view: they hold the store, not the handle
    MaxChunks,   \* bound: chunks a writer seals
    Budget,      \* budget_bytes, in chunks
    LowWater,    \* low_water_bytes
    DecodedCap,  \* decoded_cache_chunks
    EvictKeep,   \* decoded chunks that an eviction leaves: 4 in the code
    SpillOn,     \* a cipher and a spill directory exist
    Overlap,     \* what may be under way on a store while it is released
    None

Activities == {"write", "spill", "read"}

Admissible ==
    /\ IsFiniteSet(Stores) /\ IsFiniteSet(Readers) /\ Pool \subseteq Readers
    /\ Stores \cap Readers = {}
    /\ MaxChunks \in Nat /\ Budget \in Nat /\ DecodedCap \in Nat /\ EvictKeep \in Nat
    /\ LowWater \in 0..Budget
    /\ SpillOn \in BOOLEAN
    /\ Overlap \subseteq Activities
    /\ None \notin Stores

ASSUME StoreAssumption == Admissible

VARIABLES
    resident,  \* StoreRegistry.resident
    live,      \* StoreRegistry.live: the stores that are alive
    decoded,   \* StoreRegistry.decoded: <<store, index>> of each entry
    phase,     \* StoreShared.phase
    count,     \* how many chunks StoreShared.chunks lists
    taken,     \* release has emptied StoreShared.chunks
    home,      \* the residency of each chunk cell
    rows,      \* StoreShared.rows
    file,      \* StoreShared.spill is a file
    owner,     \* where release of each store is
    task       \* the writers (named by their store) and the readers

budgetVars == <<resident, live, decoded>>
storeVars == <<phase, count, taken, home, rows, file>>
vars == <<resident, live, decoded, phase, count, taken, home, rows, file, owner, task>>

Tasks == Stores \cup Readers

\* An index of the chunk table counts from 1.  A cell outlives the table: release empties the
\* table once, and a writer that did not notice starts it again from 1.
Keys == Stores \X (1..MaxChunks)
Cells == Stores \X BOOLEAN \X (1..MaxChunks)
CellAt(k) == <<k[1], taken[k[1]], k[2]>>

Phases == {"Empty", "Streaming", "Finished", "Released"}

WriterPCs == {"load", "store", "entry", "rows", "abort", "finish", "stopped"}
ReaderPCs == {"hold", "lookup", "fetch", "trimall", "fit", "insert"}
EvictPCs == {"trim", "scan", "next", "write", "swap", "give"}

\* key: the chunk being read.  cand: what evict_until has left to try.  cur: the cell whose chunk
\* this thread holds.  err: first_error.  for: the call that evicts, the charge itself or the
\* second look of cache_decoded.
NoTask == [pc |-> "idle", key |-> None, cand |-> {}, cur |-> None, err |-> FALSE,
           for |-> "charge"]

Task == [pc : {"idle", "charge"} \cup WriterPCs \cup ReaderPCs \cup EvictPCs,
         key : Keys \cup {None}, cand : SUBSET Keys, cur : Cells \cup {None},
         err : BOOLEAN, for : {"charge", "fit"}]

OwnerPCs == {"open", "removed", "marked", "taken", "freed", "unfiled", "closed", "dropped"}

\* Release is under way.
Releasing(s) == owner[s] \notin {"open", "closed", "dropped"}

Spilling(t) == task[t].pc \in {"write", "swap", "give"}

Reading(r, s) == task[r].key # None /\ task[r].key[1] = s

Busy(a, s) ==
    CASE a = "write" -> task[s].pc \notin {"idle", "stopped"}
      [] a = "spill" -> \E t \in Tasks : Spilling(t) /\ task[t].cur[1] = s
      [] a = "read"  -> \E r \in Readers : Reading(r, s)

\* What a run that keeps an activity apart from release assumes of it.
MayStart(a, s) == a \in Overlap \/ ~Releasing(s)

Init ==
    /\ resident = 0 /\ live = Stores /\ decoded = {}
    /\ phase = [s \in Stores |-> "Empty"]
    /\ count = [s \in Stores |-> 0]
    /\ taken = [s \in Stores |-> FALSE]
    /\ home = [c \in Cells |-> "none"]
    /\ rows = [s \in Stores |-> 0]
    /\ file = [s \in Stores |-> FALSE]
    /\ owner = [s \in Stores |-> "open"]
    /\ task = [t \in Tasks |-> NoTask]

(***************************************************************************)
(* The budget                                                              *)
(***************************************************************************)

\* uncharge saturates.
Uncharged(n) == IF n > resident THEN 0 ELSE resident - n

\* Where a thread goes when its charge stands, and when it is refused.
Granted(t) == IF t \in Stores THEN "entry" ELSE "fit"
Refused(t) == IF t \in Stores THEN "abort" ELSE "idle"

Goto(t, pc) == task' = [task EXCEPT ![t].pc = pc]

\* charge adds first and looks at the sum.
Charge(t) ==
    /\ task[t].pc = "charge"
    /\ resident' = resident + 1
    /\ Goto(t, IF resident' <= Budget THEN Granted(t)
               ELSE IF t \in Stores THEN "trim" ELSE "trimall")
    /\ UNCHANGED <<live, decoded, storeVars, owner>>

\* charge for the decoded cache drops the cache before it evicts anything else.
TrimAll(r) ==
    /\ task[r].pc = "trimall"
    /\ decoded' = {}
    /\ resident' = Uncharged(Cardinality(decoded))
    /\ Goto(r, IF resident' <= Budget THEN "fit" ELSE "trim")
    /\ UNCHANGED <<live, storeVars, owner>>

(***************************************************************************)
(* Eviction                                                                *)
(***************************************************************************)

Trim(t) ==
    /\ task[t].pc = "trim"
    /\ LET keep == IF DecodedCap < EvictKeep THEN DecodedCap ELSE EvictKeep
           most == IF Cardinality(decoded) < keep THEN Cardinality(decoded) ELSE keep
       IN \E kept \in SUBSET decoded :
            /\ Cardinality(kept) = most
            /\ decoded' = kept
            /\ resident' = Uncharged(Cardinality(decoded) - most)
    /\ Goto(t, "scan")
    /\ UNCHANGED <<live, storeVars, owner>>

\* evictable_chunks of every live store.
Scan(t) ==
    /\ task[t].pc = "scan"
    /\ task' = [task EXCEPT ![t] = [@ EXCEPT !.pc = "next", !.cand =
                  {k \in Keys : k[1] \in live /\ k[2] <= count[k[1]]
                                  /\ home[CellAt(k)] = "memory"}]]
    /\ UNCHANGED <<budgetVars, storeVars, owner>>

\* Arc::strong_count(chunk) > 1.
Borrowed(c) == \E t \in Tasks : task[t].cur = c

Spillable(k) ==
    /\ SpillOn
    /\ k[2] <= count[k[1]]
    /\ home[CellAt(k)] = "memory"
    /\ ~Borrowed(CellAt(k))

\* The first half of spill_one: the chunk is cloned, or left alone.
Pick(t) ==
    /\ task[t].pc = "next" /\ resident > LowWater
    /\ \E k \in task[t].cand :
         /\ MayStart("spill", k[1])
         /\ task' = [task EXCEPT ![t] = [@ EXCEPT
                       !.cand = task[t].cand \ {k},
                       !.pc = IF Spillable(k) THEN "write" ELSE "next",
                       !.cur = IF Spillable(k) THEN CellAt(k) ELSE None]]
    /\ UNCHANGED <<budgetVars, storeVars, owner>>

LeaveChunk(t, e) == task' = [task EXCEPT ![t] = [@ EXCEPT !.pc = "next", !.cur = None, !.err = e]]

\* Mutant: the phase is not looked at again under the spill lock.
WriteToAny(t) ==
    LET s == task[t].cur[1] IN
    /\ task[t].pc = "write"
    /\ file' = [file EXCEPT ![s] = TRUE]
    /\ Goto(t, "swap")
    /\ UNCHANGED <<budgetVars, phase, count, taken, home, rows, owner>>

\* Under the spill lock: a released store gets no file.
SpillWrite(t) ==
    LET s == task[t].cur[1] IN
    /\ task[t].pc = "write"
    /\ IF phase[s] = "Released"
       THEN /\ LeaveChunk(t, task[t].err)
            /\ UNCHANGED file
       ELSE /\ file' = [file EXCEPT ![s] = TRUE]
            /\ Goto(t, "swap")
    /\ UNCHANGED <<budgetVars, phase, count, taken, home, rows, owner>>

\* The record could not be made (the chunk stays, no error) or not be written (an error).
SpillFails(t) ==
    LET s == task[t].cur[1] IN
    /\ task[t].pc = "write"
    /\ \/ /\ LeaveChunk(t, task[t].err)
          /\ UNCHANGED file
       \/ /\ phase[s] # "Released"
          /\ LeaveChunk(t, TRUE)
          /\ file' \in {file, [file EXCEPT ![s] = TRUE]}
    /\ UNCHANGED <<budgetVars, phase, count, taken, home, rows, owner>>

\* Resident becomes Spilled, if the cell still holds this chunk.
SpillSwap(t) ==
    LET c == task[t].cur IN
    /\ task[t].pc = "swap"
    /\ home' = IF home[c] = "memory" THEN [home EXCEPT ![c] = "disk"] ELSE home
    /\ Goto(t, "give")
    /\ UNCHANGED <<budgetVars, phase, count, taken, rows, file, owner>>

\* The last line of spill_one: the bytes are given back whatever the swap found.
SpillGive(t) ==
    /\ task[t].pc = "give"
    /\ resident' = Uncharged(1)
    /\ LeaveChunk(t, task[t].err)
    /\ UNCHANGED <<live, decoded, storeVars, owner>>

\* Mutant: after the eviction the sum is not looked at again.
EnoughFreed(t) == task[t].cand # {} \/ ~task[t].err

\* The eviction helped: the target was met before the candidates ran out, or no spill failed; and
\* the sum with this charge is inside the budget.
Fits(t) ==
    /\ task[t].cand # {} \/ ~task[t].err
    /\ task[t].for = "charge" => resident <= Budget

\* A refused charge is taken back.
ChargeBack(t) == Uncharged(1)

\* evict_until returns to charge, or to the second look of cache_decoded.
EvictEnds(t) ==
    LET to == IF task[t].for = "charge" THEN Granted(t) ELSE "insert" IN
    /\ task[t].pc = "next" /\ (resident <= LowWater \/ task[t].cand = {})
    /\ resident' = IF Fits(t) THEN resident ELSE ChargeBack(t)
    /\ task' = [task EXCEPT ![t] =
                  IF Fits(t) THEN [NoTask EXCEPT !.pc = to, !.key = task[t].key]
                  ELSE [NoTask EXCEPT !.pc = Refused(t)]]
    /\ UNCHANGED <<live, decoded, storeVars, owner>>

(***************************************************************************)
(* The writer                                                              *)
(***************************************************************************)

\* push and push_chunk: check_writable.  A writer that is told Released stops.
Push(s) ==
    /\ task[s].pc = "idle" /\ rows[s] < MaxChunks /\ MayStart("write", s)
    /\ phase[s] # "Finished"
    /\ Goto(s, IF phase[s] = "Released" THEN "stopped" ELSE "load")
    /\ UNCHANGED <<budgetVars, storeVars, owner>>

\* set_phase(Streaming): the load ...
LoadPhase(s) ==
    /\ task[s].pc = "load"
    /\ Goto(s, IF phase[s] \in {"Empty", "Streaming"} THEN "store" ELSE "charge")
    /\ UNCHANGED <<budgetVars, storeVars, owner>>

\* ... and the store.
StorePhase(s) ==
    /\ task[s].pc = "store"
    /\ phase' = [phase EXCEPT ![s] = "Streaming"]
    /\ Goto(s, "charge")
    /\ UNCHANGED <<budgetVars, count, taken, home, rows, file, owner>>

\* publish, once the charge stands: the entry ...
PublishEntry(s) ==
    /\ task[s].pc = "entry"
    /\ count' = [count EXCEPT ![s] = @ + 1]
    /\ home' = [home EXCEPT ![<<s, taken[s], count[s] + 1>>] = "memory"]
    /\ Goto(s, "rows")
    /\ UNCHANGED <<budgetVars, phase, taken, rows, file, owner>>

\* ... and, last, the row count.
PublishRows(s) ==
    /\ task[s].pc = "rows"
    /\ rows' = [rows EXCEPT ![s] = @ + 1]
    /\ Goto(s, "idle")
    /\ UNCHANGED <<budgetVars, phase, count, taken, home, file, owner>>

\* Mutant: the row count is published before the entry.
RowsFirst(s) ==
    \/ /\ task[s].pc = "entry" /\ rows[s] = count[s]
       /\ rows' = [rows EXCEPT ![s] = @ + 1]
       /\ UNCHANGED <<budgetVars, phase, count, taken, home, file, owner, task>>
    \/ /\ task[s].pc = "entry" /\ rows[s] > count[s]
       /\ count' = [count EXCEPT ![s] = @ + 1]
       /\ home' = [home EXCEPT ![<<s, taken[s], count[s] + 1>>] = "memory"]
       /\ Goto(s, "idle")
       /\ UNCHANGED <<budgetVars, phase, taken, rows, file, owner>>

Publish(s) == PublishEntry(s) \/ PublishRows(s)

\* finish, at the end of the run or after a push that failed: the load of set_phase ...
Finish(s) ==
    /\ \/ task[s].pc = "idle" /\ phase[s] # "Finished" /\ MayStart("write", s)
       \/ task[s].pc = "abort"
    /\ Goto(s, IF phase[s] = "Released" THEN "stopped" ELSE "finish")
    /\ UNCHANGED <<budgetVars, storeVars, owner>>

\* ... and the store.
StoreFinished(s) ==
    /\ task[s].pc = "finish"
    /\ phase' = [phase EXCEPT ![s] = "Finished"]
    /\ Goto(s, "stopped")
    /\ UNCHANGED <<budgetVars, count, taken, home, rows, file, owner>>

(***************************************************************************)
(* Readers                                                                 *)
(***************************************************************************)

\* load_chunk.  A window call asks live() first and keeps the handle alive; an expansion on the
\* view pool only needs the chunk to be listed.
Read(r) ==
    /\ task[r].pc = "idle"
    /\ \E k \in Keys :
         /\ k[2] <= count[k[1]] /\ MayStart("read", k[1])
         /\ r \in Pool \/ (phase[k[1]] # "Released" /\ owner[k[1]] # "dropped")
         /\ task' = [task EXCEPT ![r] = [@ EXCEPT
                       !.key = k,
                       !.pc = IF home[CellAt(k)] = "memory" THEN "hold" ELSE "lookup",
                       !.cur = IF home[CellAt(k)] = "memory" THEN CellAt(k) ELSE None]]
    /\ UNCHANGED <<budgetVars, storeVars, owner>>

\* The rows are rendered and the chunk is let go.
ReadDone(r) ==
    /\ task[r].pc = "hold"
    /\ task' = [task EXCEPT ![r] = NoTask]
    /\ UNCHANGED <<budgetVars, storeVars, owner>>

\* decoded_chunk.
Lookup(r) ==
    /\ task[r].pc = "lookup"
    /\ task' = [task EXCEPT ![r] = IF @.key \in decoded THEN NoTask ELSE [@ EXCEPT !.pc = "fetch"]]
    /\ UNCHANGED <<budgetVars, storeVars, owner>>

\* The record is read under the spill lock and decrypted; with no file the read is an error.
Fetch(r) ==
    /\ task[r].pc = "fetch"
    /\ task' = [task EXCEPT ![r] = IF file[@.key[1]] THEN [@ EXCEPT !.pc = "charge"] ELSE NoTask]
    /\ UNCHANGED <<budgetVars, storeVars, owner>>

\* cache_decoded, after its charge: over the budget it evicts once more.
Fit(r) ==
    /\ task[r].pc = "fit"
    /\ task' = [task EXCEPT ![r] = IF resident > Budget
                                   THEN [@ EXCEPT !.pc = "trim", !.for = "fit"]
                                   ELSE [@ EXCEPT !.pc = "insert"]]
    /\ UNCHANGED <<budgetVars, storeVars, owner>>

\* Mutant: a second entry for the same chunk is charged twice.
ChargedTwice(k) == 0

\* What the entry that this one replaces gives back.
Replaced(k) == Cardinality(decoded \cap {k})

\* Under the decoded lock: the entry goes in, and the oldest go out while there are too many of
\* them or the total is over the budget.
Insert(r) ==
    LET k == task[r].key
        all == decoded \cup {k}
        total(out) == Uncharged(Replaced(k) + Cardinality(out))
        more(out) == out # all /\ (Cardinality(all \ out) > DecodedCap \/ total(out) > Budget)
    IN /\ task[r].pc = "insert"
       /\ \E out \in SUBSET all :
            /\ ~more(out)
            /\ out = {} \/ \E e \in out : more(out \ {e})
            /\ decoded' = all \ out
            /\ resident' = total(out)
       /\ task' = [task EXCEPT ![r] = NoTask]
       /\ UNCHANGED <<live, storeVars, owner>>

(***************************************************************************)
(* Release                                                                 *)
(***************************************************************************)

Step(s, from, to) == owner[s] = from /\ owner' = [owner EXCEPT ![s] = to]

\* StoreRegistry::release: out of the live table ...
Release(s) ==
    /\ Step(s, "open", "removed")
    /\ \A a \in Activities \ Overlap : ~Busy(a, s)
    /\ live' = live \ {s}
    /\ UNCHANGED <<resident, decoded, storeVars, task>>

\* ... StoreShared::release: the phase first, so that writers and spills notice,
Mark(s) ==
    /\ Step(s, "removed", "marked")
    /\ phase' = [phase EXCEPT ![s] = "Released"]
    /\ UNCHANGED <<budgetVars, count, taken, home, rows, file, task>>

\* the chunk table,
TakeChunks(s) ==
    /\ Step(s, "marked", "taken")
    /\ taken' = [taken EXCEPT ![s] = TRUE]
    /\ count' = [count EXCEPT ![s] = 0]
    /\ UNCHANGED <<budgetVars, phase, home, rows, file, task>>

\* the budget of the chunks that are in memory,
FreeChunks(s) ==
    LET mine == {c \in Cells : c[1] = s /\ ~c[2] /\ home[c] = "memory"} IN
    /\ Step(s, "taken", "freed")
    /\ resident' = Uncharged(Cardinality(mine))
    /\ home' = [c \in Cells |-> IF c[1] = s /\ ~c[2] THEN "none" ELSE home[c]]
    /\ UNCHANGED <<live, decoded, phase, count, taken, rows, file, task>>

\* the spill file,
CloseFile(s) ==
    /\ Step(s, "freed", "unfiled")
    /\ file' = [file EXCEPT ![s] = FALSE]
    /\ UNCHANGED <<budgetVars, phase, count, taken, home, rows, task>>

EntriesOf(s) == {k \in decoded : k[1] = s}

\* and purge_decoded.
Purge(s) ==
    /\ Step(s, "unfiled", "closed")
    /\ decoded' = decoded \ EntriesOf(s)
    /\ resident' = Uncharged(Cardinality(EntriesOf(s)))
    /\ UNCHANGED <<live, storeVars, task>>

\* The handle is dropped once no window call holds it: release again, of which only the purge is
\* left to do.
Drop(s) ==
    /\ Step(s, "closed", "dropped")
    /\ \A r \in Readers \ Pool : ~Reading(r, s)
    /\ decoded' = decoded \ EntriesOf(s)
    /\ resident' = Uncharged(Cardinality(EntriesOf(s)))
    /\ UNCHANGED <<live, storeVars, task>>

(***************************************************************************)
(* Specification                                                           *)
(***************************************************************************)

Evict(t) ==
    \/ Trim(t) \/ Scan(t) \/ Pick(t) \/ SpillWrite(t) \/ SpillFails(t) \/ SpillSwap(t)
    \/ SpillGive(t) \/ EvictEnds(t)

Writer(s) ==
    \/ Push(s) \/ LoadPhase(s) \/ StorePhase(s) \/ Charge(s) \/ Publish(s) \/ Finish(s)
    \/ StoreFinished(s)

Reader(r) ==
    Read(r) \/ ReadDone(r) \/ Lookup(r) \/ Fetch(r) \/ Charge(r) \/ TrimAll(r) \/ Fit(r) \/ Insert(r)

Owner(s) ==
    \/ Release(s) \/ Mark(s) \/ TakeChunks(s) \/ FreeChunks(s) \/ CloseFile(s) \/ Purge(s)
    \/ Drop(s)

Next ==
    \/ \E s \in Stores : Writer(s) \/ Owner(s)
    \/ \E r \in Readers : Reader(r)
    \/ \E t \in Tasks : Evict(t)

Spec == Init /\ [][Next]_vars

(***************************************************************************)
(* Properties                                                              *)
(***************************************************************************)

\* Every variable holds a value of its kind.
TypeOK ==
    /\ resident \in Nat
    /\ live \subseteq Stores
    /\ decoded \subseteq Keys
    /\ phase \in [Stores -> Phases]
    /\ count \in [Stores -> 0..MaxChunks]
    /\ taken \in [Stores -> BOOLEAN]
    /\ home \in [Cells -> {"none", "memory", "disk"}]
    /\ rows \in [Stores -> 0..MaxChunks]
    /\ file \in [Stores -> BOOLEAN]
    /\ owner \in [Stores -> OwnerPCs]
    /\ task \in [Tasks -> Task]

\* A charge that charge() has counted and not yet granted.
Undecided(t) == task[t].pc \in {"trimall"} \cup EvictPCs /\ task[t].for = "charge"

\* Charges are added before they are checked, by several threads at once: whatever the order, the
\* total without the charges still being decided is never above the budget
\* (registry.rs charge, cache_decoded).
BudgetHeld == resident <= Budget + Cardinality({t \in Tasks : Undecided(t)})

AtRest ==
    /\ \A t \in Tasks : task[t].pc \in {"idle", "stopped"}
    /\ \A s \in Stores : ~Releasing(s)

\* When no thread is at work the counter is what the open stores and the decoded cache hold: each
\* chunk is charged at its seal and given back once, by its spill or by the release
\* (registry.rs:8 "charged at seal and returned at release").
AccountsTrue ==
    AtRest => resident = Cardinality({c \in Cells : home[c] = "memory" /\ owner[c[1]] = "open"})
                           + Cardinality(decoded)

\* A row that the count promises has its chunk behind it, in memory or in a spill file that can be
\* read, until the store's release marks it, whoever is at work on it (store.rs publish "a reader
\* that sees the row count sees the chunk behind it", load_chunk's "spilled but there is no spill
\* file").
RowsBacked ==
    \A s \in Stores : owner[s] \in {"open", "removed"} =>
        /\ rows[s] <= count[s]
        /\ \A n \in 1..rows[s] : \/ home[<<s, FALSE, n>>] = "memory"
                                 \/ home[<<s, FALSE, n>>] = "disk" /\ file[s]

\* Once release has closed the spill file, no thread that was at work at the time gives the store a
\* new one: not a spill that was encrypting, not a writer that was told late (store.rs spill_one "it
\* would live until the process exits").  The one way to a new file is a set_phase that looked at
\* the phase before the release and stores it after, which makes the store writable again.
NoOrphanFile ==
    \A s \in Stores :
        owner[s] \in {"unfiled", "closed", "dropped"} /\ phase[s] = "Released" => ~file[s]

\* No step leaves Released (store.rs set_phase "never past Released"): the push after a release is
\* told so and the fetch loop stops (registry.rs StoreHandle::writer).
ReleasedForGood == [][\A s \in Stores : phase[s] = "Released" => phase'[s] = "Released"]_vars

\* A dropped store leaves nothing in the decoded cache (registry.rs purge_decoded "so its memory
\* does not outlive the tab").
NothingOutlives == AtRest => \A s \in Stores : owner[s] = "dropped" => EntriesOf(s) = {}
=============================================================================
