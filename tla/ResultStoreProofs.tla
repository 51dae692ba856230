-------------------------- MODULE ResultStoreProofs --------------------------
(***************************************************************************)
(* The result stores for every number of stores, readers and chunks and    *)
(* every budget: the types, the budget (registry.rs), the chunks behind    *)
(* the row count and the spill files (store.rs), and, when no push and no  *)
(* spill meets a release, what the counter stands for.                     *)
(***************************************************************************)
EXTENDS ResultStore, FiniteSetTheorems, TLAPS

USE DEF Admissible

\* What a task may be doing, by who it is: a writer, or a reader with a chunk in hand.
RoleOf(t, x) ==
    /\ t \in Stores => x.pc \in {"idle", "charge"} \cup WriterPCs \cup EvictPCs
    /\ t \in Readers => /\ x.pc \in {"idle", "charge"} \cup ReaderPCs \cup EvictPCs
                        /\ x.pc # "idle" => x.key \in Keys
    /\ x.pc \in {"write", "swap", "give"} => x.cur \in Cells
    /\ x.for = "fit" => t \in Readers /\ x.pc \in EvictPCs

Roles == \A t \in Tasks : RoleOf(t, task[t])

\* A writer that is on the way to a new chunk has room for it, and the chunk table is never longer
\* than the row count that follows it.
Pushing == {"load", "store", "charge", "entry"} \cup EvictPCs
Bounds ==
    \A s \in Stores :
        /\ task[s].pc \in Pushing \cup {"rows"} => rows[s] < MaxChunks
        /\ count[s] <= rows[s] + IF task[s].pc = "rows" THEN 1 ELSE 0

TypeInv == TypeOK /\ Roles /\ Bounds

PCs == {"idle", "charge"} \cup WriterPCs \cup ReaderPCs \cup EvictPCs

-----------------------------------------------------------------------------
(* Finite sets and the counter.                                            *)

LEMMA KeyParts ==
  ASSUME NEW k \in Keys
  PROVE  k[1] \in Stores /\ k[2] \in 1 .. MaxChunks /\ k = <<k[1], k[2]>>
  BY DEF Keys

LEMMA CellParts ==
  ASSUME NEW c \in Cells
  PROVE  c[1] \in Stores /\ c[2] \in BOOLEAN /\ c[3] \in 1 .. MaxChunks /\ c = <<c[1], c[2], c[3]>>
  BY DEF Cells

LEMMA FiniteParts == IsFiniteSet(Keys) /\ IsFiniteSet(Cells) /\ IsFiniteSet(Tasks)
<1>1. IsFiniteSet(Stores) /\ IsFiniteSet(Readers) /\ MaxChunks \in Nat
  BY StoreAssumption
<1>2. IsFiniteSet(1 .. MaxChunks)
  BY <1>1, FS_Interval
<1>3. IsFiniteSet(Keys)
  BY <1>1, <1>2, FS_Product DEF Keys
<1>4. IsFiniteSet(Tasks)
  BY <1>1, FS_Union DEF Tasks
<1>5. IsFiniteSet(BOOLEAN)
  <2>1. BOOLEAN = {TRUE} \cup {FALSE}
    OBVIOUS
  <2>2. IsFiniteSet({TRUE}) /\ IsFiniteSet({FALSE})
    BY FS_Singleton
  <2> QED BY <2>1, <2>2, FS_Union
<1>6. IsFiniteSet(Keys \X BOOLEAN)
  BY <1>3, <1>5, FS_Product
<1> DEFINE f == [kb \in Keys \X BOOLEAN |-> <<kb[1][1], kb[2], kb[1][2]>>]
<1>7. f \in [Keys \X BOOLEAN -> Cells]
  BY DEF Keys, Cells
<1>8. \A c \in Cells : \E kb \in Keys \X BOOLEAN : f[kb] = c
  <2> TAKE c \in Cells
  <2>1. <<<<c[1], c[3]>>, c[2]>> \in Keys \X BOOLEAN
    BY CellParts DEF Keys
  <2>2. f[<<<<c[1], c[3]>>, c[2]>>] = c
    BY <2>1, CellParts
  <2> QED BY <2>1, <2>2
<1>9. f \in Surjection(Keys \X BOOLEAN, Cells)
  BY <1>7, <1>8 DEF Surjection
<1> QED BY <1>3, <1>4, <1>6, <1>9, FS_Surjection

LEMMA UnchargedType ==
  ASSUME resident \in Nat, NEW n \in Nat
  PROVE  /\ Uncharged(n) \in Nat /\ Uncharged(n) <= resident
         /\ (n <= resident => Uncharged(n) = resident - n)
  BY DEF Uncharged

LEMMA Counted ==
  ASSUME NEW S \in SUBSET Keys
  PROVE  IsFiniteSet(S) /\ Cardinality(S) \in Nat
  BY FiniteParts, FS_Subset, FS_CardinalityType

LEMMA CellAtType ==
  ASSUME TypeOK, NEW k \in Keys
  PROVE  CellAt(k) \in Cells
  BY KeyParts DEF CellAt, Cells, TypeOK

-----------------------------------------------------------------------------
(* One task moves.                                                         *)

\* The task in hand becomes r and no other task moves.
Becomes(t, r) == task' = [task EXCEPT ![t] = r]

LEMMA Moves ==
  ASSUME TypeInv, NEW t \in Tasks, NEW r \in Task, Becomes(t, r)
  PROVE  /\ task' \in [Tasks -> Task] /\ task'[t] = r
         /\ \A u \in Tasks : u # t => task'[u] = task[u]
         /\ (RoleOf(t, r) => Roles')
<1>1. task \in [Tasks -> Task]
  BY DEF TypeInv, TypeOK
<1>2. /\ task' \in [Tasks -> Task] /\ task'[t] = r
      /\ \A u \in Tasks : u # t => task'[u] = task[u]
  BY <1>1 DEF Becomes
<1>3. RoleOf(t, r) => Roles'
  BY <1>2 DEF TypeInv, Roles, RoleOf
<1> QED BY <1>2, <1>3

LEMMA TaskFields ==
  ASSUME TypeOK, NEW t \in Tasks
  PROVE  /\ task[t] \in Task /\ task[t].pc \in PCs /\ task[t].key \in Keys \cup {None}
         /\ task[t].cand \in SUBSET Keys /\ task[t].cur \in Cells \cup {None}
         /\ task[t].err \in BOOLEAN /\ task[t].for \in {"charge", "fit"}
  BY DEF TypeOK, Task, PCs

\* Goto changes where the task is, and nothing else of it.
LEMMA GotoMoves ==
  ASSUME TypeInv, NEW t \in Tasks, NEW pc \in PCs, Goto(t, pc)
  PROVE  \E r \in Task : /\ Becomes(t, r) /\ r.pc = pc /\ r.key = task[t].key
                         /\ r.cand = task[t].cand /\ r.cur = task[t].cur /\ r.err = task[t].err
                         /\ r.for = task[t].for
<1> DEFINE r == [task[t] EXCEPT !.pc = pc]
<1>1. task \in [Tasks -> Task] /\ task[t] \in Task
  BY DEF TypeInv, TypeOK
<1>2. /\ r \in Task /\ r.pc = pc /\ r.key = task[t].key /\ r.cand = task[t].cand
      /\ r.cur = task[t].cur /\ r.err = task[t].err /\ r.for = task[t].for
  BY <1>1 DEF Task, PCs
<1>3. Becomes(t, r)
  BY <1>1 DEF Goto, Becomes
<1> QED BY <1>2, <1>3

Homes == {"none", "memory", "disk"}

\* A step of one task that leaves the chunk table and the row count alone.
LEMMA TaskStep ==
  ASSUME TypeInv, NEW t \in Tasks, NEW r \in Task, Becomes(t, r), RoleOf(t, r),
         t \in Stores => /\ r.pc \in Pushing => task[t].pc \in Pushing
                        /\ r.pc # "rows" /\ task[t].pc # "rows",
         UNCHANGED <<live, count, taken, rows, owner>>,
         resident' \in Nat, decoded' \subseteq Keys, phase' \in [Stores -> Phases],
         home' \in [Cells -> Homes], file' \in [Stores -> BOOLEAN]
  PROVE  TypeInv'
<1>1. /\ task' \in [Tasks -> Task] /\ task'[t] = r /\ Roles'
      /\ \A u \in Tasks : u # t => task'[u] = task[u]
  BY Moves
<1>2. TypeOK'
  BY <1>1 DEF TypeInv, TypeOK, Homes
<1>3. Bounds'
  <2> SUFFICES ASSUME NEW s \in Stores
               PROVE  /\ task'[s].pc \in Pushing \cup {"rows"} => rows[s] < MaxChunks
                      /\ count[s] <= rows[s] + IF task'[s].pc = "rows" THEN 1 ELSE 0
    BY DEF Bounds
  <2>1. s \in Tasks
    BY DEF Tasks
  <2>2. CASE s = t
    BY <1>1, <2>1, <2>2 DEF TypeInv, Bounds
  <2>3. CASE s # t
    BY <1>1, <2>1, <2>3 DEF TypeInv, Bounds
  <2> QED BY <2>2, <2>3
<1> QED BY <1>1, <1>2, <1>3 DEF TypeInv

\* Who a task is.
LEMMA WriterIsTask == \A s \in Stores : s \in Tasks /\ s \notin Readers
  BY StoreAssumption DEF Tasks
LEMMA ReaderIsTask == \A r \in Readers : r \in Tasks /\ r \notin Stores
  BY StoreAssumption DEF Tasks
LEMMA SomeTask == \A t \in Tasks : t \in Stores \/ t \in Readers
  BY DEF Tasks

LEMMA FreshTask == NoTask \in Task
  BY DEF NoTask, Task

LEMMA TypeInit == Init => TypeInv
<1> SUFFICES ASSUME Init PROVE TypeInv
  OBVIOUS
<1>1. task \in [Tasks -> Task] /\ \A t \in Tasks : task[t] = NoTask
  BY FreshTask DEF Init
<1>2. TypeOK
  BY <1>1, StoreAssumption DEF Init, TypeOK, Phases, OwnerPCs
<1>3. Roles
  BY <1>1 DEF Roles, RoleOf, NoTask
<1>4. Bounds
  BY <1>1, StoreAssumption, WriterIsTask DEF Init, Bounds, NoTask, Pushing, EvictPCs
<1> QED BY <1>2, <1>3, <1>4 DEF TypeInv

-----------------------------------------------------------------------------
(* The budget.                                                             *)

LEMMA ChargeTypes ==
  ASSUME TypeInv, NEW t \in Tasks, Charge(t)
  PROVE  TypeInv'
<1>1. task[t].pc = "charge" /\ resident' \in Nat
      /\ UNCHANGED <<live, decoded, phase, count, taken, home, rows, file, owner>>
  BY DEF Charge, TypeInv, TypeOK, storeVars
<1>2. PICK pc \in PCs :
         /\ Goto(t, pc)
         /\ t \in Stores => pc \in {"entry", "trim"}
         /\ t \notin Stores => pc \in {"fit", "trimall"}
  BY DEF Charge, Granted, PCs, WriterPCs, ReaderPCs, EvictPCs
<1>3. PICK r \in Task : Becomes(t, r) /\ r.pc = pc /\ r.key = task[t].key /\ r.for = task[t].for
  BY <1>2, GotoMoves
<1>4. RoleOf(t, task[t])
  BY DEF TypeInv, Roles
<1>5. RoleOf(t, r)
  BY <1>1, <1>2, <1>3, <1>4, ReaderIsTask DEF RoleOf, WriterPCs, ReaderPCs, EvictPCs
<1> QED BY <1>1, <1>2, <1>3, <1>5, TaskStep DEF TypeInv, TypeOK, Homes, Pushing, EvictPCs

LEMMA TrimAllTypes ==
  ASSUME TypeInv, NEW t \in Readers, TrimAll(t)
  PROVE  TypeInv'
<1>1. task[t].pc = "trimall" /\ t \in Tasks /\ t \notin Stores
      /\ UNCHANGED <<live, phase, count, taken, home, rows, file, owner>> /\ decoded' = {}
  BY ReaderIsTask DEF TrimAll, storeVars
<1>2. resident' \in Nat
  BY Counted, UnchargedType DEF TrimAll, TypeInv, TypeOK
<1>3. PICK pc \in PCs : Goto(t, pc) /\ pc \in {"fit", "trim"}
  BY DEF TrimAll, PCs, ReaderPCs, EvictPCs
<1>4. PICK r \in Task : Becomes(t, r) /\ r.pc = pc /\ r.key = task[t].key /\ r.for = task[t].for
  BY <1>1, <1>3, GotoMoves
<1>5. RoleOf(t, task[t])
  BY <1>1 DEF TypeInv, Roles
<1>6. RoleOf(t, r)
  BY <1>1, <1>3, <1>4, <1>5 DEF RoleOf, ReaderPCs, EvictPCs, WriterPCs
<1>7. /\ decoded' \subseteq Keys /\ phase' \in [Stores -> Phases]
      /\ home' \in [Cells -> Homes] /\ file' \in [Stores -> BOOLEAN]
  BY <1>1 DEF TypeInv, TypeOK, Homes
<1> QED BY <1>1, <1>2, <1>4, <1>6, <1>7, TaskStep

-----------------------------------------------------------------------------
(* Eviction.                                                               *)

LEMMA EvictStep ==
  ASSUME TypeInv, NEW t \in Tasks, task[t].pc \in EvictPCs, NEW r \in Task, Becomes(t, r),
         r.pc \in EvictPCs, r.key = task[t].key, r.for = task[t].for,
         r.pc \in {"write", "swap", "give"} => r.cur \in Cells,
         UNCHANGED <<live, count, taken, rows, owner>>,
         resident' \in Nat, decoded' \subseteq Keys, phase' \in [Stores -> Phases],
         home' \in [Cells -> Homes], file' \in [Stores -> BOOLEAN]
  PROVE  TypeInv'
<1>1. RoleOf(t, task[t])
  BY DEF TypeInv, Roles
<1>2. RoleOf(t, r)
  BY <1>1 DEF RoleOf, WriterPCs, ReaderPCs, EvictPCs
<1>3. t \in Stores => /\ r.pc \in Pushing => task[t].pc \in Pushing
                      /\ r.pc # "rows" /\ task[t].pc # "rows"
  BY DEF Pushing, EvictPCs
<1> QED BY <1>2, <1>3, TaskStep

LEMMA LeaveMoves ==
  ASSUME TypeInv, NEW t \in Tasks, NEW e \in BOOLEAN, LeaveChunk(t, e)
  PROVE  \E r \in Task : Becomes(t, r) /\ r.pc = "next" /\ r.key = task[t].key
                          /\ r.for = task[t].for
<1> DEFINE r == [task[t] EXCEPT !.pc = "next", !.cur = None, !.err = e]
<1>1. task \in [Tasks -> Task] /\ task[t] \in Task
  BY DEF TypeInv, TypeOK
<1>2. r \in Task /\ r.pc = "next" /\ r.key = task[t].key /\ r.for = task[t].for
  BY <1>1 DEF Task, EvictPCs
<1>3. Becomes(t, r)
  BY <1>1 DEF LeaveChunk, Becomes
<1> QED BY <1>2, <1>3

LEMMA ScanTypes ==
  ASSUME TypeInv, NEW t \in Tasks, Trim(t) \/ Scan(t) \/ Pick(t)
  PROVE  TypeInv'
<1>1. TypeOK /\ task \in [Tasks -> Task] /\ task[t] \in Task
  BY DEF TypeInv, TypeOK
<1>2. CASE Trim(t)
  <2>1. /\ task[t].pc = "trim" /\ Goto(t, "scan") /\ decoded' \subseteq Keys
        /\ UNCHANGED <<live, phase, count, taken, home, rows, file, owner>>
    BY <1>1, <1>2 DEF Trim, storeVars, TypeOK
  <2>2. resident' \in Nat
    <3>1. PICK most : /\ \E kept \in SUBSET decoded : Cardinality(kept) = most
                      /\ most <= Cardinality(decoded)
                      /\ resident' = Uncharged(Cardinality(decoded) - most)
      <4>1. Cardinality(decoded) \in Nat /\ DecodedCap \in Nat /\ EvictKeep \in Nat
        BY <1>1, StoreAssumption, Counted DEF TypeOK
      <4> QED BY <1>2, <4>1 DEF Trim
    <3>2. Cardinality(decoded) \in Nat /\ \A kept \in SUBSET decoded : Cardinality(kept) \in Nat
      BY <1>1, Counted DEF TypeOK
    <3>3. Cardinality(decoded) - most \in Nat
      BY <3>1, <3>2
    <3> QED BY <1>1, <3>1, <3>3, UnchargedType DEF TypeOK
  <2>3. PICK r \in Task : Becomes(t, r) /\ r.pc = "scan" /\ r.key = task[t].key /\ r.for = task[t].for
    BY <2>1, GotoMoves DEF PCs, EvictPCs
  <2>4. /\ phase' \in [Stores -> Phases] /\ home' \in [Cells -> Homes] /\ file' \in [Stores -> BOOLEAN]
    BY <1>1, <2>1 DEF TypeOK, Homes
  <2> QED BY <2>1, <2>2, <2>3, <2>4, EvictStep DEF EvictPCs
<1>3. CASE Scan(t) \/ Pick(t)
  <2>1. PICK r \in Task :
           /\ Becomes(t, r) /\ r.pc \in {"next", "write"} /\ r.key = task[t].key
           /\ r.for = task[t].for /\ (r.pc = "write" => r.cur \in Cells)
    <3>1. CASE Scan(t)
      <4>a. PICK cands \in SUBSET Keys :
               task' = [task EXCEPT ![t] = [@ EXCEPT !.pc = "next", !.cand = cands]]
        BY <3>1 DEF Scan
      <4> DEFINE r == [task[t] EXCEPT !.pc = "next", !.cand = cands]
      <4>1. r \in Task /\ r.pc = "next" /\ r.key = task[t].key /\ r.for = task[t].for
        BY <1>1 DEF Task, EvictPCs
      <4>2. Becomes(t, r)
        BY <1>1, <4>a DEF Becomes
      <4> QED BY <4>1, <4>2
    <3>2. CASE Pick(t)
      <4>1. PICK k \in task[t].cand :
               task' = [task EXCEPT ![t] = [@ EXCEPT
                          !.cand = task[t].cand \ {k},
                          !.pc = IF Spillable(k) THEN "write" ELSE "next",
                          !.cur = IF Spillable(k) THEN CellAt(k) ELSE None]]
        BY <3>2 DEF Pick
      <4>2. k \in Keys /\ CellAt(k) \in Cells
        BY <1>1, <4>1, TaskFields, CellAtType
      <4> DEFINE r == [task[t] EXCEPT !.cand = task[t].cand \ {k},
                          !.pc = IF Spillable(k) THEN "write" ELSE "next",
                          !.cur = IF Spillable(k) THEN CellAt(k) ELSE None]
      <4>3. Becomes(t, r)
        BY <1>1, <4>1 DEF Becomes
      <4>4. /\ r \in Task /\ r.pc \in {"next", "write"} /\ r.key = task[t].key
            /\ r.for = task[t].for /\ (r.pc = "write" => r.cur \in Cells)
        BY <1>1, <4>2 DEF Task, EvictPCs
      <4> QED BY <4>3, <4>4
    <3> QED BY <1>3, <3>1, <3>2
  <2>2. /\ task[t].pc \in EvictPCs
        /\ UNCHANGED <<resident, live, decoded, phase, count, taken, home, rows, file, owner>>
    BY <1>3 DEF Scan, Pick, budgetVars, storeVars, EvictPCs
  <2>3. /\ phase' \in [Stores -> Phases] /\ home' \in [Cells -> Homes] /\ file' \in [Stores -> BOOLEAN]
        /\ resident' \in Nat /\ decoded' \subseteq Keys
    BY <1>1, <2>2 DEF TypeOK, Homes
  <2> QED BY <2>1, <2>2, <2>3, EvictStep DEF EvictPCs
<1> QED BY <1>2, <1>3

LEMMA SpillTypes ==
  ASSUME TypeInv, NEW t \in Tasks, SpillWrite(t) \/ SpillFails(t) \/ SpillSwap(t) \/ SpillGive(t)
  PROVE  TypeInv'
<1>1. TypeOK /\ task \in [Tasks -> Task] /\ task[t] \in Task /\ RoleOf(t, task[t])
  BY DEF TypeInv, TypeOK, Roles
<1>2. /\ task[t].pc \in {"write", "swap", "give"} /\ task[t].pc \in EvictPCs
      /\ UNCHANGED <<live, decoded, phase, count, taken, rows, owner>>
  BY DEF SpillWrite, SpillFails, SpillSwap, SpillGive, budgetVars, storeVars, EvictPCs
<1>3. task[t].cur \in Cells /\ task[t].cur[1] \in Stores /\ task[t].err \in BOOLEAN
  BY <1>1, <1>2, CellParts, TaskFields DEF RoleOf
<1>4. /\ resident' \in Nat /\ decoded' \subseteq Keys /\ phase' \in [Stores -> Phases]
      /\ home' \in [Cells -> Homes] /\ file' \in [Stores -> BOOLEAN]
  BY <1>1, <1>2, <1>3, UnchargedType
     DEF SpillWrite, SpillFails, SpillSwap, SpillGive, budgetVars, storeVars, TypeOK, Homes
<1>5. PICK r \in Task : /\ Becomes(t, r) /\ r.pc \in {"next", "swap", "give"}
                        /\ r.key = task[t].key /\ r.for = task[t].for
                        /\ r.pc = "next" \/ r.cur = task[t].cur
  <2>1. CASE Goto(t, "swap")
    BY <2>1, GotoMoves DEF PCs, EvictPCs
  <2>2. CASE Goto(t, "give")
    BY <2>2, GotoMoves DEF PCs, EvictPCs
  <2>3. CASE LeaveChunk(t, task[t].err)
    BY <1>3, <2>3, LeaveMoves
  <2>4. CASE LeaveChunk(t, TRUE)
    BY <2>4, LeaveMoves
  <2> QED BY <2>1, <2>2, <2>3, <2>4 DEF SpillWrite, SpillFails, SpillSwap, SpillGive
<1> QED BY <1>2, <1>3, <1>4, <1>5, EvictStep DEF EvictPCs

LEMMA EvictEndsTypes ==
  ASSUME TypeInv, NEW t \in Tasks, EvictEnds(t)
  PROVE  TypeInv'
<1>1. TypeOK /\ task \in [Tasks -> Task] /\ task[t] \in Task /\ RoleOf(t, task[t])
  BY DEF TypeInv, TypeOK, Roles
<1>2. /\ task[t].pc = "next" /\ task[t].key \in Keys \cup {None}
      /\ UNCHANGED <<live, decoded, phase, count, taken, home, rows, file, owner>>
  BY <1>1, TaskFields DEF EvictEnds, storeVars
<1>3. /\ resident' \in Nat /\ decoded' \subseteq Keys /\ phase' \in [Stores -> Phases]
      /\ home' \in [Cells -> Homes] /\ file' \in [Stores -> BOOLEAN]
  BY <1>1, <1>2, UnchargedType DEF EvictEnds, ChargeBack, TypeOK, Homes
<1> DEFINE to == IF task[t].for = "charge" THEN Granted(t) ELSE "insert"
           r == IF Fits(t) THEN [NoTask EXCEPT !.pc = to, !.key = task[t].key]
                ELSE [NoTask EXCEPT !.pc = Refused(t)]
<1>4. /\ to \in {"entry", "fit", "insert"} /\ (t \in Stores => to = "entry")
      /\ (t \notin Stores => to \in {"fit", "insert"})
  BY <1>1, WriterIsTask DEF Granted, RoleOf, Task
<1>5. Refused(t) = (IF t \in Stores THEN "abort" ELSE "idle")
  BY DEF Refused
<1> HIDE DEF to
<1>6. /\ r \in Task /\ r.for = "charge" /\ r.pc \in {"entry", "fit", "insert", "abort", "idle"}
      /\ (t \in Stores => r.pc \in {"entry", "abort"})
      /\ (t \notin Stores => r.pc = "idle" \/ (r.pc \in {"fit", "insert"} /\ r.key = task[t].key))
  BY <1>2, <1>4, <1>5 DEF NoTask, Task, WriterPCs, ReaderPCs
<1>7. Becomes(t, r)
  BY DEF EvictEnds, Becomes, to
<1> HIDE DEF r
<1>8. RoleOf(t, r)
  BY <1>1, <1>2, <1>6, SomeTask, ReaderIsTask, WriterIsTask DEF RoleOf, WriterPCs, ReaderPCs, EvictPCs
<1>9. t \in Stores => /\ r.pc \in Pushing => task[t].pc \in Pushing
                      /\ r.pc # "rows" /\ task[t].pc # "rows"
  BY <1>2, <1>6 DEF Pushing, EvictPCs
<1> QED BY <1>2, <1>3, <1>6, <1>7, <1>8, <1>9, TaskStep

-----------------------------------------------------------------------------
(* The writer.                                                             *)

LEMMA WriterMoves ==
  ASSUME TypeInv, NEW s \in Stores, NEW pc \in {"idle", "charge"} \cup WriterPCs, Goto(s, pc),
         UNCHANGED <<resident, live, decoded, taken, file, owner>>,
         phase' \in [Stores -> Phases], home' \in [Cells -> Homes],
         count' \in [Stores -> 0 .. MaxChunks], rows' \in [Stores -> 0 .. MaxChunks],
         \A u \in Stores : u # s => count'[u] = count[u] /\ rows'[u] = rows[u],
         pc \in Pushing \cup {"rows"} => rows'[s] < MaxChunks,
         count'[s] <= rows'[s] + IF pc = "rows" THEN 1 ELSE 0
  PROVE  TypeInv'
<1>1. s \in Tasks /\ s \notin Readers /\ pc \in PCs
  BY WriterIsTask DEF PCs
<1>2. PICK r \in Task : Becomes(s, r) /\ r.pc = pc /\ r.for = task[s].for
  BY <1>1, GotoMoves
<1>3. RoleOf(s, task[s])
  BY <1>1 DEF TypeInv, Roles
<1>4. RoleOf(s, r)
  BY <1>1, <1>2, <1>3 DEF RoleOf, WriterPCs
<1>5. /\ task' \in [Tasks -> Task] /\ task'[s].pc = pc /\ Roles'
      /\ \A u \in Tasks : u # s => task'[u] = task[u]
  BY <1>1, <1>2, <1>4, Moves
<1>6. TypeOK'
  BY <1>5 DEF TypeInv, TypeOK, Homes
<1>7. Bounds'
  <2> SUFFICES ASSUME NEW u \in Stores
               PROVE  /\ task'[u].pc \in Pushing \cup {"rows"} => rows'[u] < MaxChunks
                      /\ count'[u] <= rows'[u] + IF task'[u].pc = "rows" THEN 1 ELSE 0
    BY DEF Bounds
  <2>1. CASE u = s
    BY <1>5, <2>1
  <2>2. CASE u # s
    <3>1. task'[u] = task[u] /\ count'[u] = count[u] /\ rows'[u] = rows[u]
      BY <1>5, <2>2, WriterIsTask
    <3> QED BY <3>1 DEF TypeInv, Bounds
  <2> QED BY <2>1, <2>2
<1> QED BY <1>5, <1>6, <1>7 DEF TypeInv

LEMMA WriterTypes ==
  ASSUME TypeInv, NEW s \in Stores,
         \/ Push(s) \/ LoadPhase(s) \/ StorePhase(s) \/ Publish(s) \/ Finish(s) \/ StoreFinished(s)
  PROVE  TypeInv'
<1>1. TypeOK /\ s \in Tasks /\ MaxChunks \in Nat /\ count[s] \in 0 .. MaxChunks /\ rows[s] \in 0 .. MaxChunks
  BY WriterIsTask, StoreAssumption DEF TypeInv, TypeOK
<1>2. /\ task[s].pc \in Pushing \cup {"rows"} => rows[s] < MaxChunks
      /\ count[s] <= rows[s] + IF task[s].pc = "rows" THEN 1 ELSE 0
  BY DEF TypeInv, Bounds
<1>3. /\ phase \in [Stores -> Phases] /\ home \in [Cells -> Homes] /\ taken \in [Stores -> BOOLEAN]
      /\ count \in [Stores -> 0 .. MaxChunks] /\ rows \in [Stores -> 0 .. MaxChunks]
  BY <1>1 DEF TypeOK, Homes
<1>4. CASE Push(s)
  <2>1. PICK pc \in {"stopped", "load"} : Goto(s, pc)
    BY <1>4 DEF Push
  <2>2. UNCHANGED <<resident, live, decoded, taken, file, owner, phase, home, count, rows>>
        /\ task[s].pc = "idle" /\ rows[s] < MaxChunks
    BY <1>4 DEF Push, budgetVars, storeVars
  <2> QED BY <1>1, <1>2, <1>3, <2>1, <2>2, WriterMoves DEF WriterPCs
<1>5. CASE LoadPhase(s)
  <2>1. PICK pc \in {"store", "charge"} : Goto(s, pc)
    BY <1>5 DEF LoadPhase
  <2>2. UNCHANGED <<resident, live, decoded, taken, file, owner, phase, home, count, rows>>
        /\ task[s].pc = "load"
    BY <1>5 DEF LoadPhase, budgetVars, storeVars
  <2> QED BY <1>1, <1>2, <1>3, <2>1, <2>2, WriterMoves DEF WriterPCs, Pushing
<1>6. CASE StorePhase(s)
  <2>1. UNCHANGED <<resident, live, decoded, taken, file, owner, home, count, rows>>
        /\ task[s].pc = "store" /\ Goto(s, "charge") /\ phase' \in [Stores -> Phases]
    BY <1>3, <1>6 DEF StorePhase, budgetVars, Phases
  <2> QED BY <1>1, <1>2, <1>3, <2>1, WriterMoves DEF Pushing
<1>7. CASE PublishEntry(s)
  <2>1. UNCHANGED <<resident, live, decoded, taken, file, owner, phase, rows>>
        /\ task[s].pc = "entry" /\ Goto(s, "rows")
    BY <1>7 DEF PublishEntry, budgetVars
  <2>a. rows[s] < MaxChunks /\ count[s] <= rows[s] /\ count[s] + 1 \in 0 .. MaxChunks
    BY <1>1, <1>2, <2>1 DEF Pushing
  <2>2. /\ home' \in [Cells -> Homes]
        /\ count' = [count EXCEPT ![s] = count[s] + 1]
    BY <1>3, <1>7 DEF PublishEntry, Homes
  <2>3. count' \in [Stores -> 0 .. MaxChunks] /\ count'[s] = count[s] + 1
        /\ \A u \in Stores : u # s => count'[u] = count[u]
    BY <1>3, <2>a, <2>2
  <2> QED BY <1>1, <1>3, <2>1, <2>a, <2>2, <2>3, WriterMoves DEF WriterPCs
<1>8. CASE PublishRows(s)
  <2>1. UNCHANGED <<resident, live, decoded, taken, file, owner, phase, home, count>>
        /\ task[s].pc = "rows" /\ Goto(s, "idle") /\ rows[s] < MaxChunks /\ count[s] <= rows[s] + 1
    BY <1>2, <1>8 DEF PublishRows, budgetVars
  <2>2. rows' = [rows EXCEPT ![s] = rows[s] + 1] /\ rows[s] + 1 \in 0 .. MaxChunks
    BY <1>1, <1>8, <2>1 DEF PublishRows
  <2>3. rows' \in [Stores -> 0 .. MaxChunks] /\ rows'[s] = rows[s] + 1
        /\ \A u \in Stores : u # s => rows'[u] = rows[u]
    BY <1>3, <2>2
  <2>4. "idle" \notin Pushing \cup {"rows"}
    BY DEF Pushing, EvictPCs
  <2> QED BY <1>1, <1>3, <2>1, <2>3, <2>4, WriterMoves DEF WriterPCs
<1>9. CASE Finish(s)
  <2>1. PICK pc \in {"stopped", "finish"} : Goto(s, pc)
    BY <1>9 DEF Finish
  <2>2. UNCHANGED <<resident, live, decoded, taken, file, owner, phase, home, count, rows>>
        /\ task[s].pc \in {"idle", "abort"}
    BY <1>9 DEF Finish, budgetVars, storeVars
  <2> QED BY <1>1, <1>2, <1>3, <2>1, <2>2, WriterMoves DEF WriterPCs, Pushing, EvictPCs
<1>10. CASE StoreFinished(s)
  <2>1. UNCHANGED <<resident, live, decoded, taken, file, owner, home, count, rows>>
        /\ task[s].pc = "finish" /\ Goto(s, "stopped") /\ phase' \in [Stores -> Phases]
    BY <1>3, <1>10 DEF StoreFinished, budgetVars, Phases
  <2> QED BY <1>1, <1>2, <1>3, <2>1, WriterMoves DEF WriterPCs, Pushing, EvictPCs
<1> QED BY <1>4, <1>5, <1>6, <1>7, <1>8, <1>9, <1>10 DEF Publish

-----------------------------------------------------------------------------
(* The readers and the release.                                            *)

LEMMA ReaderTypes ==
  ASSUME TypeInv, NEW t \in Readers,
         Read(t) \/ ReadDone(t) \/ Lookup(t) \/ Fetch(t) \/ Fit(t) \/ Insert(t)
  PROVE  TypeInv'
<1>1. /\ TypeOK /\ t \in Tasks /\ t \notin Stores /\ task \in [Tasks -> Task] /\ task[t] \in Task
      /\ RoleOf(t, task[t])
  BY ReaderIsTask DEF TypeInv, TypeOK, Roles
<1>2. UNCHANGED <<live, phase, count, taken, home, rows, file, owner>>
  BY DEF Read, ReadDone, Lookup, Fetch, Fit, Insert, budgetVars, storeVars
<1>3. resident' \in Nat /\ decoded' \subseteq Keys
  <2>1. CASE Insert(t)
    <3>1. PICK out \in SUBSET (decoded \cup {task[t].key}) :
             /\ decoded' = (decoded \cup {task[t].key}) \ out
             /\ resident' = Uncharged(Replaced(task[t].key) + Cardinality(out))
      BY <2>1 DEF Insert
    <3>2. task[t].key \in Keys
      BY <1>1, <2>1 DEF Insert, RoleOf
    <3>3. Cardinality(out) \in Nat /\ Cardinality(decoded \cap {task[t].key}) \in Nat
      BY <1>1, <3>1, <3>2, Counted DEF TypeOK
    <3> QED BY <1>1, <3>1, <3>2, <3>3, UnchargedType DEF Replaced, TypeOK
  <2>2. CASE Read(t) \/ ReadDone(t) \/ Lookup(t) \/ Fetch(t) \/ Fit(t)
    BY <1>1, <2>2 DEF Read, ReadDone, Lookup, Fetch, Fit, budgetVars, TypeOK
  <2> QED BY <2>1, <2>2
<1>4. PICK r \in Task : Becomes(t, r) /\ RoleOf(t, r)
  <2>1. RoleOf(t, NoTask)
    BY <1>1 DEF RoleOf, NoTask
  <2>2. CASE Becomes(t, NoTask)
    BY <2>1, <2>2, FreshTask
  <2>3. CASE Read(t)
    <3>1. PICK k \in Keys :
            task' = [task EXCEPT ![t] = [@ EXCEPT
                       !.key = k,
                       !.pc = IF home[CellAt(k)] = "memory" THEN "hold" ELSE "lookup",
                       !.cur = IF home[CellAt(k)] = "memory" THEN CellAt(k) ELSE None]]
      BY <2>3 DEF Read
    <3> DEFINE r == [task[t] EXCEPT
                       !.key = k,
                       !.pc = IF home[CellAt(k)] = "memory" THEN "hold" ELSE "lookup",
                       !.cur = IF home[CellAt(k)] = "memory" THEN CellAt(k) ELSE None]
    <3>2. CellAt(k) \in Cells
      BY <1>1, CellAtType
    <3>3. r \in Task /\ r.pc \in {"hold", "lookup"} /\ r.key = k /\ r.for = task[t].for
      BY <1>1, <3>2 DEF Task, ReaderPCs
    <3>4. task[t].for = "charge"
      BY <1>1, <2>3 DEF Read, RoleOf, EvictPCs, Task
    <3>5. RoleOf(t, r)
      BY <1>1, <3>3, <3>4 DEF RoleOf, ReaderPCs
    <3>6. Becomes(t, r)
      BY <1>1, <3>1 DEF Becomes
    <3> QED BY <3>3, <3>5, <3>6
  <2>4. ASSUME NEW pc \in {"fetch", "charge", "insert", "trim"}, NEW for \in {"charge", "fit"},
               for = "fit" => pc = "trim", task[t].pc # "idle",
               Becomes(t, [task[t] EXCEPT !.pc = pc, !.for = for])
        PROVE  \E r \in Task : Becomes(t, r) /\ RoleOf(t, r)
    <3> DEFINE r == [task[t] EXCEPT !.pc = pc, !.for = for]
    <3>1. r \in Task /\ r.pc = pc /\ r.key = task[t].key /\ r.for = for
      BY <1>1, <2>4 DEF Task, ReaderPCs, EvictPCs
    <3>2. RoleOf(t, r)
      BY <1>1, <2>4, <3>1 DEF RoleOf, ReaderPCs, EvictPCs
    <3> QED BY <2>4, <3>1, <3>2
  <2>5. ASSUME NEW pc \in {"fetch", "charge", "insert"}, task[t].pc \in {"lookup", "fetch", "fit"},
               task' = [task EXCEPT ![t] = [@ EXCEPT !.pc = pc]]
        PROVE  \E r \in Task : Becomes(t, r) /\ RoleOf(t, r)
    <3>1. task[t].for = "charge"
      BY <1>1, <2>5 DEF RoleOf, EvictPCs, Task
    <3>2. [task[t] EXCEPT !.pc = pc] = [task[t] EXCEPT !.pc = pc, !.for = "charge"]
      BY <1>1, <3>1 DEF Task
    <3>3. Becomes(t, [task[t] EXCEPT !.pc = pc, !.for = "charge"])
      BY <1>1, <2>5, <3>2 DEF Becomes
    <3> QED BY <2>4, <2>5, <3>3
  <2>6. CASE Lookup(t)
    BY <2>2, <2>5, <2>6 DEF Lookup, Becomes
  <2>7. CASE Fetch(t)
    BY <2>2, <2>5, <2>7 DEF Fetch, Becomes
  <2>8. CASE Fit(t)
    BY <2>4, <2>5, <2>8 DEF Fit, Becomes
  <2>9. CASE ReadDone(t) \/ Insert(t)
    BY <2>2, <2>9 DEF ReadDone, Insert, Becomes
  <2> QED BY <2>3, <2>6, <2>7, <2>8, <2>9
<1> QED BY <1>1, <1>2, <1>3, <1>4, TaskStep DEF TypeOK, Homes

LEMMA OwnerTypes ==
  ASSUME TypeInv, NEW s \in Stores, Owner(s)
  PROVE  TypeInv'
<1>1. TypeOK /\ UNCHANGED <<task, rows>>
  BY DEF TypeInv, Owner, Release, Mark, TakeChunks, FreeChunks, CloseFile, Purge, Drop, budgetVars, storeVars
<1>2. owner' \in [Stores -> OwnerPCs]
  BY <1>1 DEF Owner, Release, Mark, TakeChunks, FreeChunks, CloseFile, Purge, Drop, Step, TypeOK, OwnerPCs
<1>3. resident' \in Nat
  <2>1. \A S \in SUBSET Cells : Cardinality(S) \in Nat
    BY FiniteParts, FS_Subset, FS_CardinalityType
  <2>2. \A S \in SUBSET Keys : Cardinality(S) \in Nat
    BY Counted
  <2>3. CASE FreeChunks(s)
    BY <1>1, <2>1, <2>3, UnchargedType DEF FreeChunks, TypeOK
  <2>4. CASE Purge(s) \/ Drop(s)
    BY <1>1, <2>2, <2>4, UnchargedType DEF Purge, Drop, EntriesOf, TypeOK
  <2>5. CASE Release(s) \/ Mark(s) \/ TakeChunks(s) \/ CloseFile(s)
    BY <1>1, <2>5 DEF Release, Mark, TakeChunks, CloseFile, budgetVars, TypeOK
  <2> QED BY <2>3, <2>4, <2>5 DEF Owner
<1>4. live' \subseteq Stores /\ decoded' \subseteq Keys
  BY <1>1 DEF Owner, Release, Mark, TakeChunks, FreeChunks, CloseFile, Purge, Drop, budgetVars, TypeOK
<1>5. /\ phase' \in [Stores -> Phases] /\ taken' \in [Stores -> BOOLEAN] /\ file' \in [Stores -> BOOLEAN]
  BY <1>1 DEF Owner, Release, Mark, TakeChunks, FreeChunks, CloseFile, Purge, Drop, storeVars, TypeOK, Phases
<1>6. home' \in [Cells -> Homes]
  BY <1>1 DEF Owner, Release, Mark, TakeChunks, FreeChunks, CloseFile, Purge, Drop, storeVars, TypeOK, Homes
<1>7. count' = count \/ (count' = [count EXCEPT ![s] = 0])
  BY DEF Owner, Release, Mark, TakeChunks, FreeChunks, CloseFile, Purge, Drop, storeVars
<1>8. count' \in [Stores -> 0 .. MaxChunks] /\ \A u \in Stores : count'[u] <= count[u]
  BY <1>1, <1>7, StoreAssumption DEF TypeOK
<1>9. TypeOK'
  BY <1>1, <1>2, <1>3, <1>4, <1>5, <1>6, <1>8 DEF TypeOK, Homes
<1>10. Roles'
  BY <1>1 DEF TypeInv, Roles, RoleOf
<1>11. Bounds'
  <2> SUFFICES ASSUME NEW u \in Stores
               PROVE  count'[u] <= rows[u] + IF task[u].pc = "rows" THEN 1 ELSE 0
    BY <1>1 DEF Bounds, TypeInv
  <2>1. count[u] <= rows[u] + IF task[u].pc = "rows" THEN 1 ELSE 0
    BY DEF TypeInv, Bounds
  <2>2. count[u] \in Nat /\ count'[u] \in Nat /\ rows[u] \in Nat /\ count'[u] <= count[u]
    BY <1>1, <1>8, StoreAssumption DEF TypeOK
  <2> QED BY <2>1, <2>2
<1> QED BY <1>9, <1>10, <1>11 DEF TypeInv

LEMMA TypeNext == TypeInv /\ [Next]_vars => TypeInv'
<1> SUFFICES ASSUME TypeInv, [Next]_vars PROVE TypeInv'
  OBVIOUS
<1>1. CASE UNCHANGED vars
  <2>1. TypeOK' /\ Roles'
    BY <1>1 DEF vars, TypeInv, TypeOK, Roles, RoleOf
  <2>2. Bounds'
    BY <1>1 DEF vars, TypeInv, Bounds
  <2> QED BY <2>1, <2>2 DEF TypeInv
<1>2. ASSUME NEW s \in Stores, Writer(s) PROVE TypeInv'
  BY <1>2, WriterTypes, ChargeTypes, WriterIsTask DEF Writer
<1>3. ASSUME NEW r \in Readers, Reader(r) PROVE TypeInv'
  BY <1>3, ReaderTypes, ChargeTypes, TrimAllTypes, ReaderIsTask DEF Reader
<1>4. ASSUME NEW t \in Tasks, Evict(t) PROVE TypeInv'
  BY <1>4, ScanTypes, SpillTypes, EvictEndsTypes DEF Evict
<1> QED BY <1>1, <1>2, <1>3, <1>4, OwnerTypes DEF Next

\* Every variable keeps its shape, and no store lists more chunks than its writer sealed
\* (registry.rs, store.rs), whatever is under way while a store is released.
THEOREM StoreTypes == Spec => []TypeOK
<1>1. TypeInv => TypeOK
  BY DEF TypeInv
<1> QED BY <1>1, TypeInit, TypeNext, PTL DEF Spec

-----------------------------------------------------------------------------
(* The sum of the charges.                                                 *)

\* How many elements a set gains or loses when only x may come or go.
LEMMA OneApart ==
  ASSUME NEW S, NEW T, NEW x, IsFiniteSet(S), T \ {x} = S \ {x}
  PROVE  /\ IsFiniteSet(T) /\ Cardinality(S) \in Nat /\ Cardinality(T) \in Nat
         /\ Cardinality(T) = Cardinality(S) + (IF x \in T THEN 1 ELSE 0) - (IF x \in S THEN 1 ELSE 0)
<1>1. /\ IsFiniteSet(S \ {x})
      /\ Cardinality(S \ {x}) = IF x \in S THEN Cardinality(S) - 1 ELSE Cardinality(S)
  BY FS_RemoveElement
<1> DEFINE rest == S \ {x}
<1>2. /\ IsFiniteSet(rest \cup {x})
      /\ Cardinality(rest \cup {x}) = IF x \in rest THEN Cardinality(rest) ELSE Cardinality(rest) + 1
  BY <1>1, FS_AddElement
<1>3. T = IF x \in T THEN rest \cup {x} ELSE rest
  OBVIOUS
<1>4. IsFiniteSet(T)
  BY <1>1, <1>2, <1>3
<1>5. Cardinality(T) = IF x \in T THEN Cardinality(rest) + 1 ELSE Cardinality(rest)
  <2>1. CASE x \in T
    BY <1>2, <1>3, <2>1
  <2>2. CASE x \notin T
    BY <1>3, <2>2
  <2> QED BY <2>1, <2>2
<1>6. Cardinality(S) \in Nat /\ Cardinality(T) \in Nat /\ Cardinality(rest) \in Nat
  BY <1>1, <1>4, FS_CardinalityType
<1>7. Cardinality(rest) = IF x \in S THEN Cardinality(S) - 1 ELSE Cardinality(S)
  BY <1>1
<1> HIDE DEF rest
<1> QED BY <1>4, <1>5, <1>6, <1>7

Waiting == {t \in Tasks : Undecided(t)}

\* One task moves: the sum is inside the budget, or falls, or grows by the charge that this task
\* now waits for.
LEMMA SumStep ==
  ASSUME TypeInv, BudgetHeld, NEW t \in Tasks, \A u \in Tasks : u # t => task'[u] = task[u],
         resident' \in Nat,
         \/ resident' <= Budget
         \/ resident' <= resident /\ (Undecided(t) => Undecided(t)')
         \/ resident' <= resident + 1 /\ ~Undecided(t) /\ Undecided(t)'
         \/ resident' <= resident - 1
  PROVE  BudgetHeld'
<1>1. IsFiniteSet(Waiting) /\ Waiting' \ {t} = Waiting \ {t}
  <2>1. IsFiniteSet(Waiting)
    BY FiniteParts, FS_Subset DEF Waiting
  <2>2. \A u \in Tasks : u # t => (Undecided(u)' <=> Undecided(u))
    BY DEF Undecided
  <2> QED BY <2>1, <2>2 DEF Waiting
<1>2. /\ Cardinality(Waiting) \in Nat /\ Cardinality(Waiting') \in Nat
      /\ Cardinality(Waiting') = Cardinality(Waiting) + (IF t \in Waiting' THEN 1 ELSE 0)
                                                      - (IF t \in Waiting THEN 1 ELSE 0)
  BY <1>1, OneApart
<1>3. (t \in Waiting <=> Undecided(t)) /\ (t \in Waiting' <=> Undecided(t)')
  BY DEF Waiting
<1>4. resident \in Nat /\ Budget \in Nat /\ resident <= Budget + Cardinality(Waiting)
  BY StoreAssumption DEF TypeInv, TypeOK, BudgetHeld, Waiting
<1>5. resident' <= Budget + Cardinality(Waiting')
  BY <1>2, <1>3, <1>4
<1> QED BY <1>5 DEF BudgetHeld, Waiting

LEMMA ChargeSum ==
  ASSUME TypeInv, BudgetHeld, NEW t \in Tasks, Charge(t)
  PROVE  BudgetHeld'
<1>1. task[t].pc = "charge" /\ resident' = resident + 1 /\ resident \in Nat /\ Budget \in Nat
  BY StoreAssumption DEF Charge, TypeInv, TypeOK
<1>2. PICK pc \in PCs : Goto(t, pc) /\ (resident' <= Budget \/ pc \in {"trim", "trimall"})
  BY DEF Charge, Granted, PCs, WriterPCs, ReaderPCs, EvictPCs
<1>3. PICK r \in Task : Becomes(t, r) /\ r.pc = pc /\ r.for = task[t].for
  BY <1>2, GotoMoves
<1>4. task'[t] = r /\ \A u \in Tasks : u # t => task'[u] = task[u]
  BY <1>3, Moves
<1>5. task[t].for = "charge"
  BY <1>1, TaskFields DEF TypeInv, Roles, RoleOf, EvictPCs
<1>6. ~Undecided(t)
  BY <1>1 DEF Undecided, EvictPCs
<1>7. resident' <= Budget \/ Undecided(t)'
  BY <1>2, <1>3, <1>4, <1>5 DEF Undecided, EvictPCs
<1> QED BY <1>1, <1>4, <1>6, <1>7, SumStep

LEMMA TrimAllSum ==
  ASSUME TypeInv, BudgetHeld, NEW t \in Readers, TrimAll(t)
  PROVE  BudgetHeld'
<1>1. task[t].pc = "trimall" /\ t \in Tasks /\ resident \in Nat /\ decoded \subseteq Keys
  BY ReaderIsTask DEF TrimAll, TypeInv, TypeOK
<1>2. resident' \in Nat /\ resident' <= resident
  BY <1>1, Counted, UnchargedType DEF TrimAll
<1>3. PICK pc \in PCs : Goto(t, pc) /\ (resident' <= Budget \/ pc = "trim")
  BY DEF TrimAll, PCs, ReaderPCs, EvictPCs
<1>4. PICK r \in Task : Becomes(t, r) /\ r.pc = pc /\ r.for = task[t].for
  BY <1>1, <1>3, GotoMoves
<1>5. task'[t] = r /\ \A u \in Tasks : u # t => task'[u] = task[u]
  BY <1>1, <1>4, Moves
<1>6. task[t].for = "charge"
  BY <1>1, TaskFields DEF TypeInv, Roles, RoleOf, EvictPCs
<1>7. resident' <= Budget \/ Undecided(t)'
  BY <1>3, <1>4, <1>5, <1>6 DEF Undecided, EvictPCs
<1> QED BY <1>1, <1>2, <1>5, <1>7, SumStep

\* Where the moves of eviction take a task.
LEMMA Went ==
  ASSUME TypeInv, NEW t \in Tasks, NEW pc, Goto(t, pc)
  PROVE  /\ task'[t].pc = pc /\ task'[t].key = task[t].key /\ task'[t].for = task[t].for
         /\ task'[t].cur = task[t].cur /\ \A u \in Tasks : u # t => task'[u] = task[u]
  BY DEF Goto, TypeInv, TypeOK, Task

LEMMA Left ==
  ASSUME TypeInv, NEW t \in Tasks, NEW e, LeaveChunk(t, e)
  PROVE  /\ task'[t].pc = "next" /\ task'[t].key = task[t].key /\ task'[t].for = task[t].for
         /\ task'[t].cur = None /\ \A u \in Tasks : u # t => task'[u] = task[u]
  BY DEF LeaveChunk, TypeInv, TypeOK, Task

LEMMA Scanned ==
  ASSUME TypeInv, NEW t \in Tasks, Scan(t)
  PROVE  /\ task'[t].pc = "next" /\ task'[t].key = task[t].key /\ task'[t].for = task[t].for
         /\ task'[t].cur = task[t].cur /\ \A u \in Tasks : u # t => task'[u] = task[u]
  BY DEF Scan, TypeInv, TypeOK, Task

LEMMA Picked ==
  ASSUME TypeInv, NEW t \in Tasks, Pick(t)
  PROVE  /\ task'[t].key = task[t].key /\ task'[t].for = task[t].for
         /\ \A u \in Tasks : u # t => task'[u] = task[u]
         /\ \E k \in Keys : /\ MayStart("spill", k[1])
                            /\ task'[t].pc = IF Spillable(k) THEN "write" ELSE "next"
                            /\ task'[t].cur = IF Spillable(k) THEN CellAt(k) ELSE None
<1>1. task \in [Tasks -> Task] /\ task[t] \in Task /\ task[t].cand \subseteq Keys
  BY TaskFields DEF TypeInv, TypeOK
<1>2. PICK k \in task[t].cand :
         /\ MayStart("spill", k[1])
         /\ task' = [task EXCEPT ![t] = [@ EXCEPT
                       !.cand = task[t].cand \ {k},
                       !.pc = IF Spillable(k) THEN "write" ELSE "next",
                       !.cur = IF Spillable(k) THEN CellAt(k) ELSE None]]
  BY DEF Pick
<1> QED BY <1>1, <1>2 DEF Task

\* Whatever eviction does to a chunk, the task is still evicting for the same call.
LEMMA EvictMoves ==
  ASSUME TypeInv, NEW t \in Tasks,
         \/ Trim(t) \/ Scan(t) \/ Pick(t) \/ SpillWrite(t) \/ SpillFails(t) \/ SpillSwap(t)
         \/ SpillGive(t)
  PROVE  /\ task[t].pc \in EvictPCs /\ task'[t].pc \in EvictPCs /\ task'[t].for = task[t].for
         /\ task'[t].key = task[t].key /\ \A u \in Tasks : u # t => task'[u] = task[u]
<1>1. task[t].pc \in EvictPCs
  BY DEF Trim, Scan, Pick, SpillWrite, SpillFails, SpillSwap, SpillGive, EvictPCs
<1>2. CASE \E pc \in EvictPCs : Goto(t, pc)
  BY <1>1, <1>2, Went
<1>3. CASE \E e \in BOOLEAN : LeaveChunk(t, e)
  BY <1>1, <1>3, Left DEF EvictPCs
<1>4. CASE Scan(t)
  BY <1>1, <1>4, Scanned DEF EvictPCs
<1>5. CASE Pick(t)
  BY <1>1, <1>5, Picked DEF EvictPCs
<1>6. task[t].err \in BOOLEAN
  BY TaskFields DEF TypeInv
<1> QED BY <1>2, <1>3, <1>4, <1>5, <1>6
       DEF Trim, SpillWrite, SpillFails, SpillSwap, SpillGive, EvictPCs

LEMMA TrimFrees ==
  ASSUME TypeInv, NEW t \in Tasks, Trim(t)
  PROVE  \E n \in Nat : /\ n <= Cardinality(decoded) /\ resident' = Uncharged(n)
                        /\ decoded' \subseteq decoded
                        /\ Cardinality(decoded') = Cardinality(decoded) - n
<1>1. Cardinality(decoded) \in Nat /\ DecodedCap \in Nat /\ EvictKeep \in Nat
  BY StoreAssumption, Counted DEF TypeInv, TypeOK
<1>2. PICK most : /\ \E kept \in SUBSET decoded : Cardinality(kept) = most /\ decoded' = kept
                  /\ most <= Cardinality(decoded)
                  /\ resident' = Uncharged(Cardinality(decoded) - most)
  BY <1>1 DEF Trim
<1>3. most \in Nat
  BY <1>2, Counted DEF TypeInv, TypeOK
<1>4. Cardinality(decoded) - most \in Nat /\ Cardinality(decoded) - most <= Cardinality(decoded)
  BY <1>1, <1>2, <1>3
<1>5. Cardinality(decoded') = Cardinality(decoded) - (Cardinality(decoded) - most)
  BY <1>1, <1>2, <1>3
<1> QED BY <1>2, <1>4, <1>5

LEMMA EvictSum ==
  ASSUME TypeInv, BudgetHeld, NEW t \in Tasks,
         \/ Trim(t) \/ Scan(t) \/ Pick(t) \/ SpillWrite(t) \/ SpillFails(t) \/ SpillSwap(t)
         \/ SpillGive(t)
  PROVE  BudgetHeld'
<1>1. resident' \in Nat /\ resident' <= resident
  <2>1. resident \in Nat
    BY DEF TypeInv, TypeOK
  <2>2. CASE Trim(t)
    BY <2>1, <2>2, TrimFrees, UnchargedType
  <2>3. CASE SpillGive(t)
    BY <2>1, <2>3, UnchargedType DEF SpillGive
  <2>4. CASE Scan(t) \/ Pick(t) \/ SpillWrite(t) \/ SpillFails(t) \/ SpillSwap(t)
    <3>1. budgetVars' = budgetVars
      BY <2>4 DEF Scan, Pick, SpillWrite, SpillFails, SpillSwap
    <3> QED BY <2>1, <3>1 DEF budgetVars
  <2> QED BY <2>2, <2>3, <2>4
<1>2. Undecided(t) => Undecided(t)'
  BY EvictMoves DEF Undecided
<1>3. \A u \in Tasks : u # t => task'[u] = task[u]
  BY EvictMoves
<1> QED BY <1>1, <1>2, <1>3, SumStep

LEMMA EvictEndsMoves ==
  ASSUME TypeInv, NEW t \in Tasks, EvictEnds(t)
  PROVE  /\ task'[t].pc = IF ~Fits(t) THEN Refused(t)
                          ELSE IF task[t].for = "charge" THEN Granted(t) ELSE "insert"
         /\ task'[t].for = "charge" /\ task'[t].cur = None
         /\ \A u \in Tasks : u # t => task'[u] = task[u]
  BY DEF EvictEnds, NoTask, TypeInv, TypeOK

LEMMA EvictEndsSum ==
  ASSUME TypeInv, BudgetHeld, NEW t \in Tasks, EvictEnds(t)
  PROVE  BudgetHeld'
<1>1. resident \in Nat /\ Budget \in Nat
  BY StoreAssumption DEF TypeInv, TypeOK
<1>2. \A u \in Tasks : u # t => task'[u] = task[u]
  BY EvictEndsMoves
<1>3. CASE Fits(t)
  <2>1. resident' = resident
    BY <1>3 DEF EvictEnds
  <2>2. resident <= Budget \/ ~Undecided(t)
    BY <1>3 DEF Fits, Undecided
  <2> QED BY <1>1, <1>2, <2>1, <2>2, SumStep
<1>4. CASE ~Fits(t)
  <2>1. resident' = IF resident = 0 THEN 0 ELSE resident - 1
    BY <1>1, <1>4 DEF EvictEnds, ChargeBack, Uncharged
  <2> QED BY <1>1, <1>2, <2>1, SumStep
<1> QED BY <1>3, <1>4

\* A task that was not waiting may go anywhere while the sum does not grow.
LEMMA QuietSum ==
  ASSUME TypeInv, BudgetHeld, NEW t \in Tasks, task[t].pc \notin {"trimall"} \cup EvictPCs,
         \E r : Becomes(t, r), resident' \in Nat, resident' <= resident
  PROVE  BudgetHeld'
<1>1. \A u \in Tasks : u # t => task'[u] = task[u]
  BY DEF Becomes, TypeInv, TypeOK
<1>2. ~Undecided(t)
  BY DEF Undecided
<1> QED BY <1>1, <1>2, SumStep

LEMMA WriterSum ==
  ASSUME TypeInv, BudgetHeld, NEW s \in Stores,
         \/ Push(s) \/ LoadPhase(s) \/ StorePhase(s) \/ Publish(s) \/ Finish(s) \/ StoreFinished(s)
  PROVE  BudgetHeld'
<1>1. resident' = resident /\ resident \in Nat /\ s \in Tasks
  BY WriterIsTask DEF Push, LoadPhase, StorePhase, Publish, PublishEntry, PublishRows, Finish,
                      StoreFinished, budgetVars, TypeInv, TypeOK
<1>2. \E r : Becomes(s, r)
  BY DEF Push, LoadPhase, StorePhase, Publish, PublishEntry, PublishRows, Finish, StoreFinished,
         Goto, Becomes
<1>3. task[s].pc \notin {"trimall"} \cup EvictPCs
  BY DEF Push, LoadPhase, StorePhase, Publish, PublishEntry, PublishRows, Finish, StoreFinished,
         EvictPCs
<1> QED BY <1>1, <1>2, <1>3, QuietSum

LEMMA ReaderSum ==
  ASSUME TypeInv, BudgetHeld, NEW t \in Readers,
         Read(t) \/ ReadDone(t) \/ Lookup(t) \/ Fetch(t) \/ Fit(t) \/ Insert(t)
  PROVE  BudgetHeld'
<1>1. TypeOK /\ resident \in Nat /\ t \in Tasks /\ RoleOf(t, task[t])
  BY ReaderIsTask DEF TypeInv, TypeOK, Roles
<1>2. \E r : Becomes(t, r)
  BY DEF Read, ReadDone, Lookup, Fetch, Fit, Insert, Becomes
<1>3. task[t].pc \notin {"trimall"} \cup EvictPCs
  BY DEF Read, ReadDone, Lookup, Fetch, Fit, Insert, EvictPCs
<1>4. resident' \in Nat /\ resident' <= resident
  <2>1. CASE Insert(t)
    <3>1. PICK out \in SUBSET (decoded \cup {task[t].key}) :
             resident' = Uncharged(Replaced(task[t].key) + Cardinality(out))
      BY <2>1 DEF Insert
    <3>2. task[t].key \in Keys
      BY <1>1, <2>1, ReaderIsTask DEF Insert, RoleOf
    <3>3. Cardinality(out) \in Nat /\ Cardinality(decoded \cap {task[t].key}) \in Nat
      BY <1>1, <3>1, <3>2, Counted DEF TypeOK
    <3>4. Replaced(task[t].key) + Cardinality(out) \in Nat
      BY <3>3 DEF Replaced
    <3> QED BY <1>1, <3>1, <3>4, UnchargedType
  <2>2. CASE Read(t) \/ ReadDone(t) \/ Lookup(t) \/ Fetch(t) \/ Fit(t)
    <3>1. budgetVars' = budgetVars
      BY <2>2 DEF Read, ReadDone, Lookup, Fetch, Fit
    <3> QED BY <1>1, <3>1 DEF budgetVars
  <2> QED BY <2>1, <2>2
<1> QED BY <1>1, <1>2, <1>3, <1>4, QuietSum

LEMMA OwnerSum ==
  ASSUME TypeInv, BudgetHeld, NEW s \in Stores, Owner(s)
  PROVE  BudgetHeld'
<1>1. task' = task
  BY DEF Owner, Release, Mark, TakeChunks, FreeChunks, CloseFile, Purge, Drop
<1>2. resident \in Nat /\ s \in Tasks /\ decoded \subseteq Keys
  BY WriterIsTask DEF TypeInv, TypeOK
<1>3. resident' \in Nat /\ resident' <= resident
  <2>1. \A S \in SUBSET Cells : Cardinality(S) \in Nat
    BY FiniteParts, FS_Subset, FS_CardinalityType
  <2>2. \A S \in SUBSET Keys : Cardinality(S) \in Nat
    BY Counted
  <2>3. CASE FreeChunks(s)
    BY <1>2, <2>1, <2>3, UnchargedType DEF FreeChunks
  <2>4. CASE Purge(s) \/ Drop(s)
    <3>1. resident' = Uncharged(Cardinality(EntriesOf(s)))
      BY <2>4 DEF Purge, Drop
    <3>2. Cardinality(EntriesOf(s)) \in Nat
      BY <1>2, <2>2 DEF EntriesOf
    <3> QED BY <1>2, <3>1, <3>2, UnchargedType
  <2>5. CASE Release(s) \/ Mark(s) \/ TakeChunks(s) \/ CloseFile(s)
    BY <1>2, <2>5 DEF Release, Mark, TakeChunks, CloseFile, budgetVars
  <2> QED BY <2>3, <2>4, <2>5 DEF Owner
<1>4. Undecided(s) => Undecided(s)'
  BY <1>1 DEF Undecided
<1> QED BY <1>1, <1>2, <1>3, <1>4, SumStep

\* Charges are added before they are looked at, on every thread at once; still the sum, without
\* the charges being decided, stays inside the budget for every number of stores and readers, and
\* whatever is under way while a store is released (registry.rs charge, evict_until, cache_decoded).
THEOREM BudgetKept == Spec => []BudgetHeld
<1>1. Init => TypeInv /\ BudgetHeld
  <2> SUFFICES ASSUME Init PROVE TypeInv /\ BudgetHeld
    OBVIOUS
  <2>1. TypeInv
    BY TypeInit
  <2>2. {t \in Tasks : Undecided(t)} = {}
    BY DEF Init, Undecided, NoTask, EvictPCs
  <2> QED BY <2>1, <2>2, StoreAssumption, FS_EmptySet DEF Init, BudgetHeld
<1>2. TypeInv /\ BudgetHeld /\ [Next]_vars => (TypeInv /\ BudgetHeld)'
  <2> SUFFICES ASSUME TypeInv, BudgetHeld, [Next]_vars PROVE BudgetHeld'
    BY TypeNext
  <2>1. CASE UNCHANGED vars
    BY <2>1 DEF vars, BudgetHeld, Undecided
  <2>2. ASSUME NEW s \in Stores, Writer(s) PROVE BudgetHeld'
    BY <2>2, WriterSum, ChargeSum, WriterIsTask DEF Writer
  <2>3. ASSUME NEW r \in Readers, Reader(r) PROVE BudgetHeld'
    BY <2>3, ReaderSum, ChargeSum, TrimAllSum, ReaderIsTask DEF Reader
  <2>4. ASSUME NEW t \in Tasks, Evict(t) PROVE BudgetHeld'
    BY <2>4, EvictSum, EvictEndsSum DEF Evict
  <2> QED BY <2>1, <2>2, <2>3, <2>4, OwnerSum DEF Next
<1> QED BY <1>1, <1>2, PTL DEF Spec

-----------------------------------------------------------------------------
(* The chunks behind the row count, and the spill files.                   *)

\* A release that has not marked its store yet; one that has closed the spill file.
Early(s) == owner[s] \in {"open", "removed"}
Shut(s) == owner[s] \in {"unfiled", "closed", "dropped"}

Kept(s, n) == home[<<s, FALSE, n>>] = "memory" \/ (home[<<s, FALSE, n>>] = "disk" /\ file[s])

\* A store and its release: until the store is marked its table is there and every listed chunk can
\* be read; once the file is closed only a store that was made writable again has one.
StoreOK(s) ==
    /\ Early(s) => /\ ~taken[s]
                   /\ count[s] = rows[s] + IF task[s].pc = "rows" THEN 1 ELSE 0
                   /\ \A n \in 1 .. count[s] : Kept(s, n)
    /\ Shut(s) /\ phase[s] = "Released" => ~file[s]

\* A record that is about to take a chunk's place has its file, unless release has closed it.
SwapOK(t) == task[t].pc = "swap" => file[task[t].cur[1]] \/ Shut(task[t].cur[1])

RowsInv == TypeInv /\ (\A s \in Stores : StoreOK(s)) /\ (\A t \in Tasks : SwapOK(t))

LEMMA ListedCell ==
  ASSUME TypeOK, NEW s \in Stores, NEW n \in 1 .. count[s]
  PROVE  <<s, FALSE, n>> \in Cells /\ <<s, FALSE, n>>[1] = s
<1>1. count[s] \in 0 .. MaxChunks /\ MaxChunks \in Nat
  BY StoreAssumption DEF TypeOK
<1>2. n \in 1 .. MaxChunks
  BY <1>1
<1> QED BY <1>2 DEF Cells

LEMMA StoreFrame ==
  ASSUME NEW s \in Stores, StoreOK(s), UNCHANGED <<phase[s], taken[s], count[s], rows[s], owner[s]>>,
         task'[s].pc = task[s].pc \/ (task[s].pc # "rows" /\ task'[s].pc # "rows"),
         file'[s] => file[s] \/ phase[s] # "Released",
         \A n \in 1 .. count[s] : Kept(s, n) /\ Early(s) => Kept(s, n)'
  PROVE  StoreOK(s)'
  BY DEF StoreOK, Early, Shut

LEMMA SwapFrame ==
  ASSUME TypeInv, \A t \in Tasks : SwapOK(t),
         \A s \in Stores : (file[s] => file'[s] \/ Shut(s)') /\ (Shut(s) => Shut(s)'),
         \A t \in Tasks : task'[t].pc = "swap" =>
             file'[task'[t].cur[1]] \/ (task[t].pc = "swap" /\ task'[t].cur = task[t].cur)
  PROVE  \A t \in Tasks : SwapOK(t)'
<1> TAKE t \in Tasks
<1>1. CASE task'[t].pc = "swap" /\ task[t].pc = "swap" /\ task'[t].cur = task[t].cur
  <2>1. task[t].cur \in Cells
    BY <1>1 DEF TypeInv, Roles, RoleOf
  <2>2. PICK s \in Stores : s = task[t].cur[1]
    BY <2>1, CellParts
  <2>3. file[s] \/ Shut(s)
    BY <1>1, <2>2 DEF SwapOK
  <2>4. file'[s] \/ Shut(s)'
    BY <2>3
  <2> QED BY <1>1, <2>2, <2>4 DEF SwapOK, Shut
<1> QED BY <1>1 DEF SwapOK

\* A step of eviction.
LEMMA EvictRows ==
  ASSUME RowsInv, NEW t \in Tasks, Evict(t)
  PROVE  RowsInv'
<1>1. TypeInv /\ TypeInv' /\ TypeOK
  BY TypeNext DEF RowsInv, Next, TypeInv
<1>2. UNCHANGED <<phase, taken, count, rows, owner>>
  BY DEF Evict, Trim, Scan, Pick, SpillWrite, SpillFails, SpillSwap, SpillGive, EvictEnds,
         budgetVars, storeVars
<1>3. \A u \in Tasks : u # t => task'[u] = task[u]
  BY <1>1, EvictMoves, EvictEndsMoves DEF Evict
<1>4. task[t].pc \in EvictPCs /\ task'[t].pc \notin {"rows"}
  <2>1. CASE EvictEnds(t)
    <3>1. task[t].pc = "next"
      BY <2>1 DEF EvictEnds
    <3>2. task'[t].pc \in {"abort", "idle", "entry", "fit", "insert"}
      BY <1>1, <2>1, EvictEndsMoves DEF Refused, Granted
    <3> QED BY <3>1, <3>2 DEF EvictPCs
  <2>2. CASE ~EvictEnds(t)
    <3>1. task[t].pc \in EvictPCs /\ task'[t].pc \in EvictPCs
      BY <1>1, <2>2, EvictMoves DEF Evict
    <3> QED BY <3>1 DEF EvictPCs
  <2> QED BY <2>1, <2>2
<1>5. task[t].pc \in {"write", "swap"} => task[t].cur \in Cells /\ task[t].cur[1] \in Stores
  BY <1>1, CellParts DEF TypeInv, Roles, RoleOf
<1>6. \A s \in Stores : (file[s] => file'[s]) /\ (file'[s] => file[s] \/ phase[s] # "Released")
  <2>1. CASE SpillWrite(t) \/ SpillFails(t)
    <3>1. file' = file \/ (/\ phase[task[t].cur[1]] # "Released"
                          /\ file' = [file EXCEPT ![task[t].cur[1]] = TRUE])
      BY <2>1 DEF SpillWrite, SpillFails
    <3>2. task[t].cur[1] \in Stores
      BY <1>5, <2>1 DEF SpillWrite, SpillFails
    <3> QED BY <1>1, <3>1, <3>2 DEF TypeOK
  <2>2. CASE file' = file
    BY <2>2
  <2> QED BY <2>1, <2>2 DEF Evict, Trim, Scan, Pick, SpillSwap, SpillGive, EvictEnds, storeVars
<1>7. \A c \in Cells : home'[c] = home[c] \/ /\ home[c] = "memory" /\ home'[c] = "disk"
                                             /\ file[c[1]] \/ Shut(c[1])
  <2>1. CASE SpillSwap(t)
    <3>1. file[task[t].cur[1]] \/ Shut(task[t].cur[1])
      BY <2>1 DEF RowsInv, SwapOK, SpillSwap
    <3> QED BY <1>1, <1>5, <2>1, <3>1 DEF SpillSwap, TypeOK
  <2>2. CASE home' = home
    BY <2>2
  <2> QED BY <2>1, <2>2
         DEF Evict, Trim, Scan, Pick, SpillWrite, SpillFails, SpillGive, EvictEnds, storeVars
<1>8. \A s \in Stores : StoreOK(s)'
  <2> SUFFICES ASSUME NEW s \in Stores PROVE StoreOK(s)'
    OBVIOUS
  <2>1. StoreOK(s) /\ s \in Tasks
    BY WriterIsTask DEF RowsInv
  <2>2. \A n \in 1 .. count[s] : Kept(s, n) /\ Early(s) => Kept(s, n)'
    <3> SUFFICES ASSUME NEW n \in 1 .. count[s], Kept(s, n), Early(s) PROVE Kept(s, n)'
      OBVIOUS
    <3>1. <<s, FALSE, n>> \in Cells /\ <<s, FALSE, n>>[1] = s
      BY <1>1, ListedCell
    <3> QED BY <1>6, <1>7, <3>1 DEF Kept, Early, Shut
  <2>3. task'[s].pc = task[s].pc \/ (task[s].pc # "rows" /\ task'[s].pc # "rows")
    BY <1>3, <1>4, <2>1 DEF EvictPCs
  <2> QED BY <1>2, <1>6, <2>1, <2>2, <2>3, StoreFrame
<1>9. \A u \in Tasks : SwapOK(u)'
  <2>1. \A s \in Stores : Shut(s) => Shut(s)'
    BY <1>2 DEF Shut
  <2>2. task'[t].pc = "swap" => file'[task'[t].cur[1]]
    <3>1. CASE SpillWrite(t)
      <4>1. \/ LeaveChunk(t, task[t].err)
            \/ Goto(t, "swap") /\ file' = [file EXCEPT ![task[t].cur[1]] = TRUE]
        BY <3>1 DEF SpillWrite
      <4>2. task[t].cur[1] \in Stores
        BY <1>5, <3>1 DEF SpillWrite
      <4>3. CASE LeaveChunk(t, task[t].err)
        BY <1>1, <4>3, Left
      <4>4. CASE Goto(t, "swap") /\ file' = [file EXCEPT ![task[t].cur[1]] = TRUE]
        BY <1>1, <4>2, <4>4, Went DEF TypeOK
      <4> QED BY <4>1, <4>3, <4>4
    <3>2. CASE SpillFails(t) \/ SpillGive(t)
      <4>1. \E e : LeaveChunk(t, e)
        BY <3>2 DEF SpillFails, SpillGive
      <4> QED BY <1>1, <4>1, Left
    <3>3. CASE Trim(t) \/ SpillSwap(t)
      <4>1. Goto(t, "scan") \/ Goto(t, "give")
        BY <3>3 DEF Trim, SpillSwap
      <4> QED BY <1>1, <4>1, Went
    <3>4. CASE Scan(t) \/ Pick(t)
      BY <1>1, <3>4, Scanned, Picked
    <3>5. CASE EvictEnds(t)
      BY <1>1, <3>5, EvictEndsMoves DEF Granted, Refused
    <3> QED BY <3>1, <3>2, <3>3, <3>4, <3>5 DEF Evict
  <2> QED BY <1>1, <1>3, <1>6, <2>1, <2>2, SwapFrame DEF RowsInv
<1> QED BY <1>1, <1>8, <1>9 DEF RowsInv

\* A step of one task that touches no store but its own.
LEMMA OwnStoreOnly ==
  ASSUME RowsInv, TypeInv', NEW t \in Tasks, \A u \in Tasks : u # t => task'[u] = task[u],
         task'[t].pc # "swap", UNCHANGED <<file, owner, taken>>,
         \A u \in Stores : u # t => phase'[u] = phase[u] /\ count'[u] = count[u] /\ rows'[u] = rows[u],
         \A c \in Cells : c[1] # t => home'[c] = home[c],
         t \in Stores => StoreOK(t)'
  PROVE  RowsInv'
<1>1. \A s \in Stores : StoreOK(s)'
  <2> SUFFICES ASSUME NEW s \in Stores, s # t PROVE StoreOK(s)'
    OBVIOUS
  <2>1. StoreOK(s) /\ s \in Tasks /\ count[s] \in 0 .. MaxChunks /\ MaxChunks \in Nat
    BY WriterIsTask, StoreAssumption DEF RowsInv, TypeInv, TypeOK
  <2>2. \A n \in 1 .. count[s] : Kept(s, n) => Kept(s, n)'
    <3> TAKE n \in 1 .. count[s]
    <3>1. <<s, FALSE, n>> \in Cells /\ <<s, FALSE, n>>[1] = s
      BY ListedCell DEF RowsInv, TypeInv
    <3> QED BY <3>1 DEF Kept
  <2> QED BY <2>1, <2>2, StoreFrame
<1>2. \A u \in Tasks : SwapOK(u)'
  BY SwapFrame DEF RowsInv, Shut
<1> QED BY <1>1, <1>2 DEF RowsInv

\* A step of the writer, wherever the release of its store is.
LEMMA WriterRows ==
  ASSUME RowsInv, NEW s \in Stores, Writer(s)
  PROVE  RowsInv'
<1>1. TypeInv /\ TypeInv' /\ TypeOK /\ s \in Tasks /\ StoreOK(s)
  BY TypeNext, WriterIsTask DEF RowsInv, Next, TypeInv
<1>2. \A u \in Tasks : u # s => task'[u] = task[u]
  <2>1. \E pc : Goto(s, pc)
    BY DEF Writer, Push, LoadPhase, StorePhase, Charge, Publish, PublishEntry, PublishRows, Finish,
           StoreFinished
  <2> QED BY <1>1, <2>1, Went
<1>3. UNCHANGED <<file, owner, taken>>
  BY DEF Writer, Push, LoadPhase, StorePhase, Charge, Publish, PublishEntry, PublishRows, Finish,
         StoreFinished, storeVars
<1>4. \A u \in Stores : u # s => phase'[u] = phase[u] /\ count'[u] = count[u] /\ rows'[u] = rows[u]
  BY <1>1 DEF Writer, Push, LoadPhase, StorePhase, Charge, Publish, PublishEntry, PublishRows, Finish,
              StoreFinished, storeVars, TypeOK
<1>5. \A c \in Cells : c[1] # s => home'[c] = home[c]
  <2>1. CASE PublishEntry(s)
    BY <1>1, <2>1 DEF PublishEntry, TypeOK
  <2>2. CASE home' = home
    BY <2>2
  <2> QED BY <2>1, <2>2 DEF Writer, Push, LoadPhase, StorePhase, Charge, Publish, PublishRows, Finish,
              StoreFinished, storeVars
<1>6. \A n \in 1 .. count[s] : <<s, FALSE, n>> \in Cells
  BY <1>1, ListedCell
\* Only the writer's place changes, or the phase with it.
<1>7. ASSUME NEW pc, Goto(s, pc), pc \notin {"rows", "swap"}, task[s].pc # "rows",
             UNCHANGED <<count, home, rows>>, phase' = phase \/ phase'[s] # "Released"
      PROVE  StoreOK(s)' /\ task'[s].pc # "swap"
  <2>1. task'[s].pc = pc
    BY <1>1, <1>7, Went
  <2> QED BY <1>1, <1>3, <1>7, <2>1 DEF StoreOK, Early, Shut, Kept
<1>10. StoreOK(s)' /\ task'[s].pc # "swap"
  <2>1. CASE Push(s)
    BY <1>7, <2>1 DEF Push, storeVars
  <2>2. CASE LoadPhase(s)
    BY <1>7, <2>2 DEF LoadPhase, storeVars
  <2>3. CASE StorePhase(s)
    <3>1. phase'[s] = "Streaming"
      BY <1>1, <2>3 DEF StorePhase, TypeOK
    <3> QED BY <1>7, <2>3, <3>1 DEF StorePhase
  <2>4. CASE Charge(s)
    BY <1>7, <2>4 DEF Charge, Granted, storeVars
  <2>5. CASE PublishEntry(s)
    <3>1. task'[s].pc = "rows" /\ task[s].pc = "entry" /\ rows' = rows /\ phase' = phase
      BY <1>1, <2>5, Went DEF PublishEntry
    <3>2. count[s] \in Nat /\ rows[s] \in Nat /\ count'[s] = count[s] + 1 /\ count'[s] \in 1 .. MaxChunks
      <4>1. count[s] \in Nat /\ rows[s] \in Nat /\ MaxChunks \in Nat
        BY <1>1, StoreAssumption DEF TypeOK
      <4>2. count'[s] = count[s] + 1
        BY <1>1, <2>5 DEF PublishEntry, TypeOK
      <4>3. count'[s] \in 0 .. MaxChunks
        BY <1>1 DEF TypeInv, TypeOK
      <4> QED BY <4>1, <4>2, <4>3
    <3>3. CASE ~Early(s)
      BY <1>1, <1>3, <3>1, <3>3 DEF StoreOK, Early, Shut
    <3>4. CASE Early(s)
      <4>1. taken[s] = FALSE /\ count[s] = rows[s]
        BY <1>1, <3>1, <3>2, <3>4 DEF StoreOK, TypeOK
      <4>2. \A n \in 1 .. count'[s] : Kept(s, n)'
        <5> TAKE n \in 1 .. count'[s]
        <5>1. home' = [home EXCEPT ![<<s, FALSE, count[s] + 1>>] = "memory"]
          BY <2>5, <4>1 DEF PublishEntry
        <5>2. CASE n = count[s] + 1
          <6>1. n \in 1 .. MaxChunks
            BY <3>2, <5>2
          <6>2. <<s, FALSE, n>> \in Cells
            BY <6>1 DEF Cells
          <6> QED BY <1>1, <5>1, <5>2, <6>2 DEF Kept, TypeOK
        <5>3. CASE n \in 1 .. count[s]
          <6>1. n # count[s] + 1
            BY <3>2, <5>3
          <6>2. <<s, FALSE, n>> \in Cells /\ <<s, FALSE, n>> # <<s, FALSE, count[s] + 1>> /\ Kept(s, n)
            BY <1>1, <1>6, <3>4, <5>3, <6>1 DEF StoreOK
          <6>3. home'[<<s, FALSE, n>>] = home[<<s, FALSE, n>>]
            BY <1>1, <5>1, <6>2 DEF TypeOK
          <6> QED BY <1>3, <6>2, <6>3 DEF Kept
        <5> QED BY <3>2, <5>2, <5>3
      <4> QED BY <1>1, <1>3, <3>1, <3>2, <3>4, <4>1, <4>2 DEF StoreOK, Early, Shut
    <3> QED BY <3>1, <3>3, <3>4
  <2>6. CASE PublishRows(s)
    <3>1. task'[s].pc = "idle" /\ task[s].pc = "rows" /\ UNCHANGED <<phase, count, home>>
      BY <1>1, <2>6, Went DEF PublishRows
    <3>2. rows'[s] = rows[s] + 1 /\ rows[s] \in Nat
      <4>1. rows \in [Stores -> 0 .. MaxChunks] /\ MaxChunks \in Nat
        BY <1>1, StoreAssumption DEF TypeOK
      <4>2. rows[s] \in 0 .. MaxChunks /\ rows' = [rows EXCEPT ![s] = @ + 1]
        BY <2>6, <4>1 DEF PublishRows
      <4>3. rows'[s] = rows[s] + 1
        BY <4>1, <4>2
      <4> QED BY <4>1, <4>2, <4>3
    <3>3. CASE ~Early(s)
      BY <1>1, <1>3, <3>1, <3>3 DEF StoreOK, Early, Shut
    <3>4. CASE Early(s)
      <4>1. count[s] = rows[s] + 1
        BY <1>1, <3>1, <3>4 DEF StoreOK
      <4>2. count'[s] = rows'[s] /\ rows'[s] \in Nat
        BY <3>1, <3>2, <4>1
      <4>3. \A n \in 1 .. count'[s] : Kept(s, n)'
        BY <1>1, <1>3, <3>1, <3>4 DEF StoreOK, Kept
      <4> QED BY <1>1, <1>3, <3>1, <3>4, <4>2, <4>3 DEF StoreOK, Early, Shut
    <3> QED BY <3>1, <3>3, <3>4
  <2>7. CASE Finish(s)
    BY <1>7, <2>7 DEF Finish, storeVars
  <2>8. CASE StoreFinished(s)
    <3>1. phase'[s] = "Finished"
      BY <1>1, <2>8 DEF StoreFinished, TypeOK
    <3> QED BY <1>7, <2>8, <3>1 DEF StoreFinished
  <2> QED BY <2>1, <2>2, <2>3, <2>4, <2>5, <2>6, <2>7, <2>8 DEF Writer, Publish
<1> QED BY <1>1, <1>2, <1>3, <1>4, <1>5, <1>10, OwnStoreOnly

\* No step of a reader but eviction's own takes it into a spill.
LEMMA ReaderMoves ==
  ASSUME TypeInv, NEW t \in Readers, Reader(t)
  PROVE  /\ task'[t].pc \notin {"write", "swap", "give"}
         /\ \A u \in Tasks : u # t => task'[u] = task[u]
<1>0. t \in Tasks /\ task \in [Tasks -> Task] /\ task[t] \in Task
  BY ReaderIsTask DEF TypeInv, TypeOK
<1>1. CASE Read(t)
  <2>1. PICK k \in Keys : task' = [task EXCEPT ![t] = [@ EXCEPT
                     !.key = k,
                     !.pc = IF home[CellAt(k)] = "memory" THEN "hold" ELSE "lookup",
                     !.cur = IF home[CellAt(k)] = "memory" THEN CellAt(k) ELSE None]]
    BY <1>1 DEF Read
  <2> QED BY <1>0, <2>1 DEF Task
<1>2. CASE ReadDone(t) \/ Insert(t)
  BY <1>0, <1>2 DEF ReadDone, Insert, NoTask
<1>3. CASE Lookup(t) \/ Fetch(t) \/ Fit(t)
  <2>2. \/ task' = [task EXCEPT ![t] = NoTask]
        \/ \E pc \in {"fetch", "charge", "insert"} :
              task' = [task EXCEPT ![t] = [task[t] EXCEPT !.pc = pc]]
        \/ task' = [task EXCEPT ![t] = [task[t] EXCEPT !.pc = "trim", !.for = "fit"]]
    BY <1>3 DEF Lookup, Fetch, Fit
  <2>3. CASE task' = [task EXCEPT ![t] = NoTask]
    BY <1>0, <2>3 DEF NoTask
  <2>4. CASE \E pc \in {"fetch", "charge", "insert"} :
                task' = [task EXCEPT ![t] = [task[t] EXCEPT !.pc = pc]]
    BY <1>0, <2>4 DEF Task
  <2>5. CASE task' = [task EXCEPT ![t] = [task[t] EXCEPT !.pc = "trim", !.for = "fit"]]
    BY <1>0, <2>5 DEF Task
  <2> QED BY <2>2, <2>3, <2>4, <2>5
<1>4. CASE Charge(t) \/ TrimAll(t)
  <2>1. PICK pc : Goto(t, pc) /\ pc \in {"entry", "fit", "trim", "trimall"}
    BY <1>4 DEF Charge, TrimAll, Granted
  <2> QED BY <1>0, <2>1, Went
<1> QED BY <1>1, <1>2, <1>3, <1>4 DEF Reader

LEMMA ReaderRows ==
  ASSUME RowsInv, NEW t \in Readers, Reader(t)
  PROVE  RowsInv'
<1>1. TypeInv /\ TypeInv' /\ TypeOK /\ t \in Tasks /\ t \notin Stores
  BY TypeNext, ReaderIsTask DEF RowsInv, Next, TypeInv
<1>2. UNCHANGED <<phase, count, taken, home, rows, file, owner>>
  BY DEF Reader, Read, ReadDone, Lookup, Fetch, Charge, TrimAll, Fit, Insert, storeVars
<1>3. task'[t].pc # "swap" /\ \A u \in Tasks : u # t => task'[u] = task[u]
  BY <1>1, ReaderMoves
<1> QED BY <1>1, <1>2, <1>3, OwnStoreOnly

LEMMA OwnerRows ==
  ASSUME RowsInv, NEW s \in Stores, Owner(s)
  PROVE  RowsInv'
<1>1. TypeInv /\ TypeInv' /\ TypeOK /\ s \in Tasks /\ StoreOK(s)
  BY TypeNext, WriterIsTask DEF RowsInv, Next, TypeInv
<1>2. UNCHANGED <<task, rows>>
  BY DEF Owner, Release, Mark, TakeChunks, FreeChunks, CloseFile, Purge, Drop, budgetVars, storeVars
<1>3. PICK to \in OwnerPCs : /\ owner' = [owner EXCEPT ![s] = to]
                             /\ Shut(s) => to \in {"closed", "dropped"}
                             /\ file'[s] => file[s]
                             /\ file[s] => file'[s] \/ to = "unfiled"
                             /\ \A u \in Stores : u # s => file'[u] = file[u]
  <2>1. CASE CloseFile(s)
    BY <1>1, <2>1 DEF CloseFile, Step, TypeOK, Shut, OwnerPCs
  <2>2. CASE ~CloseFile(s)
    BY <2>2 DEF Owner, Release, Mark, TakeChunks, FreeChunks, Purge, Drop, storeVars, Step, Shut,
                OwnerPCs
  <2> QED BY <2>1, <2>2
<1>4. /\ owner'[s] = to /\ owner' \in [Stores -> OwnerPCs]
      /\ \A u \in Stores : u # s => owner'[u] = owner[u]
  BY <1>1, <1>3 DEF TypeOK
<1>5. \A u \in Stores : u # s => phase'[u] = phase[u] /\ taken'[u] = taken[u] /\ count'[u] = count[u]
  BY <1>1 DEF Owner, Release, Mark, TakeChunks, FreeChunks, CloseFile, Purge, Drop, storeVars, TypeOK
<1>6. \A c \in Cells : c[1] # s => home'[c] = home[c]
  BY <1>1 DEF Owner, Release, Mark, TakeChunks, FreeChunks, CloseFile, Purge, Drop, storeVars, TypeOK
<1>7. \A u \in Stores : u # s => StoreOK(u)'
  <2> TAKE u \in Stores
  <2> HAVE u # s
  <2>1. StoreOK(u) /\ count[u] \in 0 .. MaxChunks /\ MaxChunks \in Nat
    BY <1>1, StoreAssumption DEF RowsInv, TypeOK
  <2>2. \A n \in 1 .. count[u] : Kept(u, n) => Kept(u, n)'
    <3> TAKE n \in 1 .. count[u]
    <3>1. <<u, FALSE, n>> \in Cells /\ <<u, FALSE, n>>[1] = u
      BY <1>1, ListedCell
    <3> QED BY <1>3, <1>6, <3>1 DEF Kept
  <2> QED BY <1>2, <1>3, <1>4, <1>5, <2>1, <2>2, StoreFrame
<1>8. StoreOK(s)'
  <2>1. CASE Release(s)
    <3>1. owner[s] = "open" /\ owner'[s] = "removed" /\ UNCHANGED <<phase, count, taken, home, file>>
      BY <1>1, <2>1 DEF Release, Step, storeVars, TypeOK
    <3> QED BY <1>1, <1>2, <3>1 DEF StoreOK, Early, Shut, Kept
  <2>2. CASE Mark(s) \/ TakeChunks(s) \/ FreeChunks(s)
    <3>1. owner'[s] \in {"marked", "taken", "freed"}
      BY <1>1, <2>2 DEF Mark, TakeChunks, FreeChunks, Step, TypeOK
    <3> QED BY <3>1 DEF StoreOK, Early, Shut
  <2>3. CASE CloseFile(s)
    <3>1. owner'[s] = "unfiled" /\ file'[s] = FALSE
      BY <1>1, <2>3 DEF CloseFile, Step, TypeOK
    <3> QED BY <3>1 DEF StoreOK, Early, Shut
  <2>4. CASE Purge(s) \/ Drop(s)
    <3>1. Shut(s) /\ owner'[s] \in {"closed", "dropped"} /\ UNCHANGED <<phase, file>>
      BY <1>1, <2>4 DEF Purge, Drop, Step, TypeOK, storeVars, Shut
    <3> QED BY <1>1, <3>1 DEF StoreOK, Early, Shut
  <2> QED BY <2>1, <2>2, <2>3, <2>4 DEF Owner
<1>9. \A t \in Tasks : SwapOK(t)'
  <2>1. \A u \in Stores : (file[u] => file'[u] \/ Shut(u)') /\ (Shut(u) => Shut(u)')
    BY <1>3, <1>4 DEF Shut
  <2> QED BY <1>1, <1>2, <2>1, SwapFrame DEF RowsInv
<1> QED BY <1>1, <1>7, <1>8, <1>9 DEF RowsInv

LEMMA RowsInit == Init => RowsInv
<1> SUFFICES ASSUME Init PROVE RowsInv
  OBVIOUS
<1>1. TypeInv
  BY TypeInit
<1>2. \A s \in Stores : StoreOK(s)
  BY WriterIsTask DEF Init, StoreOK, Early, Shut, NoTask
<1>3. \A t \in Tasks : SwapOK(t)
  BY DEF Init, SwapOK, NoTask
<1> QED BY <1>1, <1>2, <1>3 DEF RowsInv

LEMMA RowsNext == RowsInv /\ [Next]_vars => RowsInv'
<1> SUFFICES ASSUME RowsInv, [Next]_vars PROVE RowsInv'
  OBVIOUS
<1>1. CASE UNCHANGED vars
  <2>1. TypeInv'
    BY <1>1, TypeNext DEF RowsInv
  <2> QED BY <1>1, <2>1 DEF vars, RowsInv, StoreOK, SwapOK, Early, Shut, Kept
<1> QED BY <1>1, EvictRows, WriterRows, ReaderRows, OwnerRows DEF Next

\* A row that the count promises has its chunk behind it, in memory or in a file that is there, in
\* every order of publication, eviction, failed spills and release, until the release marks the
\* store: a writer, a spill or a reader that is at work when the tab closes changes nothing about it
\* (store.rs publish, spill_one, release).
THEOREM ChunksBacked == Spec => []RowsBacked
<1>1. RowsInv => RowsBacked
  <2> SUFFICES ASSUME RowsInv, NEW s \in Stores, Early(s)
               PROVE  /\ rows[s] <= count[s]
                      /\ \A n \in 1 .. rows[s] : Kept(s, n)
    BY DEF RowsBacked, Kept, Early
  <2>1. StoreOK(s) /\ rows[s] \in Nat /\ count[s] \in Nat
    BY StoreAssumption DEF RowsInv, TypeInv, TypeOK
  <2>2. count[s] = rows[s] + IF task[s].pc = "rows" THEN 1 ELSE 0
    BY <2>1 DEF StoreOK
  <2>3. \A n \in 1 .. count[s] : Kept(s, n)
    BY <2>1 DEF StoreOK
  <2> QED BY <2>1, <2>2, <2>3
<1> QED BY <1>1, RowsInit, RowsNext, PTL DEF Spec

\* A spill, a read or a push that was under way when the store was released gives it no new file,
\* and the file that it had is gone, while the store stays released (store.rs spill_one, release).
THEOREM FilesGone == Spec => []NoOrphanFile
<1>1. RowsInv => NoOrphanFile
  BY DEF RowsInv, StoreOK, Shut, NoOrphanFile
<1> QED BY <1>1, RowsInit, RowsNext, PTL DEF Spec

-----------------------------------------------------------------------------
(* What the counter stands for.                                            *)

Spills(t) == task[t].pc \in {"write", "swap"}

\* A chunk that is being spilled is in memory, and one thread spills it; no thread spills a chunk
\* of a store that is being released.
SpillsOK ==
    /\ \A t \in Tasks : Spills(t) => home[task[t].cur] = "memory"
    /\ \A t, u \in Tasks : t # u /\ Spills(t) /\ Spills(u) => task[t].cur # task[u].cur
    /\ \A s \in Stores : owner[s] # "open" => ~Busy("spill", s)

\* A release that has taken the chunk table.
Gone(s) == owner[s] \in {"taken", "freed", "unfiled", "closed", "dropped"}

\* The phase and the table follow the release, and the writer has stopped when it starts.
Stilled(s) ==
    /\ phase[s] = "Released" <=> ~Early(s)
    /\ taken[s] <=> Gone(s)
    /\ owner[s] # "open" => task[s].pc \in {"idle", "stopped"}

\* Beyond the chunk table there are no chunks, and none once release has given them back.
CellsOK(s) ==
    \A n \in 1 .. MaxChunks :
        /\ home[<<s, TRUE, n>>] = "none"
        /\ ~Gone(s) /\ n > count[s] => home[<<s, FALSE, n>>] = "none"
        /\ owner[s] \in {"freed", "unfiled", "closed", "dropped"} => home[<<s, FALSE, n>>] = "none"

ApartInv == RowsInv /\ SpillsOK /\ \A s \in Stores : Stilled(s) /\ CellsOK(s)

\* Nobody writes to a store or spills its chunks while it is released; reads go on.
Undisturbed == \A s \in Stores : Releasing(s) => ~Busy("write", s) /\ ~Busy("spill", s)

LEMMA SomeCell ==
  ASSUME NEW s \in Stores, NEW b \in BOOLEAN, NEW n \in 1 .. MaxChunks
  PROVE  <<s, b, n>> \in Cells /\ <<s, b, n>>[1] = s /\ <<s, b, n>>[2] = b /\ <<s, b, n>>[3] = n
  BY DEF Cells

LEMMA SpillerCell ==
  ASSUME TypeInv, NEW t \in Tasks, Spilling(t)
  PROVE  task[t].cur \in Cells /\ task[t].cur[1] \in Stores
  BY CellParts DEF TypeInv, Roles, RoleOf, Spilling

\* No task starts to spill, and no chunk that is being spilled leaves the memory.
LEMMA SpillsFrame ==
  ASSUME SpillsOK,
         \A t \in Tasks : Spilling(t)' => Spilling(t) /\ task'[t].cur = task[t].cur /\ (Spills(t)' => Spills(t)),
         \A s \in Stores : owner'[s] # "open" => owner[s] # "open" \/ ~Busy("spill", s),
         \A t \in Tasks : Spills(t) /\ Spills(t)' => home'[task[t].cur] = "memory"
  PROVE  SpillsOK'
<1>1. \A t \in Tasks : Spills(t)' => Spills(t) /\ task'[t].cur = task[t].cur
  BY DEF Spills, Spilling
<1>2. \A t \in Tasks : Spills(t)' => home'[task'[t].cur] = "memory"
  BY <1>1
<1>3. \A t, u \in Tasks : t # u /\ Spills(t)' /\ Spills(u)' => task'[t].cur # task'[u].cur
  BY <1>1 DEF SpillsOK
<1>4. \A s \in Stores : owner'[s] # "open" => ~Busy("spill", s)'
  BY DEF SpillsOK, Busy
<1> QED BY <1>2, <1>3, <1>4 DEF SpillsOK

LEMMA CellsFrame ==
  ASSUME NEW s \in Stores, CellsOK(s), UNCHANGED <<owner[s], count[s]>>,
         \A c \in Cells : c[1] = s /\ home[c] = "none" => home'[c] = "none"
  PROVE  CellsOK(s)'
<1>1. \A n \in 1 .. MaxChunks : <<s, TRUE, n>> \in Cells /\ <<s, FALSE, n>> \in Cells
                                /\ <<s, TRUE, n>>[1] = s /\ <<s, FALSE, n>>[1] = s
  BY SomeCell
<1> QED BY <1>1 DEF CellsOK, Gone

LEMMA StilledFrame ==
  ASSUME NEW s \in Stores, Stilled(s), UNCHANGED <<phase[s], taken[s], owner[s]>>,
         task'[s].pc = task[s].pc \/ task[s].pc \notin {"idle", "stopped"}
  PROVE  Stilled(s)'
  BY DEF Stilled, Early, Gone

LEMMA EvictApart ==
  ASSUME ApartInv, Undisturbed', NEW t \in Tasks, Evict(t)
  PROVE  ApartInv'
<1>1. RowsInv' /\ TypeInv /\ TypeOK
  BY EvictRows DEF ApartInv, RowsInv, TypeInv
<1>2. UNCHANGED <<count, owner>>
  BY DEF Evict, Trim, Scan, Pick, SpillWrite, SpillFails, SpillSwap, SpillGive, EvictEnds,
         budgetVars, storeVars
<1>3. home' = home \/ /\ SpillSwap(t) /\ task[t].cur \in Cells
                      /\ home' = [home EXCEPT ![task[t].cur] = "disk"]
  <2>1. CASE SpillSwap(t)
    <3>1. task[t].cur \in Cells
      BY <1>1, <2>1, SpillerCell DEF SpillSwap, Spilling
    <3> QED BY <2>1, <3>1 DEF SpillSwap
  <2> QED BY <2>1 DEF Evict, Trim, Scan, Pick, SpillWrite, SpillFails, SpillGive, EvictEnds, storeVars
<1>4. \A u \in Tasks : u # t => task'[u] = task[u]
  BY <1>1, EvictMoves, EvictEndsMoves DEF Evict
<1>5. SpillsOK
  BY DEF ApartInv
<1>6. \A s \in Stores : CellsOK(s)'
  <2>1. \A c \in Cells : home[c] = "none" => home'[c] = "none"
    <3>1. CASE home' = home
      BY <3>1
    <3>2. CASE SpillSwap(t) /\ task[t].cur \in Cells /\ home' = [home EXCEPT ![task[t].cur] = "disk"]
      <4>1. home[task[t].cur] = "memory"
        BY <1>5, <3>2 DEF SpillsOK, Spills, SpillSwap
      <4> QED BY <1>1, <3>2, <4>1 DEF TypeOK
    <3> QED BY <1>3, <3>1, <3>2
  <2> QED BY <1>2, <2>1, CellsFrame DEF ApartInv
<1>9. \A s \in Stores : Stilled(s)'
  <2> TAKE s \in Stores
  <2>1. Stilled(s) /\ s \in Tasks /\ UNCHANGED <<phase, taken>>
    BY WriterIsTask
       DEF ApartInv, Evict, Trim, Scan, Pick, SpillWrite, SpillFails, SpillSwap, SpillGive, EvictEnds,
           storeVars
  <2>2. task[t].pc \in EvictPCs
    BY <1>1, EvictMoves DEF Evict, EvictEnds, EvictPCs
  <2>3. task'[s].pc = task[s].pc \/ task[s].pc \notin {"idle", "stopped"}
    BY <1>4, <2>1, <2>2 DEF EvictPCs
  <2> QED BY <1>2, <2>1, <2>3, StilledFrame
<1>7. CASE Pick(t)
  <2>1. PICK k \in Keys : /\ MayStart("spill", k[1])
                          /\ task'[t].pc = IF Spillable(k) THEN "write" ELSE "next"
                          /\ task'[t].cur = IF Spillable(k) THEN CellAt(k) ELSE None
    BY <1>1, <1>7, Picked
  <2>2. home' = home
    BY <1>7 DEF Pick, storeVars
  <2>3. CASE ~Spillable(k)
    <3>1. ~Spilling(t)'
      BY <2>1, <2>3 DEF Spilling
    <3>2. SpillsOK'
      BY <1>1, <1>2, <1>4, <1>5, <2>2, <3>1, SpillsFrame DEF SpillsOK, Spilling, Spills
    <3> QED BY <1>1, <1>6, <1>9, <3>2 DEF ApartInv
  <2>4. CASE Spillable(k)
    <3> DEFINE c == CellAt(k)
    <3>1. task'[t].pc = "write" /\ task'[t].cur = c /\ home[c] = "memory" /\ ~Borrowed(c)
      BY <2>1, <2>4 DEF Spillable
    <3>2. c \in Cells /\ k[1] \in Stores /\ c[1] = k[1] /\ c[2] = taken[k[1]] /\ c[3] = k[2]
          /\ k[2] \in 1 .. MaxChunks /\ c = <<k[1], taken[k[1]], k[2]>>
      BY <1>1, CellAtType, KeyParts DEF CellAt
    <3>3. owner[k[1]] = "open"
      <4>1. owner[k[1]] \in {"open", "closed", "dropped"}
        <5>1. Busy("spill", k[1])'
          BY <3>1, <3>2 DEF Busy, Spilling
        <5> QED BY <1>2, <3>2, <5>1 DEF Undisturbed, Releasing
      <4>2. CASE owner[k[1]] \in {"closed", "dropped"}
        <5>1. taken[k[1]] = TRUE
          BY <1>1, <3>2, <4>2 DEF ApartInv, Stilled, Gone, TypeOK
        <5>2. home[c] = "none"
          BY <3>2, <5>1 DEF ApartInv, CellsOK
        <5> QED BY <3>1, <5>2
      <4> QED BY <4>1, <4>2
    <3> HIDE DEF c
    <3>4. \A u \in Tasks : task[u].cur # c
      BY <3>1 DEF Borrowed
    <3>5. \A u \in Tasks : Spills(u)' => home'[task'[u].cur] = "memory"
      BY <1>4, <1>5, <2>2, <3>1 DEF SpillsOK, Spills
    <3>6. \A u, v \in Tasks : u # v /\ Spills(u)' /\ Spills(v)' => task'[u].cur # task'[v].cur
      BY <1>4, <1>5, <3>1, <3>4 DEF SpillsOK, Spills
    <3>7. \A s \in Stores : owner[s] # "open" => ~Busy("spill", s)'
      <4> SUFFICES ASSUME NEW s \in Stores, owner[s] # "open", NEW u \in Tasks, Spilling(u)',
                          task'[u].cur[1] = s
                   PROVE  FALSE
        BY DEF Busy
      <4>1. CASE u = t
        BY <3>1, <3>2, <3>3, <4>1
      <4>2. CASE u # t
        BY <1>4, <1>5, <4>2 DEF SpillsOK, Busy, Spilling
      <4> QED BY <4>1, <4>2
    <3>8. SpillsOK'
      BY <1>2, <3>5, <3>6, <3>7 DEF SpillsOK
    <3> QED BY <1>1, <1>6, <1>9, <3>8 DEF ApartInv
  <2> QED BY <2>3, <2>4
<1>8. CASE ~Pick(t)
  <2>1. Spilling(t)' => Spilling(t) /\ task'[t].cur = task[t].cur /\ (Spills(t)' => Spills(t))
    <3>1. CASE EvictEnds(t)
      BY <1>1, <3>1, EvictEndsMoves DEF Spilling, Refused, Granted
    <3>2. CASE Scan(t)
      BY <1>1, <3>2, Scanned DEF Spilling
    <3>3. CASE \E e : LeaveChunk(t, e)
      BY <1>1, <3>3, Left DEF Spilling
    <3>4. CASE Goto(t, "scan")
      BY <1>1, <3>4, Went DEF Spilling
    <3>5. CASE task[t].pc = "write" /\ Goto(t, "swap")
      BY <1>1, <3>5, Went DEF Spilling, Spills
    <3>6. CASE task[t].pc = "swap" /\ Goto(t, "give")
      BY <1>1, <3>6, Went DEF Spilling, Spills
    <3> QED BY <1>8, <3>1, <3>2, <3>3, <3>4, <3>5, <3>6
            DEF Evict, Trim, SpillWrite, SpillFails, SpillSwap, SpillGive
  <2>2. \A u \in Tasks : Spills(u) /\ Spills(u)' => home'[task[u].cur] = "memory"
    <3>1. CASE home' = home
      BY <1>5, <3>1 DEF SpillsOK
    <3>2. CASE SpillSwap(t) /\ task[t].cur \in Cells /\ home' = [home EXCEPT ![task[t].cur] = "disk"]
      <4> SUFFICES ASSUME NEW u \in Tasks, Spills(u), Spills(u)' PROVE home'[task[u].cur] = "memory"
        OBVIOUS
      <4>1. u # t
        <5>1. task'[t].pc = "give"
          BY <1>1, <3>2, Went DEF SpillSwap
        <5> QED BY <5>1 DEF Spills
      <4>2. Spills(t)
        BY <3>2 DEF SpillSwap, Spills
      <4>3. task[u].cur # task[t].cur /\ home[task[u].cur] = "memory"
        BY <1>5, <4>1, <4>2 DEF SpillsOK
      <4>4. task[u].cur \in Cells
        BY <1>1, SpillerCell DEF Spills, Spilling
      <4> QED BY <1>1, <3>2, <4>3, <4>4 DEF TypeOK
    <3> QED BY <1>3, <3>1, <3>2
  <2>3. \A u \in Tasks : Spilling(u)' => Spilling(u) /\ task'[u].cur = task[u].cur /\ (Spills(u)' => Spills(u))
    <3> TAKE u \in Tasks
    <3>1. CASE u # t
      BY <1>4, <3>1 DEF Spilling, Spills
    <3> QED BY <2>1, <3>1
  <2>4. SpillsOK'
    BY <1>2, <1>5, <2>2, <2>3, SpillsFrame
  <2> QED BY <1>1, <1>6, <1>9, <2>4 DEF ApartInv
<1> QED BY <1>7, <1>8

LEMMA WriterApart ==
  ASSUME ApartInv, Undisturbed', NEW s \in Stores, Writer(s)
  PROVE  ApartInv'
<1>1. RowsInv' /\ TypeInv /\ TypeOK /\ s \in Tasks /\ SpillsOK
  BY WriterRows, WriterIsTask DEF ApartInv, RowsInv, TypeInv
<1>2. owner' = owner
  BY DEF Writer, Push, LoadPhase, StorePhase, Charge, Publish, PublishEntry, PublishRows, Finish,
         StoreFinished, storeVars
<1>3. PICK pc : Goto(s, pc) /\ pc \notin {"write", "swap", "give"}
  BY DEF Writer, Push, LoadPhase, StorePhase, Charge, Publish, PublishEntry, PublishRows, Finish,
         StoreFinished, Granted
<1>4. ~Spilling(s)' /\ \A u \in Tasks : u # s => task'[u] = task[u]
  BY <1>1, <1>3, Went DEF Spilling
\* A writer at work has an open store: a push or a finish that starts during the release is told.
<1>7. task[s].pc \notin {"idle", "stopped"} => owner[s] = "open"
  BY DEF ApartInv, Stilled
<1>8. owner[s] = "open" \/ (task'[s].pc = "stopped" /\ phase' = phase)
  <2>1. CASE task[s].pc = "idle"
    <3>1. Push(s) \/ Finish(s)
      BY <2>1 DEF Writer, LoadPhase, StorePhase, Charge, Publish, PublishEntry, PublishRows,
                  StoreFinished
    <3>2. phase' = phase /\ (phase[s] = "Released" => task'[s].pc = "stopped")
      <4>1. \E x : Goto(s, IF phase[s] = "Released" THEN "stopped" ELSE x)
        BY <3>1 DEF Push, Finish
      <4>2. phase[s] = "Released" => task'[s].pc = "stopped"
        BY <1>1, <4>1, Went
      <4> QED BY <3>1, <4>2 DEF Push, Finish, storeVars
    <3>3. phase[s] # "Released" => task'[s].pc \in {"load", "finish"}
      <4>1. phase[s] # "Released" => \E x \in {"load", "finish"} : Goto(s, x)
        BY <3>1 DEF Push, Finish
      <4> QED BY <1>1, <4>1, Went
    <3>4. phase[s] # "Released" => owner[s] = "open"
      <4> SUFFICES ASSUME phase[s] # "Released" PROVE owner[s] = "open"
        OBVIOUS
      <4>1. owner[s] \in {"open", "removed"}
        BY DEF ApartInv, Stilled, Early
      <4>2. Busy("write", s)'
        BY <3>3 DEF Busy
      <4> QED BY <1>2, <4>1, <4>2 DEF Undisturbed, Releasing
    <3> QED BY <3>2, <3>4
  <2>2. CASE task[s].pc = "stopped"
    BY <2>2 DEF Writer, Push, LoadPhase, StorePhase, Charge, Publish, PublishEntry, PublishRows,
                Finish, StoreFinished
  <2> QED BY <1>7, <2>1, <2>2
<1>9. \A u \in Stores : Stilled(u)'
  <2> TAKE u \in Stores
  <2>1. u \in Tasks /\ Stilled(u) /\ taken' = taken
    BY WriterIsTask DEF ApartInv, Writer, Push, LoadPhase, StorePhase, Charge, Publish, PublishEntry,
       PublishRows, Finish, StoreFinished, storeVars
  <2>2. phase' = phase \/ (/\ phase'[s] # "Released" /\ \A v \in Stores : v # s => phase'[v] = phase[v]
                           /\ task[s].pc \in {"store", "finish"})
    BY <1>1 DEF Writer, Push, LoadPhase, StorePhase, Charge, Publish, PublishEntry, PublishRows,
       Finish, StoreFinished, storeVars, TypeOK
  <2>3. CASE u # s
    BY <1>2, <1>4, <2>1, <2>2, <2>3, StilledFrame
  <2>4. CASE u = s
    <3>1. CASE owner[s] = "open"
      BY <1>2, <2>1, <2>2, <2>4, <3>1 DEF Stilled, Early, Gone
    <3>2. CASE task'[s].pc = "stopped" /\ phase' = phase
      BY <1>2, <2>1, <2>4, <3>2 DEF Stilled, Early, Gone
    <3> QED BY <1>8, <3>1, <3>2
  <2> QED BY <2>3, <2>4
<1>5. CASE PublishEntry(s)
  <2>1. task[s].pc = "entry" /\ owner[s] = "open" /\ taken[s] = FALSE
    BY <1>1, <1>5 DEF PublishEntry, ApartInv, Stilled, Gone, TypeOK
  <2>2. /\ home' = [home EXCEPT ![<<s, FALSE, count[s] + 1>>] = "memory"]
        /\ count' = [count EXCEPT ![s] = count[s] + 1]
    BY <1>5, <2>1 DEF PublishEntry
  <2>3. /\ \A c \in Cells : c # <<s, FALSE, count[s] + 1>> => home'[c] = home[c]
        /\ \A c \in Cells : home[c] = "memory" => home'[c] = "memory"
    BY <1>1, <2>2 DEF TypeOK
  <2>4. /\ count'[s] = count[s] + 1 /\ count[s] \in Nat
        /\ \A u \in Stores : u # s => count'[u] = count[u]
    BY <1>1, <2>2, StoreAssumption DEF TypeOK
  <2>5. CellsOK(s)'
    <3> SUFFICES ASSUME NEW n \in 1 .. MaxChunks
                 PROVE  /\ home'[<<s, TRUE, n>>] = "none"
                        /\ n > count'[s] => home'[<<s, FALSE, n>>] = "none"
      BY <1>2, <2>1 DEF CellsOK
    <3>1. <<s, TRUE, n>> \in Cells /\ <<s, FALSE, n>> \in Cells
      BY SomeCell
    <3>2. home[<<s, TRUE, n>>] = "none" /\ (n > count[s] => home[<<s, FALSE, n>>] = "none")
      BY <2>1 DEF ApartInv, CellsOK, Gone
    <3>3. home'[<<s, TRUE, n>>] = "none"
      BY <2>3, <3>1, <3>2
    <3>4. n > count'[s] => n # count[s] + 1 /\ n > count[s]
      BY <2>4
    <3>5. n # count[s] + 1 => <<s, FALSE, n>> # <<s, FALSE, count[s] + 1>>
      OBVIOUS
    <3> QED BY <2>3, <3>1, <3>2, <3>3, <3>4, <3>5
  <2>6. \A u \in Stores : u # s => CellsOK(u)'
    <3> TAKE u \in Stores
    <3> HAVE u # s
    <3>0. <<s, FALSE, count[s] + 1>>[1] # u
      OBVIOUS
    <3>1. \A c \in Cells : c[1] = u => home'[c] = home[c]
      BY <2>3, <3>0
    <3> QED BY <1>2, <2>4, <3>1, CellsFrame DEF ApartInv
  <2>7. \A u \in Tasks : Spills(u) => home'[task[u].cur] = "memory"
    <3> SUFFICES ASSUME NEW u \in Tasks, Spills(u) PROVE home'[task[u].cur] = "memory"
      OBVIOUS
    <3>1. task[u].cur \in Cells /\ home[task[u].cur] = "memory"
      BY <1>1, SpillerCell DEF Spills, Spilling, SpillsOK
    <3> QED BY <2>3, <3>1
  <2>8. SpillsOK'
    BY <1>1, <1>2, <1>4, <2>7, SpillsFrame DEF Spilling, Spills
  <2> QED BY <1>1, <1>9, <2>5, <2>6, <2>8 DEF ApartInv
<1>6. CASE ~PublishEntry(s)
  <2>1. home' = home /\ count' = count
    BY <1>6 DEF Writer, Push, LoadPhase, StorePhase, Charge, Publish, PublishRows, Finish,
                StoreFinished, storeVars
  <2>2. \A u \in Stores : CellsOK(u)'
    BY <1>2, <2>1, CellsFrame DEF ApartInv
  <2>3. SpillsOK'
    BY <1>1, <1>2, <1>4, <2>1, SpillsFrame DEF Spilling, Spills, SpillsOK
  <2> QED BY <1>1, <1>9, <2>2, <2>3 DEF ApartInv
<1> QED BY <1>5, <1>6

LEMMA ReaderApart ==
  ASSUME ApartInv, NEW t \in Readers, Reader(t)
  PROVE  ApartInv'
<1>1. RowsInv' /\ TypeInv /\ TypeOK /\ t \in Tasks /\ SpillsOK
  BY ReaderRows, ReaderIsTask DEF ApartInv, RowsInv, TypeInv
<1>2. UNCHANGED <<phase, taken, count, home, owner>>
  BY DEF Reader, Read, ReadDone, Lookup, Fetch, Charge, TrimAll, Fit, Insert, storeVars
<1>3. ~Spilling(t)' /\ \A u \in Tasks : u # t => task'[u] = task[u]
  BY <1>1, ReaderMoves DEF Spilling
<1>4. SpillsOK'
  BY <1>1, <1>2, <1>3, SpillsFrame DEF Spilling, Spills, SpillsOK
<1>5. \A s \in Stores : Stilled(s)'
  BY <1>2, <1>3, WriterIsTask, ReaderIsTask, StilledFrame DEF ApartInv
<1> QED BY <1>1, <1>2, <1>4, <1>5, CellsFrame DEF ApartInv

LEMMA OwnerApart ==
  ASSUME ApartInv, Undisturbed', NEW s \in Stores, Owner(s)
  PROVE  ApartInv'
<1>1. RowsInv' /\ TypeInv /\ TypeOK /\ SpillsOK
  BY OwnerRows DEF ApartInv, RowsInv, TypeInv
<1>2. task' = task
  BY DEF Owner, Release, Mark, TakeChunks, FreeChunks, CloseFile, Purge, Drop
<1>3. /\ \A u \in Stores : u # s => owner'[u] = owner[u] /\ count'[u] = count[u]
      /\ \A c \in Cells : c[1] # s => home'[c] = home[c]
  BY <1>1 DEF Owner, Release, Mark, TakeChunks, FreeChunks, CloseFile, Purge, Drop, Step, storeVars,
              TypeOK
<1>4. owner[s] # "open" \/ ~Busy("spill", s)
  <2>1. CASE Release(s)
    <3>1. Releasing(s)'
      BY <1>1, <2>1 DEF Release, Step, Releasing, TypeOK
    <3>2. ~Busy("spill", s)'
      BY <3>1 DEF Undisturbed
    <3> QED BY <1>2, <3>2 DEF Busy, Spilling
  <2>2. CASE ~Release(s)
    BY <2>2 DEF Owner, Mark, TakeChunks, FreeChunks, CloseFile, Purge, Drop, Step
  <2> QED BY <2>1, <2>2
<1>5. \A t \in Tasks : Spills(t) => home'[task[t].cur] = "memory"
  <2> SUFFICES ASSUME NEW t \in Tasks, Spills(t) PROVE home'[task[t].cur] = "memory"
    OBVIOUS
  <2>1. task[t].cur \in Cells /\ home[task[t].cur] = "memory" /\ Spilling(t)
    BY <1>1, SpillerCell DEF Spills, Spilling, SpillsOK
  <2>2. CASE FreeChunks(s)
    <3>1. ~Busy("spill", s)
      BY <1>1, <2>2 DEF FreeChunks, Step, SpillsOK
    <3> QED BY <1>3, <2>1, <3>1 DEF Busy
  <2>3. CASE home' = home
    BY <2>1, <2>3
  <2> QED BY <2>2, <2>3 DEF Owner, Release, Mark, TakeChunks, CloseFile, Purge, Drop, storeVars
<1>6. SpillsOK'
  <2>1. \A u \in Stores : owner'[u] # "open" => owner[u] # "open" \/ ~Busy("spill", u)
    BY <1>3, <1>4
  <2> QED BY <1>1, <1>2, <1>5, <2>1, SpillsFrame DEF Spilling, Spills
<1>7. CellsOK(s)'
  <2>0. CellsOK(s) /\ \A n \in 1 .. MaxChunks : /\ <<s, TRUE, n>> \in Cells /\ <<s, FALSE, n>> \in Cells
                                                /\ <<s, FALSE, n>>[1] = s /\ <<s, FALSE, n>>[2] = FALSE
                                                /\ <<s, TRUE, n>>[2] = TRUE
    BY SomeCell DEF ApartInv
  <2>1. CASE Release(s)
    <3>1. owner[s] = "open" /\ owner'[s] = "removed" /\ UNCHANGED <<count, home>>
      BY <1>1, <2>1 DEF Release, Step, storeVars, TypeOK
    <3> QED BY <2>0, <3>1 DEF CellsOK, Gone
  <2>2. CASE Mark(s)
    <3>1. owner[s] = "removed" /\ owner'[s] = "marked" /\ UNCHANGED <<count, home>>
      BY <1>1, <2>2 DEF Mark, Step, TypeOK
    <3> QED BY <2>0, <3>1 DEF CellsOK, Gone
  <2>3. CASE TakeChunks(s)
    <3>1. owner[s] = "marked" /\ owner'[s] = "taken" /\ UNCHANGED home
      BY <1>1, <2>3 DEF TakeChunks, Step, TypeOK
    <3> QED BY <2>0, <3>1 DEF CellsOK, Gone
  <2>4. CASE FreeChunks(s)
    <3>1. /\ owner[s] = "taken" /\ owner'[s] = "freed"
          /\ home' = [c \in Cells |-> IF c[1] = s /\ ~c[2] THEN "none" ELSE home[c]]
      BY <1>1, <2>4 DEF FreeChunks, Step, TypeOK
    <3>2. \A n \in 1 .. MaxChunks : home'[<<s, FALSE, n>>] = "none" /\ home'[<<s, TRUE, n>>] = home[<<s, TRUE, n>>]
      BY <2>0, <3>1
    <3> QED BY <2>0, <3>1, <3>2 DEF CellsOK, Gone
  <2>5. CASE CloseFile(s) \/ Purge(s) \/ Drop(s)
    <3>1. /\ owner[s] \in {"freed", "unfiled", "closed"} /\ owner'[s] \in {"unfiled", "closed", "dropped"}
          /\ UNCHANGED home
      BY <1>1, <2>5 DEF CloseFile, Purge, Drop, Step, storeVars, TypeOK
    <3> QED BY <2>0, <3>1 DEF CellsOK, Gone
  <2> QED BY <2>1, <2>2, <2>3, <2>4, <2>5 DEF Owner
<1>8. \A u \in Stores : u # s => CellsOK(u)'
  BY <1>3, CellsFrame DEF ApartInv
<1>9. \A u \in Stores : u # s => Stilled(u)'
  <2>1. \A u \in Stores : u # s => phase'[u] = phase[u] /\ taken'[u] = taken[u]
    BY <1>1 DEF Owner, Release, Mark, TakeChunks, FreeChunks, CloseFile, Purge, Drop, storeVars, TypeOK
  <2> QED BY <1>2, <1>3, <2>1, StilledFrame DEF ApartInv
<1>10. Stilled(s)'
  <2>0. Stilled(s) /\ s \in Tasks
    BY WriterIsTask DEF ApartInv
  <2>1. CASE Release(s)
    <3>1. owner[s] = "open" /\ owner'[s] = "removed" /\ UNCHANGED <<phase, taken>>
      BY <1>1, <2>1 DEF Release, Step, storeVars, TypeOK
    <3>2. ~Busy("write", s)'
      BY <3>1 DEF Undisturbed, Releasing
    <3>3. task[s].pc \in {"idle", "stopped"}
      BY <1>2, <3>2 DEF Busy
    <3> QED BY <1>2, <2>0, <3>1, <3>3 DEF Stilled, Early, Gone
  <2>2. CASE Mark(s)
    <3>1. owner[s] = "removed" /\ owner'[s] = "marked" /\ phase'[s] = "Released" /\ taken' = taken
      BY <1>1, <2>2 DEF Mark, Step, TypeOK
    <3> QED BY <1>2, <2>0, <3>1 DEF Stilled, Early, Gone
  <2>3. CASE TakeChunks(s)
    <3>1. owner[s] = "marked" /\ owner'[s] = "taken" /\ taken'[s] = TRUE /\ phase' = phase
      BY <1>1, <2>3 DEF TakeChunks, Step, TypeOK
    <3> QED BY <1>2, <2>0, <3>1 DEF Stilled, Early, Gone
  <2>4. CASE FreeChunks(s) \/ CloseFile(s) \/ Purge(s) \/ Drop(s)
    <3>1. /\ owner[s] \in {"taken", "freed", "unfiled", "closed"}
          /\ owner'[s] \in {"freed", "unfiled", "closed", "dropped"} /\ UNCHANGED <<phase, taken>>
      BY <1>1, <2>4 DEF FreeChunks, CloseFile, Purge, Drop, Step, storeVars, TypeOK
    <3> QED BY <1>2, <2>0, <3>1 DEF Stilled, Early, Gone
  <2> QED BY <2>1, <2>2, <2>3, <2>4 DEF Owner
<1> QED BY <1>1, <1>6, <1>7, <1>8, <1>9, <1>10 DEF ApartInv

LEMMA ApartInit == Init => ApartInv
<1> SUFFICES ASSUME Init PROVE ApartInv
  OBVIOUS
<1>1. RowsInv
  BY RowsInit
<1>2. SpillsOK
  BY DEF Init, SpillsOK, Spills, Busy, Spilling, NoTask
<1>3. \A s \in Stores : CellsOK(s)
  BY SomeCell DEF Init, CellsOK
<1>4. \A s \in Stores : Stilled(s)
  BY WriterIsTask DEF Init, Stilled, Early, Gone, NoTask
<1> QED BY <1>1, <1>2, <1>3, <1>4 DEF ApartInv

LEMMA ApartNext == ApartInv /\ Undisturbed' /\ [Next]_vars => ApartInv'
<1> SUFFICES ASSUME ApartInv, Undisturbed', [Next]_vars PROVE ApartInv'
  OBVIOUS
<1>1. CASE UNCHANGED vars
  <2>1. RowsInv'
    BY <1>1, RowsNext DEF ApartInv
  <2>2. SpillsOK'
    BY <1>1 DEF vars, ApartInv, SpillsOK, Spills, Busy, Spilling
  <2>3. \A s \in Stores : CellsOK(s)'
    BY <1>1 DEF vars, ApartInv, CellsOK, Gone
  <2>4. \A s \in Stores : Stilled(s)'
    BY <1>1 DEF vars, ApartInv, Stilled, Early, Gone
  <2> QED BY <2>1, <2>2, <2>3, <2>4 DEF ApartInv
<1> QED BY <1>1, EvictApart, WriterApart, ReaderApart, OwnerApart DEF Next

-----------------------------------------------------------------------------
(* The sum itself.                                                         *)

\* The chunks in memory, the tasks with a charge that nothing holds yet, and the tasks that still
\* have to give back what they moved to disk.
Mem == {c \in Cells : home[c] = "memory"}
Charged(t) == task[t].pc \in {"entry", "trimall", "fit", "insert"} \cup EvictPCs
Pending == {t \in Tasks : Charged(t)}
Giving == {t \in Tasks : task[t].pc = "give"}

Sum == resident = Cardinality(Mem) + Cardinality(decoded) + Cardinality(Pending) + Cardinality(Giving)

AccInv == ApartInv /\ Sum

LEMMA Parts ==
  ASSUME TypeOK
  PROVE  /\ IsFiniteSet(Mem) /\ Cardinality(Mem) \in Nat
         /\ IsFiniteSet(decoded) /\ Cardinality(decoded) \in Nat
         /\ IsFiniteSet(Pending) /\ Cardinality(Pending) \in Nat
         /\ IsFiniteSet(Giving) /\ Cardinality(Giving) \in Nat
         /\ resident \in Nat
<1>1. Mem \subseteq Cells /\ decoded \subseteq Keys /\ Pending \subseteq Tasks /\ Giving \subseteq Tasks
  BY DEF TypeOK, Mem, Pending, Giving
<1> QED BY <1>1, FiniteParts, FS_Subset, FS_CardinalityType DEF TypeOK

\* What the move of one task adds to the tasks that have a charge, and that have to give one back.
LEMMA Owing ==
  ASSUME TypeOK, NEW t \in Tasks, \A u \in Tasks : u # t => task'[u] = task[u]
  PROVE  /\ Cardinality(Pending') \in Nat /\ Cardinality(Giving') \in Nat
         /\ Cardinality(Pending') = Cardinality(Pending) + (IF Charged(t)' THEN 1 ELSE 0)
                                                        - (IF Charged(t) THEN 1 ELSE 0)
         /\ Cardinality(Giving') = Cardinality(Giving) + (IF task'[t].pc = "give" THEN 1 ELSE 0)
                                                      - (IF task[t].pc = "give" THEN 1 ELSE 0)
<1>1. Pending' \ {t} = Pending \ {t} /\ (t \in Pending <=> Charged(t)) /\ (t \in Pending' <=> Charged(t)')
  BY DEF Pending, Charged
<1>2. Giving' \ {t} = Giving \ {t} /\ (t \in Giving <=> task[t].pc = "give")
      /\ (t \in Giving' <=> task'[t].pc = "give")
  BY DEF Giving
<1>3. IsFiniteSet(Pending) /\ IsFiniteSet(Giving)
  BY Parts
<1>4. /\ Cardinality(Pending') \in Nat
      /\ Cardinality(Pending') = Cardinality(Pending) + (IF t \in Pending' THEN 1 ELSE 0)
                                                     - (IF t \in Pending THEN 1 ELSE 0)
  BY <1>1, <1>3, OneApart
<1>5. /\ Cardinality(Giving') \in Nat
      /\ Cardinality(Giving') = Cardinality(Giving) + (IF t \in Giving' THEN 1 ELSE 0)
                                                   - (IF t \in Giving THEN 1 ELSE 0)
  BY <1>2, <1>3, OneApart
<1> QED BY <1>1, <1>2, <1>4, <1>5

\* A task that has a charge, or has one to give back, is counted.
LEMMA Owes ==
  ASSUME TypeOK, NEW t \in Tasks
  PROVE  /\ Charged(t) => Cardinality(Pending) >= 1
         /\ task[t].pc = "give" => Cardinality(Giving) >= 1
<1>1. Charged(t) => Pending # {}
  BY DEF Pending
<1>2. task[t].pc = "give" => Giving # {}
  BY DEF Giving
<1> QED BY <1>1, <1>2, Parts, FS_EmptySet

\* The sum after a move of one task that leaves the chunks and the cache alone.
LEMMA SumMoves ==
  ASSUME TypeOK, Sum, NEW t \in Tasks, \A u \in Tasks : u # t => task'[u] = task[u],
         UNCHANGED <<home, decoded>>,
         resident' = resident + (IF Charged(t)' THEN 1 ELSE 0) - (IF Charged(t) THEN 1 ELSE 0)
                              + (IF task'[t].pc = "give" THEN 1 ELSE 0)
                              - (IF task[t].pc = "give" THEN 1 ELSE 0)
  PROVE  Sum'
<1>1. Cardinality(Mem') = Cardinality(Mem)
  BY DEF Mem
<1>2. UNCHANGED decoded
  OBVIOUS
<1> QED BY <1>1, <1>2, Parts, Owing DEF Sum

\* Taking a part out of a finite set.
LEMMA Removed ==
  ASSUME NEW S, IsFiniteSet(S), NEW M \in SUBSET S
  PROVE  /\ Cardinality(S) \in Nat /\ Cardinality(M) \in Nat /\ Cardinality(M) <= Cardinality(S)
         /\ Cardinality(S \ M) = Cardinality(S) - Cardinality(M)
<1>1. S \cap M = M
  OBVIOUS
<1>2. Cardinality(S \ M) = Cardinality(S) - Cardinality(S \cap M)
  BY FS_Difference
<1>3. IsFiniteSet(M) /\ Cardinality(M) <= Cardinality(S)
  BY FS_Subset
<1>4. Cardinality(S) \in Nat /\ Cardinality(M) \in Nat
  BY <1>3, FS_CardinalityType
<1> QED BY <1>1, <1>2, <1>3, <1>4

LEMMA ChargeAccount ==
  ASSUME TypeInv, Sum, NEW t \in Tasks, Charge(t)
  PROVE  Sum'
<1>1. PICK pc : Goto(t, pc) /\ pc \in {"entry", "fit", "trim", "trimall"}
  BY DEF Charge, Granted
<1>2. task'[t].pc = pc /\ \A u \in Tasks : u # t => task'[u] = task[u]
  BY <1>1, Went
<1>3. task[t].pc = "charge" /\ resident' = resident + 1 /\ UNCHANGED <<home, decoded>>
  BY DEF Charge, storeVars
<1>4. Charged(t)' /\ ~Charged(t) /\ task'[t].pc # "give" /\ task[t].pc # "give"
  BY <1>1, <1>2, <1>3 DEF Charged, EvictPCs
<1>5. TypeOK /\ resident \in Nat
  BY DEF TypeInv, TypeOK
<1> QED BY <1>2, <1>3, <1>4, <1>5, SumMoves

LEMMA TrimAllAccount ==
  ASSUME TypeInv, Sum, NEW t \in Readers, TrimAll(t)
  PROVE  Sum'
<1>1. TypeOK /\ t \in Tasks /\ task[t].pc = "trimall" /\ decoded' = {} /\ home' = home
  BY ReaderIsTask DEF TypeInv, TrimAll, storeVars
<1>2. PICK pc : Goto(t, pc) /\ pc \in {"fit", "trim"}
  BY DEF TrimAll
<1>3. task'[t].pc = pc /\ \A u \in Tasks : u # t => task'[u] = task[u]
  BY <1>1, <1>2, Went
<1>4. Charged(t)' /\ Charged(t) /\ task'[t].pc # "give" /\ task[t].pc # "give"
  BY <1>1, <1>2, <1>3 DEF Charged, EvictPCs
<1>5. Cardinality(Mem') = Cardinality(Mem) /\ Cardinality(decoded') = 0
  BY <1>1, FS_EmptySet DEF Mem
<1>6. resident' = resident - Cardinality(decoded)
  <2>1. Cardinality(decoded) <= resident
    BY <1>1, Parts DEF Sum
  <2> QED BY <1>1, <2>1, Parts, UnchargedType DEF TrimAll
<1> QED BY <1>1, <1>3, <1>4, <1>5, <1>6, Parts, Owing DEF Sum

LEMMA EvictAccount ==
  ASSUME ApartInv, Sum, NEW t \in Tasks,
         \/ Trim(t) \/ Scan(t) \/ Pick(t) \/ SpillWrite(t) \/ SpillFails(t) \/ SpillSwap(t)
         \/ SpillGive(t)
  PROVE  Sum'
<1>1. TypeInv /\ TypeOK /\ resident \in Nat
  BY DEF ApartInv, RowsInv, TypeInv, TypeOK
<1>2. Charged(t) /\ Charged(t)' /\ \A u \in Tasks : u # t => task'[u] = task[u]
  BY <1>1, EvictMoves DEF Charged
<1>3. CASE Trim(t)
  <2>1. PICK n \in Nat : /\ n <= Cardinality(decoded) /\ resident' = Uncharged(n)
                         /\ Cardinality(decoded') = Cardinality(decoded) - n
    BY <1>1, <1>3, TrimFrees
  <2>2. n <= resident
    BY <1>1, <2>1, Parts DEF Sum
  <2>3. resident' = resident - n
    BY <1>1, <2>1, <2>2, UnchargedType
  <2>4. Cardinality(Mem') = Cardinality(Mem)
    BY <1>3 DEF Mem, Trim, storeVars
  <2>5. task[t].pc # "give" /\ task'[t].pc # "give"
    BY <1>1, <1>3, Went DEF Trim
  <2> QED BY <1>1, <1>2, <2>1, <2>3, <2>4, <2>5, Parts, Owing DEF Sum
<1>4. CASE Scan(t) \/ Pick(t) \/ SpillWrite(t) \/ SpillFails(t)
  <2>1. UNCHANGED <<resident, decoded, home>> /\ task[t].pc # "give"
    BY <1>4 DEF Scan, Pick, SpillWrite, SpillFails, budgetVars, storeVars
  <2>2. task'[t].pc # "give"
    <3>1. CASE Goto(t, "swap")
      BY <1>1, <3>1, Went
    <3>2. CASE \E e : LeaveChunk(t, e)
      BY <1>1, <3>2, Left
    <3>3. CASE Scan(t) \/ Pick(t)
      BY <1>1, <3>3, Scanned, Picked
    <3> QED BY <1>4, <3>1, <3>2, <3>3 DEF SpillWrite, SpillFails
  <2> QED BY <1>1, <1>2, <2>1, <2>2, SumMoves
<1>5. CASE SpillSwap(t)
  <2> DEFINE c == task[t].cur
  <2>1. task[t].pc = "swap" /\ c \in Cells /\ home[c] = "memory"
    BY <1>1, <1>5, SpillerCell DEF SpillSwap, Spilling, Spills, ApartInv, SpillsOK
  <2>2. home' = [home EXCEPT ![c] = "disk"] /\ UNCHANGED <<resident, decoded>> /\ Goto(t, "give")
    BY <1>5, <2>1 DEF SpillSwap, budgetVars
  <2>3. home \in [Cells -> Homes]
    BY <1>1 DEF TypeOK, Homes
  <2> HIDE DEF c
  <2>4. c \in Mem /\ c \notin Mem' /\ Mem' \ {c} = Mem \ {c}
    BY <2>1, <2>2, <2>3 DEF Mem
  <2>5. Cardinality(Mem') = Cardinality(Mem) - 1
    BY <1>1, <2>4, Parts, OneApart
  <2>6. task'[t].pc = "give"
    BY <1>1, <2>2, Went
  <2> QED BY <1>1, <1>2, <2>1, <2>2, <2>5, <2>6, Parts, Owing DEF Sum
<1>6. CASE SpillGive(t)
  <2>1. task[t].pc = "give" /\ resident' = Uncharged(1) /\ UNCHANGED <<home, decoded>>
    BY <1>6 DEF SpillGive, storeVars
  <2>2. resident >= 1
    BY <1>1, <2>1, Parts, Owes DEF Sum
  <2>3. resident' = resident - 1
    BY <1>1, <2>1, <2>2, UnchargedType
  <2>4. task'[t].pc # "give"
    BY <1>1, <1>6, Left DEF SpillGive
  <2> QED BY <1>1, <1>2, <2>1, <2>3, <2>4, SumMoves
<1> QED BY <1>3, <1>4, <1>5, <1>6

LEMMA EvictEndsAccount ==
  ASSUME TypeInv, Sum, NEW t \in Tasks, EvictEnds(t)
  PROVE  Sum'
<1>1. TypeOK /\ resident \in Nat /\ task[t].pc = "next" /\ UNCHANGED <<home, decoded>>
  BY DEF TypeInv, TypeOK, EvictEnds, storeVars
<1>2. /\ \A u \in Tasks : u # t => task'[u] = task[u]
      /\ task'[t].pc = IF ~Fits(t) THEN Refused(t)
                       ELSE IF task[t].for = "charge" THEN Granted(t) ELSE "insert"
  BY EvictEndsMoves
<1>3. Charged(t) /\ task[t].pc # "give" /\ task'[t].pc # "give" /\ (Charged(t)' <=> Fits(t))
  BY <1>1, <1>2 DEF Charged, EvictPCs, Refused, Granted
<1>4. resident >= 1
  BY <1>1, <1>3, Parts, Owes DEF Sum
<1>5. resident' = IF Fits(t) THEN resident ELSE resident - 1
  BY <1>1, <1>4 DEF EvictEnds, ChargeBack, Uncharged
<1> QED BY <1>1, <1>2, <1>3, <1>5, SumMoves

LEMMA WriterAccount ==
  ASSUME ApartInv, Sum, NEW s \in Stores,
         \/ Push(s) \/ LoadPhase(s) \/ StorePhase(s) \/ Publish(s) \/ Finish(s) \/ StoreFinished(s)
  PROVE  Sum'
<1>1. TypeInv /\ TypeOK /\ resident \in Nat /\ s \in Tasks /\ Stilled(s)
  BY WriterIsTask DEF ApartInv, RowsInv, TypeInv, TypeOK
<1>2. UNCHANGED <<resident, decoded>>
  BY DEF Push, LoadPhase, StorePhase, Publish, PublishEntry, PublishRows, Finish, StoreFinished,
         budgetVars
<1>3. CASE PublishEntry(s)
  <2> DEFINE c == <<s, FALSE, count[s] + 1>>
  <2>1. task'[s].pc = "rows" /\ task[s].pc = "entry" /\ \A u \in Tasks : u # s => task'[u] = task[u]
    BY <1>1, <1>3, Went DEF PublishEntry
  <2>2. taken[s] = FALSE /\ ~Gone(s)
    BY <1>1, <2>1 DEF Stilled, Gone, TypeOK
  <2>3. count[s] + 1 \in 1 .. MaxChunks
    <3>1. rows[s] < MaxChunks /\ count[s] <= rows[s]
      <4>1. task[s].pc \in Pushing
        BY <2>1 DEF Pushing
      <4>2. rows[s] < MaxChunks /\ count[s] <= rows[s] + IF task[s].pc = "rows" THEN 1 ELSE 0
        BY <1>1, <4>1 DEF TypeInv, Bounds
      <4>3. count[s] \in Nat /\ rows[s] \in Nat
        BY <1>1, StoreAssumption DEF TypeOK
      <4> QED BY <2>1, <4>2, <4>3
    <3>2. count[s] \in Nat /\ rows[s] \in Nat /\ MaxChunks \in Nat
      BY <1>1, StoreAssumption DEF TypeOK
    <3> QED BY <3>1, <3>2
  <2>4. c \in Cells /\ home[c] = "none"
    <3>1. count[s] \in Nat
      BY <1>1, StoreAssumption DEF TypeOK
    <3>2. count[s] + 1 > count[s]
      BY <3>1
    <3>3. CellsOK(s)
      BY DEF ApartInv
    <3>4. home[<<s, FALSE, count[s] + 1>>] = "none"
      BY <2>2, <2>3, <3>2, <3>3 DEF CellsOK
    <3> QED BY <2>3, <3>4, SomeCell
  <2>5. home' = [home EXCEPT ![c] = "memory"] /\ home \in [Cells -> Homes]
    BY <1>1, <1>3, <2>2 DEF PublishEntry, TypeOK, Homes
  <2> HIDE DEF c
  <2>6. c \notin Mem /\ c \in Mem' /\ Mem' \ {c} = Mem \ {c}
    BY <2>4, <2>5 DEF Mem
  <2>7. Cardinality(Mem') = Cardinality(Mem) + 1
    BY <1>1, <2>6, Parts, OneApart
  <2>8. Charged(s) /\ ~Charged(s)'
    BY <2>1 DEF Charged, EvictPCs
  <2> QED BY <1>1, <1>2, <2>1, <2>7, <2>8, Parts, Owing DEF Sum
<1>4. CASE ~PublishEntry(s)
  <2>1. home' = home
    BY <1>4 DEF Push, LoadPhase, StorePhase, Publish, PublishRows, Finish, StoreFinished, storeVars
  <2>2. PICK pc : Goto(s, pc) /\ pc \in {"stopped", "load", "store", "charge", "idle", "finish"}
    BY <1>4 DEF Push, LoadPhase, StorePhase, Publish, PublishRows, Finish, StoreFinished
  <2>3. task'[s].pc = pc /\ \A u \in Tasks : u # s => task'[u] = task[u]
    BY <1>1, <2>2, Went
  <2>4. task[s].pc \in {"idle", "load", "store", "rows", "abort", "finish"}
    BY <1>4 DEF Push, LoadPhase, StorePhase, Publish, PublishRows, Finish, StoreFinished
  <2>5. ~Charged(s) /\ ~Charged(s)' /\ task'[s].pc # "give" /\ task[s].pc # "give"
    BY <2>2, <2>3, <2>4 DEF Charged, EvictPCs
  <2> QED BY <1>1, <1>2, <2>1, <2>3, <2>5, SumMoves
<1> QED BY <1>3, <1>4

LEMMA ReaderAccount ==
  ASSUME TypeInv, Sum, NEW t \in Readers,
         Read(t) \/ ReadDone(t) \/ Lookup(t) \/ Fetch(t) \/ Fit(t) \/ Insert(t)
  PROVE  Sum'
<1>1. TypeOK /\ resident \in Nat /\ t \in Tasks /\ RoleOf(t, task[t]) /\ home' = home
      /\ task \in [Tasks -> Task] /\ task[t] \in Task
  BY ReaderIsTask DEF TypeInv, TypeOK, Roles, Read, ReadDone, Lookup, Fetch, Fit, Insert, storeVars
<1>2. task'[t].pc \notin {"write", "swap", "give"} /\ \A u \in Tasks : u # t => task'[u] = task[u]
  BY ReaderMoves DEF Reader
<1>3. task[t].pc # "give"
  BY DEF Read, ReadDone, Lookup, Fetch, Fit, Insert
<1>4. CASE Insert(t)
  <2> DEFINE k == task[t].key
             all == decoded \cup {k}
  <2>1. k \in Keys /\ all \subseteq Keys
    BY <1>1, <1>4 DEF Insert, RoleOf, TypeOK
  <2>2. PICK out \in SUBSET all : /\ decoded' = all \ out
                                  /\ resident' = Uncharged(Replaced(k) + Cardinality(out))
    BY <1>4 DEF Insert
  <2>3. Charged(t) /\ ~Charged(t)'
    <3>1. task'[t].pc = "idle"
      BY <1>1, <1>4 DEF Insert, NoTask
    <3> QED BY <1>4, <3>1 DEF Insert, Charged, EvictPCs
  <2> DEFINE more == IF k \in decoded THEN 0 ELSE 1
  <2>4. IsFiniteSet(all) /\ Cardinality(all) = Cardinality(decoded) + more
    <3>1. IsFiniteSet(decoded) /\ all \ {k} = decoded \ {k} /\ k \in all
      BY <1>1, Parts
    <3> HIDE DEF all, k
    <3>2. /\ IsFiniteSet(all) /\ Cardinality(decoded) \in Nat
          /\ Cardinality(all) = Cardinality(decoded) + (IF k \in all THEN 1 ELSE 0)
                                                    - (IF k \in decoded THEN 1 ELSE 0)
      BY <3>1, OneApart
    <3> QED BY <3>1, <3>2
  <2>5. Replaced(k) = 1 - more
    <3>1. CASE k \in decoded
      <4>1. decoded \cap {k} = {k}
        BY <3>1
      <4> QED BY <3>1, <4>1, FS_Singleton DEF Replaced
    <3>2. CASE k \notin decoded
      <4>1. decoded \cap {k} = {}
        BY <3>2
      <4> QED BY <3>2, <4>1, FS_EmptySet DEF Replaced
    <3> QED BY <3>1, <3>2
  <2>6. /\ Cardinality(out) \in Nat /\ Cardinality(out) <= Cardinality(all)
        /\ Cardinality(all \ out) = Cardinality(all) - Cardinality(out)
    BY <2>2, <2>4, Removed
  <2>7. more \in {0, 1}
    OBVIOUS
  <2> HIDE DEF more, all, k
  <2>8. Replaced(k) + Cardinality(out) \in Nat /\ Replaced(k) + Cardinality(out) <= resident
    BY <1>1, <2>3, <2>4, <2>5, <2>6, <2>7, Parts, Owes DEF Sum
  <2>9. resident' = resident - (Replaced(k) + Cardinality(out))
    BY <1>1, <2>2, <2>8, UnchargedType
  <2>10. Cardinality(Mem') = Cardinality(Mem)
    BY <1>1 DEF Mem
  <2>11. Cardinality(decoded') = Cardinality(decoded) + more - Cardinality(out)
    <3>1. Cardinality(decoded') = Cardinality(all \ out)
      BY <2>2
    <3> QED BY <1>1, <2>4, <2>6, <2>7, <3>1, Parts
  <2> QED BY <1>1, <1>2, <1>3, <2>3, <2>5, <2>6, <2>7, <2>9, <2>10, <2>11, Parts, Owing DEF Sum
<1>5. CASE Fit(t)
  <2>1. UNCHANGED <<resident, decoded>>
    BY <1>5 DEF Fit, budgetVars
  <2>2. task'[t].pc \in {"trim", "insert"}
    BY <1>1, <1>5 DEF Fit, Task
  <2>3. Charged(t) /\ Charged(t)'
    BY <1>5, <2>2 DEF Fit, Charged, EvictPCs
  <2> QED BY <1>1, <1>2, <1>3, <2>1, <2>3, SumMoves
<1>6. CASE Read(t) \/ ReadDone(t) \/ Lookup(t) \/ Fetch(t)
  <2>1. budgetVars' = budgetVars
    BY <1>6 DEF Read, ReadDone, Lookup, Fetch
  <2>2. task[t].pc \in {"idle", "hold", "lookup", "fetch"}
    BY <1>6 DEF Read, ReadDone, Lookup, Fetch
  <2>3. task'[t].pc \in {"idle", "hold", "lookup", "fetch", "charge"}
    <3>1. CASE Read(t)
      <4>1. PICK k \in Keys : task' = [task EXCEPT ![t] = [@ EXCEPT
                     !.key = k,
                     !.pc = IF home[CellAt(k)] = "memory" THEN "hold" ELSE "lookup",
                     !.cur = IF home[CellAt(k)] = "memory" THEN CellAt(k) ELSE None]]
        BY <3>1 DEF Read
      <4> QED BY <1>1, <4>1 DEF Task
    <3>2. CASE task' = [task EXCEPT ![t] = NoTask]
      BY <1>1, <3>2 DEF NoTask
    <3>3. CASE \E pc \in {"fetch", "charge"} : task' = [task EXCEPT ![t] = [task[t] EXCEPT !.pc = pc]]
      BY <1>1, <3>3 DEF Task
    <3> QED BY <1>6, <3>1, <3>2, <3>3 DEF ReadDone, Lookup, Fetch
  <2>4. ~Charged(t) /\ ~Charged(t)'
    BY <2>2, <2>3 DEF Charged, EvictPCs
  <2>5. UNCHANGED <<resident, decoded>>
    BY <2>1 DEF budgetVars
  <2> QED BY <1>1, <1>2, <1>3, <2>4, <2>5, SumMoves
<1> QED BY <1>4, <1>5, <1>6

LEMMA OwnerAccount ==
  ASSUME ApartInv, Sum, NEW s \in Stores, Owner(s)
  PROVE  Sum'
<1>1. TypeOK /\ resident \in Nat
  BY DEF ApartInv, RowsInv, TypeInv, TypeOK
<1>2. task' = task
  BY DEF Owner, Release, Mark, TakeChunks, FreeChunks, CloseFile, Purge, Drop
<1>3. Cardinality(Pending') = Cardinality(Pending) /\ Cardinality(Giving') = Cardinality(Giving)
  BY <1>2 DEF Pending, Giving, Charged
<1>4. CASE FreeChunks(s)
  <2> DEFINE mine == {c \in Cells : c[1] = s /\ ~c[2] /\ home[c] = "memory"}
  <2>1. /\ resident' = Uncharged(Cardinality(mine)) /\ decoded' = decoded
        /\ home' = [c \in Cells |-> IF c[1] = s /\ ~c[2] THEN "none" ELSE home[c]]
    BY <1>4 DEF FreeChunks
  <2>2. Mem' = Mem \ mine /\ Mem \cap mine = mine /\ mine \subseteq Mem
    BY <2>1 DEF Mem
  <2> HIDE DEF mine
  <2>3. /\ Cardinality(Mem') = Cardinality(Mem) - Cardinality(mine)
        /\ Cardinality(mine) \in Nat /\ Cardinality(mine) <= Cardinality(Mem)
    BY <1>1, <2>2, Parts, Removed
  <2>4. Cardinality(mine) <= resident
    BY <1>1, <2>3, Parts DEF Sum
  <2>5. resident' = resident - Cardinality(mine)
    BY <1>1, <2>1, <2>3, <2>4, UnchargedType
  <2> QED BY <1>1, <1>3, <2>1, <2>3, <2>5, Parts DEF Sum
<1>5. CASE Purge(s) \/ Drop(s)
  <2> DEFINE mine == EntriesOf(s)
  <2>1. resident' = Uncharged(Cardinality(mine)) /\ decoded' = decoded \ mine /\ home' = home
    BY <1>5 DEF Purge, Drop, storeVars
  <2>2. decoded \cap mine = mine /\ mine \subseteq decoded
    BY DEF EntriesOf
  <2> HIDE DEF mine
  <2>3. /\ Cardinality(decoded') = Cardinality(decoded) - Cardinality(mine)
        /\ Cardinality(mine) \in Nat /\ Cardinality(mine) <= Cardinality(decoded)
    BY <1>1, <2>1, <2>2, Parts, Removed
  <2>4. Cardinality(mine) <= resident
    BY <1>1, <2>3, Parts DEF Sum
  <2>5. resident' = resident - Cardinality(mine)
    BY <1>1, <2>1, <2>3, <2>4, UnchargedType
  <2>6. Cardinality(Mem') = Cardinality(Mem)
    BY <2>1 DEF Mem
  <2> QED BY <1>1, <1>3, <2>3, <2>5, <2>6, Parts DEF Sum
<1>6. CASE Release(s) \/ Mark(s) \/ TakeChunks(s) \/ CloseFile(s)
  <2>1. UNCHANGED <<resident, decoded, home>>
    BY <1>6 DEF Release, Mark, TakeChunks, CloseFile, budgetVars, storeVars
  <2>2. Cardinality(Mem') = Cardinality(Mem) /\ Cardinality(decoded') = Cardinality(decoded)
    BY <2>1 DEF Mem
  <2> QED BY <1>3, <2>1, <2>2 DEF Sum
<1> QED BY <1>4, <1>5, <1>6 DEF Owner

LEMMA AccInit == Init => AccInv
<1> SUFFICES ASSUME Init PROVE AccInv
  OBVIOUS
<1>1. ApartInv
  BY ApartInit
<1>2. Mem = {} /\ decoded = {} /\ Pending = {} /\ Giving = {} /\ resident = 0
  BY DEF Init, Mem, Pending, Giving, Charged, EvictPCs, NoTask
<1>3. Sum
  BY <1>2, FS_EmptySet DEF Sum
<1> QED BY <1>1, <1>3 DEF AccInv

LEMMA AccNext == AccInv /\ Undisturbed' /\ [Next]_vars => AccInv'
<1> SUFFICES ASSUME ApartInv, Sum, [Next]_vars PROVE Sum'
  BY ApartNext DEF AccInv
<1>0. TypeInv
  BY DEF ApartInv, RowsInv
<1>1. CASE UNCHANGED vars
  BY <1>1 DEF vars, Sum, Mem, Pending, Giving, Charged
<1>2. ASSUME NEW s \in Stores, Writer(s) PROVE Sum'
  BY <1>0, <1>2, WriterAccount, ChargeAccount, WriterIsTask DEF Writer
<1>3. ASSUME NEW r \in Readers, Reader(r) PROVE Sum'
  BY <1>0, <1>3, ReaderAccount, ChargeAccount, TrimAllAccount, ReaderIsTask DEF Reader
<1>4. ASSUME NEW t \in Tasks, Evict(t) PROVE Sum'
  BY <1>0, <1>4, EvictAccount, EvictEndsAccount DEF Evict
<1> QED BY <1>1, <1>2, <1>3, <1>4, OwnerAccount DEF Next

\* When no thread is at work the counter is exactly what the open stores and the decoded cache
\* hold: the saturating subtractions never hide a double return (registry.rs charge, uncharge,
\* store.rs spill_one, release), in every behaviour in which no push and no spill of a store meets
\* its release.  The code lets them meet, and then the counter is wrong (MCStoreDouble.cfg).
THEOREM AccountsBalance == Spec /\ []Undisturbed => []AccountsTrue
<1>1. AccInv => AccountsTrue
  <2> SUFFICES ASSUME AccInv, AtRest
               PROVE  resident = Cardinality({c \in Cells : home[c] = "memory" /\ owner[c[1]] = "open"})
                                 + Cardinality(decoded)
    BY DEF AccountsTrue
  <2>1. TypeOK
    BY DEF AccInv, ApartInv, RowsInv, TypeInv
  <2>2. Pending = {} /\ Giving = {}
    BY DEF AtRest, Pending, Giving, Charged, EvictPCs
  <2>3. \A c \in Mem : owner[c[1]] = "open"
    <3> SUFFICES ASSUME NEW c \in Cells, home[c] = "memory", owner[c[1]] # "open" PROVE FALSE
      BY DEF Mem
    <3>1. c[1] \in Stores /\ c[2] \in BOOLEAN /\ c[3] \in 1 .. MaxChunks /\ c = <<c[1], c[2], c[3]>>
      BY CellParts
    <3>2. owner[c[1]] \in {"closed", "dropped"}
      BY <2>1, <3>1 DEF AtRest, Releasing
    <3>3. CellsOK(c[1])
      BY <3>1 DEF AccInv, ApartInv
    <3>4. home[<<c[1], TRUE, c[3]>>] = "none" /\ home[<<c[1], FALSE, c[3]>>] = "none"
      BY <3>1, <3>2, <3>3 DEF CellsOK
    <3>5. c = <<c[1], TRUE, c[3]>> \/ c = <<c[1], FALSE, c[3]>>
      BY <3>1
    <3> QED BY <3>4, <3>5
  <2>4. {c \in Cells : home[c] = "memory" /\ owner[c[1]] = "open"} = Mem
    BY <2>3 DEF Mem
  <2>5. Cardinality(Pending) = 0 /\ Cardinality(Giving) = 0
    BY <2>2, FS_EmptySet
  <2>6. resident = Cardinality(Mem) + Cardinality(decoded)
    BY <2>1, <2>5, Parts DEF AccInv, Sum
  <2> QED BY <2>4, <2>6
<1>2. Init => AccInv
  BY AccInit
<1>3. AccInv /\ Undisturbed' /\ [Next]_vars => AccInv'
  BY AccNext
<1> QED BY <1>1, <1>2, <1>3, PTL DEF Spec

-----------------------------------------------------------------------------
(* No charge is lost, whatever meets a release.                            *)

\* The table is taken once, and the place where the next chunk goes is free.
FreshOK(s) ==
    /\ taken[s] <=> Gone(s)
    /\ ~taken[s] => \A n \in 1 .. MaxChunks : home[<<s, TRUE, n>>] = "none"
    /\ \A n \in 1 .. MaxChunks : n > count[s] => home[<<s, taken[s], n>>] = "none"

\* The counter is never above what is in memory and what a thread still holds a charge for.
Covered == resident <= Cardinality(Mem) + Cardinality(decoded) + Cardinality(Pending) + Cardinality(Giving)

CoverInv == TypeInv /\ (\A s \in Stores : FreshOK(s)) /\ Covered

LEMMA UnchargedCases ==
  ASSUME resident \in Nat, NEW n \in Nat
  PROVE  /\ Uncharged(n) \in Nat
         /\ Uncharged(n) = 0 \/ (n <= resident /\ Uncharged(n) = resident - n)
  BY DEF Uncharged

\* A move of one task, by what it adds to each part.
LEMMA CoverMoves ==
  ASSUME TypeOK, Covered, NEW t \in Tasks, \A u \in Tasks : u # t => task'[u] = task[u],
         decoded' \subseteq Keys, resident' \in Nat,
         \/ resident' = 0
         \/ resident' <= resident + Cardinality(Mem') - Cardinality(Mem)
                          + Cardinality(decoded') - Cardinality(decoded)
                          + (IF Charged(t)' THEN 1 ELSE 0) - (IF Charged(t) THEN 1 ELSE 0)
                          + (IF task'[t].pc = "give" THEN 1 ELSE 0)
                          - (IF task[t].pc = "give" THEN 1 ELSE 0)
  PROVE  Covered'
<1>1. Cardinality(decoded') \in Nat
  BY Counted
<1>2. Cardinality(Mem') \in Nat
  <2>1. Mem' \subseteq Cells
    BY DEF Mem
  <2> QED BY <2>1, FiniteParts, FS_Subset, FS_CardinalityType
<1> QED BY <1>1, <1>2, Parts, Owing DEF Covered

LEMMA EvictCovered ==
  ASSUME TypeInv, Covered, NEW t \in Tasks, Evict(t)
  PROVE  Covered'
<1>1. TypeOK /\ resident \in Nat /\ decoded \subseteq Keys /\ home \in [Cells -> Homes]
  BY DEF TypeInv, TypeOK, Homes
<1>2. \A u \in Tasks : u # t => task'[u] = task[u]
  BY <1>1, EvictMoves, EvictEndsMoves DEF Evict
<1>3. CASE EvictEnds(t)
  <2>1. task[t].pc = "next" /\ UNCHANGED <<home, decoded>>
    BY <1>3 DEF EvictEnds, storeVars
  <2>2. task'[t].pc = IF ~Fits(t) THEN Refused(t)
                      ELSE IF task[t].for = "charge" THEN Granted(t) ELSE "insert"
    BY <1>3, EvictEndsMoves
  <2>3. Charged(t) /\ task[t].pc # "give" /\ task'[t].pc # "give" /\ (Charged(t)' <=> Fits(t))
    BY <2>1, <2>2 DEF Charged, EvictPCs, Refused, Granted
  <2>4. resident' \in Nat /\ (Fits(t) => resident' = resident)
        /\ (~Fits(t) => resident' = 0 \/ resident' = resident - 1)
    BY <1>1, <1>3, UnchargedCases DEF EvictEnds, ChargeBack
  <2>5. Cardinality(Mem') = Cardinality(Mem) /\ Cardinality(decoded') = Cardinality(decoded)
    BY <2>1 DEF Mem
  <2>6. decoded' \subseteq Keys
    BY <1>1, <2>1
  <2> QED BY <1>1, <1>2, <2>3, <2>4, <2>5, <2>6, Parts, CoverMoves
<1>4. CASE ~EvictEnds(t)
  <2>1. Charged(t) /\ Charged(t)'
    BY <1>4, EvictMoves DEF Evict, Charged
  <2>2. CASE Trim(t)
    <3>1. PICK n \in Nat : /\ resident' = Uncharged(n) /\ decoded' \subseteq decoded
                           /\ Cardinality(decoded') = Cardinality(decoded) - n
      BY <2>2, TrimFrees
    <3>2. resident' \in Nat /\ (resident' = 0 \/ resident' = resident - n)
      BY <1>1, <3>1, UnchargedCases
    <3>3. Cardinality(Mem') = Cardinality(Mem)
      BY <2>2 DEF Mem, Trim, storeVars
    <3>4. task[t].pc # "give" /\ task'[t].pc # "give"
      BY <2>2, Went DEF Trim
    <3>5. decoded' \subseteq Keys
      BY <1>1, <3>1
    <3> QED BY <1>1, <1>2, <2>1, <3>1, <3>2, <3>3, <3>4, <3>5, Parts, CoverMoves
  <2>3. CASE Scan(t) \/ Pick(t) \/ SpillWrite(t) \/ SpillFails(t)
    <3>1. UNCHANGED <<resident, decoded, home>> /\ task[t].pc # "give"
      BY <2>3 DEF Scan, Pick, SpillWrite, SpillFails, budgetVars, storeVars
    <3>2. task'[t].pc # "give"
      <4>1. CASE Goto(t, "swap")
        BY <4>1, Went
      <4>2. CASE \E e : LeaveChunk(t, e)
        BY <4>2, Left
      <4>3. CASE Scan(t) \/ Pick(t)
        BY <4>3, Scanned, Picked
      <4> QED BY <2>3, <4>1, <4>2, <4>3 DEF SpillWrite, SpillFails
    <3>3. Cardinality(Mem') = Cardinality(Mem) /\ Cardinality(decoded') = Cardinality(decoded)
      BY <3>1 DEF Mem
    <3>4. decoded' \subseteq Keys /\ resident' \in Nat
      BY <1>1, <3>1
    <3> QED BY <1>1, <1>2, <2>1, <3>1, <3>2, <3>3, <3>4, Parts, CoverMoves
  <2>4. CASE SpillSwap(t)
    <3> DEFINE c == task[t].cur
    <3>1. task[t].pc = "swap" /\ c \in Cells
      BY <2>4, SpillerCell DEF SpillSwap, Spilling
    <3>2. /\ home' = IF home[c] = "memory" THEN [home EXCEPT ![c] = "disk"] ELSE home
          /\ UNCHANGED <<resident, decoded>> /\ Goto(t, "give")
      BY <2>4 DEF SpillSwap, budgetVars
    <3> HIDE DEF c
    <3>3. Mem' \ {c} = Mem \ {c}
      BY <1>1, <3>1, <3>2 DEF Mem
    <3>4. /\ Cardinality(Mem') \in Nat /\ Cardinality(Mem) \in Nat
          /\ Cardinality(Mem') = Cardinality(Mem) + (IF c \in Mem' THEN 1 ELSE 0)
                                                  - (IF c \in Mem THEN 1 ELSE 0)
      BY <1>1, <3>3, Parts, OneApart
    <3>5. task'[t].pc = "give"
      BY <3>2, Went
    <3>6. decoded' \subseteq Keys /\ resident' \in Nat /\ resident' = resident
          /\ Cardinality(decoded') = Cardinality(decoded)
      BY <1>1, <3>2
    <3>7. Cardinality(Mem') >= Cardinality(Mem) - 1
      BY <3>4
    <3> QED BY <1>1, <1>2, <2>1, <3>1, <3>4, <3>5, <3>6, <3>7, Parts, CoverMoves
  <2>5. CASE SpillGive(t)
    <3>1. task[t].pc = "give" /\ resident' = Uncharged(1) /\ UNCHANGED <<home, decoded>>
      BY <2>5 DEF SpillGive, storeVars
    <3>2. resident' \in Nat /\ (resident' = 0 \/ resident' = resident - 1)
      BY <1>1, <3>1, UnchargedCases
    <3>3. task'[t].pc # "give"
      BY <2>5, Left DEF SpillGive
    <3>4. Cardinality(Mem') = Cardinality(Mem) /\ Cardinality(decoded') = Cardinality(decoded)
      BY <3>1 DEF Mem
    <3>5. decoded' \subseteq Keys
      BY <1>1, <3>1
    <3> QED BY <1>1, <1>2, <2>1, <3>1, <3>2, <3>3, <3>4, <3>5, Parts, CoverMoves
  <2> QED BY <1>4, <2>2, <2>3, <2>4, <2>5 DEF Evict
<1> QED BY <1>3, <1>4

LEMMA ChargeCovered ==
  ASSUME TypeInv, Covered, NEW t \in Tasks, Charge(t)
  PROVE  Covered'
<1>1. PICK pc : Goto(t, pc) /\ pc \in {"entry", "fit", "trim", "trimall"}
  BY DEF Charge, Granted
<1>2. task'[t].pc = pc /\ \A u \in Tasks : u # t => task'[u] = task[u]
  BY <1>1, Went
<1>3. task[t].pc = "charge" /\ resident' = resident + 1 /\ UNCHANGED <<home, decoded>>
  BY DEF Charge, storeVars
<1>4. Charged(t)' /\ ~Charged(t) /\ task'[t].pc # "give" /\ task[t].pc # "give"
  BY <1>1, <1>2, <1>3 DEF Charged, EvictPCs
<1>5. TypeOK /\ resident' \in Nat /\ decoded' \subseteq Keys
  BY <1>3 DEF TypeInv, TypeOK
<1>6. Cardinality(Mem') = Cardinality(Mem) /\ Cardinality(decoded') = Cardinality(decoded)
  BY <1>3 DEF Mem
<1> QED BY <1>2, <1>3, <1>4, <1>5, <1>6, Parts, CoverMoves

LEMMA WriterCovered ==
  ASSUME CoverInv, NEW s \in Stores, Writer(s), ~Charge(s)
  PROVE  Covered'
<1>1. /\ TypeInv /\ TypeOK /\ resident \in Nat /\ decoded \subseteq Keys /\ home \in [Cells -> Homes]
      /\ s \in Tasks /\ FreshOK(s) /\ taken[s] \in BOOLEAN
  BY WriterIsTask DEF CoverInv, TypeInv, TypeOK, Homes
<1>2. UNCHANGED <<resident, decoded>>
  BY DEF Writer, Push, LoadPhase, StorePhase, Publish, PublishEntry, PublishRows, Finish,
         StoreFinished, budgetVars
<1>3. CASE PublishEntry(s)
  <2> DEFINE c == <<s, taken[s], count[s] + 1>>
  <2>1. task'[s].pc = "rows" /\ task[s].pc = "entry" /\ \A u \in Tasks : u # s => task'[u] = task[u]
    BY <1>1, <1>3, Went DEF PublishEntry
  <2>2. count[s] \in Nat /\ count[s] + 1 \in 1 .. MaxChunks
    <3>1. count[s] \in Nat /\ rows[s] \in Nat /\ MaxChunks \in Nat
      BY <1>1, StoreAssumption DEF TypeOK
    <3>2. rows[s] < MaxChunks /\ count[s] <= rows[s] + IF task[s].pc = "rows" THEN 1 ELSE 0
      BY <1>1, <2>1 DEF TypeInv, Bounds, Pushing
    <3> QED BY <2>1, <3>1, <3>2
  <2>3. c \in Cells
    BY <1>1, <2>2, SomeCell
  <2>4. home[c] = "none"
    <3>1. count[s] + 1 > count[s]
      BY <2>2
    <3> QED BY <1>1, <2>2, <3>1 DEF FreshOK
  <2>5. home' = [home EXCEPT ![c] = "memory"]
    BY <1>3 DEF PublishEntry
  <2> HIDE DEF c
  <2>6. c \notin Mem /\ c \in Mem' /\ Mem' \ {c} = Mem \ {c}
    BY <1>1, <2>3, <2>4, <2>5 DEF Mem
  <2>7. Cardinality(Mem') = Cardinality(Mem) + 1
    BY <1>1, <2>6, Parts, OneApart
  <2>8. Charged(s) /\ ~Charged(s)'
    BY <2>1 DEF Charged, EvictPCs
  <2>9. decoded' \subseteq Keys /\ resident' = resident /\ Cardinality(decoded') = Cardinality(decoded)
    BY <1>1, <1>2
  <2>10. task[s].pc # "give" /\ task'[s].pc # "give" /\ Covered
    BY <2>1 DEF CoverInv
  <2>11. Cardinality(Mem) \in Nat /\ Cardinality(decoded) \in Nat
    BY <1>1, Parts
  <2> QED BY <1>1, <2>1, <2>7, <2>8, <2>9, <2>10, <2>11, CoverMoves
<1>4. CASE ~PublishEntry(s)
  <2>1. home' = home
    BY <1>4 DEF Writer, Push, LoadPhase, StorePhase, Publish, PublishRows, Finish, StoreFinished, storeVars
  <2>2. PICK pc : Goto(s, pc) /\ pc \in {"stopped", "load", "store", "charge", "idle", "finish"}
    BY <1>4 DEF Writer, Push, LoadPhase, StorePhase, Publish, PublishRows, Finish, StoreFinished
  <2>3. task'[s].pc = pc /\ \A u \in Tasks : u # s => task'[u] = task[u]
    BY <1>1, <2>2, Went
  <2>4. task[s].pc \in {"idle", "load", "store", "rows", "abort", "finish"}
    BY <1>4 DEF Writer, Push, LoadPhase, StorePhase, Publish, PublishRows, Finish, StoreFinished
  <2>5. ~Charged(s) /\ ~Charged(s)' /\ task'[s].pc # "give" /\ task[s].pc # "give"
    BY <2>2, <2>3, <2>4 DEF Charged, EvictPCs
  <2>6. decoded' \subseteq Keys /\ resident' = resident /\ Cardinality(decoded') = Cardinality(decoded)
        /\ Cardinality(Mem') = Cardinality(Mem) /\ Covered
    BY <1>1, <1>2, <2>1 DEF Mem, CoverInv
  <2>7. Cardinality(Mem) \in Nat /\ Cardinality(decoded) \in Nat
    BY <1>1, Parts
  <2> QED BY <1>1, <2>3, <2>5, <2>6, <2>7, CoverMoves
<1> QED BY <1>3, <1>4

LEMMA ReaderCovered ==
  ASSUME TypeInv, Covered, NEW t \in Readers, Reader(t), ~Charge(t)
  PROVE  Covered'
<1>1. TypeOK /\ resident \in Nat /\ decoded \subseteq Keys /\ t \in Tasks /\ RoleOf(t, task[t])
      /\ home' = home /\ task \in [Tasks -> Task] /\ task[t] \in Task
  BY ReaderIsTask
     DEF TypeInv, TypeOK, Roles, Reader, Read, ReadDone, Lookup, Fetch, TrimAll, Fit, Insert, storeVars
<1>2. task'[t].pc \notin {"write", "swap", "give"} /\ \A u \in Tasks : u # t => task'[u] = task[u]
  BY ReaderMoves
<1>3. task[t].pc # "give" /\ Cardinality(Mem') = Cardinality(Mem)
  BY <1>1 DEF Mem, Reader, Read, ReadDone, Lookup, Fetch, TrimAll, Fit, Insert
<1>4. CASE Insert(t)
  <2> DEFINE k == task[t].key
             all == decoded \cup {k}
             more == IF k \in decoded THEN 0 ELSE 1
  <2>1. k \in Keys /\ all \subseteq Keys
    BY <1>1, <1>4 DEF Insert, RoleOf
  <2>2. PICK out \in SUBSET all : /\ decoded' = all \ out
                                  /\ resident' = Uncharged(Replaced(k) + Cardinality(out))
    BY <1>4 DEF Insert
  <2>3. Charged(t) /\ ~Charged(t)'
    <3>1. task'[t].pc = "idle"
      BY <1>1, <1>4 DEF Insert, NoTask
    <3> QED BY <1>4, <3>1 DEF Insert, Charged, EvictPCs
  <2>4. IsFiniteSet(all) /\ Cardinality(all) = Cardinality(decoded) + more
    <3>1. IsFiniteSet(decoded) /\ all \ {k} = decoded \ {k} /\ k \in all
      BY <1>1, Parts
    <3> HIDE DEF all, k
    <3>2. /\ IsFiniteSet(all) /\ Cardinality(decoded) \in Nat
          /\ Cardinality(all) = Cardinality(decoded) + (IF k \in all THEN 1 ELSE 0)
                                                    - (IF k \in decoded THEN 1 ELSE 0)
      BY <3>1, OneApart
    <3> QED BY <3>1, <3>2
  <2>5. Replaced(k) = 1 - more
    <3>1. CASE k \in decoded
      <4>1. decoded \cap {k} = {k}
        BY <3>1
      <4> HIDE DEF k
      <4>2. Cardinality({k}) = 1
        BY FS_Singleton
      <4> QED BY <3>1, <4>1, <4>2 DEF Replaced
    <3>2. CASE k \notin decoded
      <4>1. decoded \cap {k} = {}
        BY <3>2
      <4> QED BY <3>2, <4>1, FS_EmptySet DEF Replaced
    <3> QED BY <3>1, <3>2
  <2>6. /\ Cardinality(out) \in Nat /\ Cardinality(out) <= Cardinality(all)
        /\ Cardinality(all \ out) = Cardinality(all) - Cardinality(out)
    BY <2>2, <2>4, Removed
  <2>7. more \in {0, 1}
    OBVIOUS
  <2>8. decoded' \subseteq Keys
    BY <2>1, <2>2
  <2> HIDE DEF more, all, k
  <2>9. Replaced(k) + Cardinality(out) \in Nat
    BY <2>5, <2>6, <2>7
  <2>10. resident' \in Nat /\ (resident' = 0 \/ resident' = resident - (Replaced(k) + Cardinality(out)))
    BY <1>1, <2>2, <2>9, UnchargedCases
  <2>11. Cardinality(decoded') = Cardinality(decoded) + more - Cardinality(out)
    <3>1. Cardinality(decoded') = Cardinality(all \ out)
      BY <2>2
    <3> QED BY <1>1, <2>4, <2>6, <2>7, <3>1, Parts
  <2> QED BY <1>1, <1>2, <1>3, <2>3, <2>5, <2>6, <2>7, <2>8, <2>10, <2>11, Parts, CoverMoves
<1>5. CASE TrimAll(t)
  <2>1. task[t].pc = "trimall" /\ decoded' = {}
    BY <1>5 DEF TrimAll
  <2>2. PICK pc : Goto(t, pc) /\ pc \in {"fit", "trim"}
    BY <1>5 DEF TrimAll
  <2>3. task'[t].pc = pc
    BY <1>1, <2>2, Went
  <2>4. Charged(t)' /\ Charged(t)
    BY <2>1, <2>2, <2>3 DEF Charged, EvictPCs
  <2>5. Cardinality(decoded') = 0 /\ Cardinality(decoded) \in Nat /\ decoded' \subseteq Keys
    BY <1>1, <2>1, Parts, FS_EmptySet
  <2>6. resident' \in Nat /\ (resident' = 0 \/ resident' = resident - Cardinality(decoded))
    BY <1>1, <1>5, <2>5, UnchargedCases DEF TrimAll
  <2> QED BY <1>1, <1>2, <1>3, <2>4, <2>5, <2>6, Parts, CoverMoves
<1>6. CASE Fit(t)
  <2>1. UNCHANGED <<resident, decoded>>
    BY <1>6 DEF Fit, budgetVars
  <2>2. task'[t].pc \in {"trim", "insert"}
    BY <1>1, <1>6 DEF Fit, Task
  <2>3. Charged(t) /\ Charged(t)'
    BY <1>6, <2>2 DEF Fit, Charged, EvictPCs
  <2>4. decoded' \subseteq Keys /\ resident' \in Nat /\ Cardinality(decoded') = Cardinality(decoded)
    BY <1>1, <2>1
  <2> QED BY <1>1, <1>2, <1>3, <2>1, <2>3, <2>4, Parts, CoverMoves
<1>7. CASE Read(t) \/ ReadDone(t) \/ Lookup(t) \/ Fetch(t)
  <2>1. UNCHANGED <<resident, decoded>>
    BY <1>7 DEF Read, ReadDone, Lookup, Fetch, budgetVars
  <2>2. task[t].pc \in {"idle", "hold", "lookup", "fetch"}
    BY <1>7 DEF Read, ReadDone, Lookup, Fetch
  <2>3. task'[t].pc \in {"idle", "hold", "lookup", "fetch", "charge"}
    <3>1. CASE Read(t)
      <4>1. PICK k \in Keys : task' = [task EXCEPT ![t] = [@ EXCEPT
                     !.key = k,
                     !.pc = IF home[CellAt(k)] = "memory" THEN "hold" ELSE "lookup",
                     !.cur = IF home[CellAt(k)] = "memory" THEN CellAt(k) ELSE None]]
        BY <3>1 DEF Read
      <4> QED BY <1>1, <4>1 DEF Task
    <3>2. CASE task' = [task EXCEPT ![t] = NoTask]
      BY <1>1, <3>2 DEF NoTask
    <3>3. CASE \E pc \in {"fetch", "charge"} : task' = [task EXCEPT ![t] = [task[t] EXCEPT !.pc = pc]]
      BY <1>1, <3>3 DEF Task
    <3> QED BY <1>7, <3>1, <3>2, <3>3 DEF ReadDone, Lookup, Fetch
  <2>4. ~Charged(t) /\ ~Charged(t)'
    BY <2>2, <2>3 DEF Charged, EvictPCs
  <2>5. decoded' \subseteq Keys /\ resident' \in Nat /\ Cardinality(decoded') = Cardinality(decoded)
    BY <1>1, <2>1
  <2> QED BY <1>1, <1>2, <1>3, <2>1, <2>4, <2>5, Parts, CoverMoves
<1> QED BY <1>4, <1>5, <1>6, <1>7 DEF Reader

LEMMA OwnerCovered ==
  ASSUME TypeInv, Covered, NEW s \in Stores, Owner(s)
  PROVE  Covered'
<1>1. TypeOK /\ resident \in Nat
  BY DEF TypeInv, TypeOK
<1>2. task' = task
  BY DEF Owner, Release, Mark, TakeChunks, FreeChunks, CloseFile, Purge, Drop
<1>3. Cardinality(Pending') = Cardinality(Pending) /\ Cardinality(Giving') = Cardinality(Giving)
  BY <1>2 DEF Pending, Giving, Charged
<1>4. CASE FreeChunks(s)
  <2> DEFINE mine == {c \in Cells : c[1] = s /\ ~c[2] /\ home[c] = "memory"}
  <2>1. /\ resident' = Uncharged(Cardinality(mine)) /\ decoded' = decoded
        /\ home' = [c \in Cells |-> IF c[1] = s /\ ~c[2] THEN "none" ELSE home[c]]
    BY <1>4 DEF FreeChunks
  <2>2. Mem' = Mem \ mine /\ Mem \cap mine = mine /\ mine \subseteq Mem
    BY <2>1 DEF Mem
  <2> HIDE DEF mine
  <2>3. /\ Cardinality(Mem') = Cardinality(Mem) - Cardinality(mine)
        /\ Cardinality(mine) \in Nat /\ Cardinality(mine) <= Cardinality(Mem)
    BY <1>1, <2>2, Parts, Removed
  <2>4. resident' = 0 \/ resident' = resident - Cardinality(mine)
    BY <1>1, <2>1, <2>3, UnchargedCases
  <2> QED BY <1>1, <1>3, <2>1, <2>3, <2>4, Parts DEF Covered
<1>5. CASE Purge(s) \/ Drop(s)
  <2> DEFINE mine == EntriesOf(s)
  <2>1. resident' = Uncharged(Cardinality(mine)) /\ decoded' = decoded \ mine /\ home' = home
    BY <1>5 DEF Purge, Drop, storeVars
  <2>2. decoded \cap mine = mine /\ mine \subseteq decoded
    BY DEF EntriesOf
  <2> HIDE DEF mine
  <2>3. /\ Cardinality(decoded') = Cardinality(decoded) - Cardinality(mine)
        /\ Cardinality(mine) \in Nat /\ Cardinality(mine) <= Cardinality(decoded)
    BY <1>1, <2>1, <2>2, Parts, Removed
  <2>4. resident' = 0 \/ resident' = resident - Cardinality(mine)
    BY <1>1, <2>1, <2>3, UnchargedCases
  <2>5. Cardinality(Mem') = Cardinality(Mem)
    BY <2>1 DEF Mem
  <2> QED BY <1>1, <1>3, <2>3, <2>4, <2>5, Parts DEF Covered
<1>6. CASE Release(s) \/ Mark(s) \/ TakeChunks(s) \/ CloseFile(s)
  <2>1. UNCHANGED <<resident, decoded, home>>
    BY <1>6 DEF Release, Mark, TakeChunks, CloseFile, budgetVars, storeVars
  <2>2. Cardinality(Mem') = Cardinality(Mem) /\ Cardinality(decoded') = Cardinality(decoded)
    BY <2>1 DEF Mem
  <2> QED BY <1>3, <2>1, <2>2 DEF Covered
<1> QED BY <1>4, <1>5, <1>6 DEF Owner

\* Who leaves the table and the release alone, and puts nothing where nothing was.
LEMMA FreshFrame ==
  ASSUME NEW s \in Stores, taken[s] \in BOOLEAN, FreshOK(s),
         UNCHANGED <<taken[s], owner[s], count[s]>>,
         \A c \in Cells : c[1] = s /\ home[c] = "none" => home'[c] = "none"
  PROVE  FreshOK(s)'
<1>1. \A n \in 1 .. MaxChunks, b \in BOOLEAN : <<s, b, n>> \in Cells /\ <<s, b, n>>[1] = s
  BY SomeCell
<1> QED BY <1>1 DEF FreshOK, Gone

LEMMA FreshNext ==
  ASSUME TypeInv, \A s \in Stores : FreshOK(s), [Next]_vars
  PROVE  \A s \in Stores : FreshOK(s)'
<1>1. /\ TypeOK /\ taken \in [Stores -> BOOLEAN] /\ owner \in [Stores -> OwnerPCs]
      /\ home \in [Cells -> Homes] /\ MaxChunks \in Nat /\ count \in [Stores -> 0 .. MaxChunks]
  BY StoreAssumption DEF TypeInv, TypeOK, Homes
<1>2. ASSUME UNCHANGED <<taken, owner, count>>, \A c \in Cells : home[c] = "none" => home'[c] = "none"
      PROVE  \A s \in Stores : FreshOK(s)'
  BY <1>1, <1>2, FreshFrame
<1>3. CASE UNCHANGED vars
  BY <1>2, <1>3 DEF vars
<1>4. ASSUME NEW t \in Tasks, Evict(t) PROVE \A s \in Stores : FreshOK(s)'
  <2>1. UNCHANGED <<taken, owner, count>>
    BY <1>4 DEF Evict, Trim, Scan, Pick, SpillWrite, SpillFails, SpillSwap, SpillGive, EvictEnds,
                budgetVars, storeVars
  <2>2. home' = home \/ (\E c : home[c] = "memory" /\ home' = [home EXCEPT ![c] = "disk"])
    BY <1>4 DEF Evict, Trim, Scan, Pick, SpillWrite, SpillFails, SpillSwap, SpillGive, EvictEnds,
                storeVars
  <2>3. \A c \in Cells : home[c] = "none" => home'[c] = "none"
    BY <1>1, <2>2
  <2> QED BY <1>2, <2>1, <2>3
<1>5. ASSUME NEW t \in Readers, Reader(t) PROVE \A s \in Stores : FreshOK(s)'
  <2>1. UNCHANGED <<taken, owner, count, home>>
    BY <1>5 DEF Reader, Read, ReadDone, Lookup, Fetch, Charge, TrimAll, Fit, Insert, storeVars
  <2> QED BY <1>2, <2>1
<1>6. ASSUME NEW s \in Stores, Writer(s) PROVE \A u \in Stores : FreshOK(u)'
  <2>1. UNCHANGED <<taken, owner>>
    BY <1>6 DEF Writer, Push, LoadPhase, StorePhase, Charge, Publish, PublishEntry, PublishRows,
                Finish, StoreFinished, storeVars
  <2>2. CASE ~PublishEntry(s)
    <3>1. UNCHANGED <<count, home>>
      BY <1>6, <2>2 DEF Writer, Push, LoadPhase, StorePhase, Charge, Publish, PublishRows, Finish,
                        StoreFinished, storeVars
    <3> QED BY <1>2, <2>1, <3>1
  <2>3. CASE PublishEntry(s)
    <3> DEFINE c == <<s, taken[s], count[s] + 1>>
    <3>1. count' = [count EXCEPT ![s] = count[s] + 1] /\ home' = [home EXCEPT ![c] = "memory"]
      BY <2>3 DEF PublishEntry
    <3>2. count'[s] = count[s] + 1 /\ count[s] \in Nat /\ \A u \in Stores : u # s => count'[u] = count[u]
      BY <1>1, <3>1
    <3>3. \A d \in Cells : d # c => home'[d] = home[d]
      BY <1>1, <3>1
    <3>4. FreshOK(s)'
      <4>1. FreshOK(s) /\ taken[s] \in BOOLEAN
        BY <1>1
      <4>2. ~taken[s] => \A n \in 1 .. MaxChunks : home'[<<s, TRUE, n>>] = "none"
        <5> SUFFICES ASSUME ~taken[s], NEW n \in 1 .. MaxChunks PROVE home'[<<s, TRUE, n>>] = "none"
          OBVIOUS
        <5>1. <<s, TRUE, n>> \in Cells /\ <<s, TRUE, n>> # c
          BY SomeCell
        <5> QED BY <3>3, <4>1, <5>1 DEF FreshOK
      <4>3. \A n \in 1 .. MaxChunks : n > count'[s] => home'[<<s, taken[s], n>>] = "none"
        <5> SUFFICES ASSUME NEW n \in 1 .. MaxChunks, n > count'[s]
                     PROVE  home'[<<s, taken[s], n>>] = "none"
          OBVIOUS
        <5>1. n > count[s] /\ n # count[s] + 1
          BY <3>2
        <5>2. <<s, taken[s], n>> \in Cells /\ <<s, taken[s], n>> # c
          BY <4>1, <5>1, SomeCell
        <5>3. home[<<s, taken[s], n>>] = "none"
          BY <4>1, <5>1 DEF FreshOK
        <5> QED BY <3>3, <5>2, <5>3
      <4> QED BY <2>1, <4>1, <4>2, <4>3 DEF FreshOK, Gone
    <3>5. \A u \in Stores : u # s => FreshOK(u)'
      <4> TAKE u \in Stores
      <4> HAVE u # s
      <4>1. \A d \in Cells : d[1] = u => home'[d] = home[d]
        BY <3>3
      <4> QED BY <1>1, <2>1, <3>2, <4>1, FreshFrame
    <3> QED BY <3>4, <3>5
  <2> QED BY <2>2, <2>3
<1>7. ASSUME NEW s \in Stores, Owner(s) PROVE \A u \in Stores : FreshOK(u)'
  <2>1. \A c \in Cells : home'[c] = home[c] \/ home'[c] = "none"
    BY <1>1, <1>7 DEF Owner, Release, Mark, TakeChunks, FreeChunks, CloseFile, Purge, Drop, storeVars
  <2>2. \A u \in Stores : u # s => taken'[u] = taken[u] /\ owner'[u] = owner[u] /\ count'[u] = count[u]
    BY <1>1, <1>7 DEF Owner, Release, Mark, TakeChunks, FreeChunks, CloseFile, Purge, Drop, Step, storeVars
  <2>3. \A u \in Stores : u # s => FreshOK(u)'
    BY <1>1, <2>1, <2>2, FreshFrame
  <2>4. CASE ~TakeChunks(s)
    <3>1. /\ UNCHANGED <<taken, count>>
          /\ \/ owner[s] \in {"open", "removed"} /\ owner'[s] \in {"removed", "marked"}
             \/ /\ owner[s] \in {"taken", "freed", "unfiled", "closed"}
                /\ owner'[s] \in {"freed", "unfiled", "closed", "dropped"}
      BY <1>1, <1>7, <2>4 DEF Owner, Release, Mark, FreeChunks, CloseFile, Purge, Drop, Step, storeVars
    <3>2. Gone(s)' <=> Gone(s)
      BY <3>1 DEF Gone
    <3>3. \A n \in 1 .. MaxChunks, b \in BOOLEAN : <<s, b, n>> \in Cells
      BY SomeCell
    <3>4. FreshOK(s) /\ taken[s] \in BOOLEAN
      BY <1>1
    <3>5. FreshOK(s)'
      BY <2>1, <3>1, <3>2, <3>3, <3>4 DEF FreshOK
    <3> QED BY <2>3, <3>5
  <2>5. CASE TakeChunks(s)
    <3>1. /\ owner[s] = "marked" /\ owner'[s] = "taken" /\ taken'[s] = TRUE /\ home' = home
      BY <1>1, <2>5 DEF TakeChunks, Step
    <3>2. FreshOK(s)'
      BY <3>1 DEF FreshOK, Gone
    <3> QED BY <2>3, <3>2
  <2> QED BY <2>4, <2>5
<1> QED BY <1>3, <1>4, <1>5, <1>6, <1>7 DEF Next

\* No charge is lost: in every behaviour, with pushes, spills and reads under way on a store while
\* it is released, the counter is never above the chunks in memory, the decoded entries, and the
\* charges that a thread holds and will publish or give back.  What stays charged is something that
\* is there: a failed, refused or overtaken call leaves nothing behind in the counter (registry.rs
\* charge, evict_until, cache_decoded; store.rs publish, spill_one, release).
THEOREM NoChargeLost == Spec => []Covered
<1>1. Init => CoverInv
  <2> SUFFICES ASSUME Init PROVE CoverInv
    OBVIOUS
  <2>1. \A s \in Stores : FreshOK(s)
    BY SomeCell DEF Init, FreshOK, Gone
  <2>2. Mem = {} /\ decoded = {} /\ Pending = {} /\ Giving = {} /\ resident = 0
    BY DEF Init, Mem, Pending, Giving, Charged, EvictPCs, NoTask
  <2>3. Covered
    BY <2>2, FS_EmptySet DEF Covered
  <2> QED BY <2>1, <2>3, TypeInit DEF CoverInv
<1>2. CoverInv /\ [Next]_vars => CoverInv'
  <2> SUFFICES ASSUME CoverInv, [Next]_vars PROVE CoverInv'
    OBVIOUS
  <2>1. TypeInv' /\ \A s \in Stores : FreshOK(s)'
    BY TypeNext, FreshNext DEF CoverInv
  <2>2. TypeInv /\ Covered
    BY DEF CoverInv
  <2>3. ASSUME UNCHANGED vars PROVE Covered'
    <3>1. UNCHANGED <<resident, decoded, home, task>>
      BY <2>3 DEF vars
    <3>2. Mem' = Mem /\ Pending' = Pending /\ Giving' = Giving
      BY <3>1 DEF Mem, Pending, Giving, Charged
    <3> QED BY <2>2, <3>1, <3>2 DEF Covered
  <2>4. ASSUME NEW s \in Stores, Writer(s) PROVE Covered'
    BY <2>2, <2>4, WriterCovered, ChargeCovered, WriterIsTask
  <2>5. ASSUME NEW r \in Readers, Reader(r) PROVE Covered'
    BY <2>2, <2>5, ReaderCovered, ChargeCovered, ReaderIsTask
  <2>6. ASSUME NEW t \in Tasks, Evict(t) PROVE Covered'
    BY <2>2, <2>6, EvictCovered
  <2>7. ASSUME NEW s \in Stores, Owner(s) PROVE Covered'
    BY <2>2, <2>7, OwnerCovered
  <2>8. Covered'
    BY <2>3, <2>4, <2>5, <2>6, <2>7 DEF Next
  <2> QED BY <2>1, <2>8 DEF CoverInv
<1>3. CoverInv => Covered
  BY DEF CoverInv
<1> QED BY <1>1, <1>2, <1>3, PTL DEF Spec
=============================================================================
