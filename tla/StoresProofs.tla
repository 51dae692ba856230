---------------------------- MODULE StoresProofs -----------------------------
(***************************************************************************)
(* A tab closed under a push, a spill or a read leaves no file behind, for *)
(* every number of stores, readers and chunks and every budget: the        *)
(* invariant of ResultStoreProofs, of the instance that MCStores checks.   *)
(***************************************************************************)
EXTENDS MCStores, TLAPS

Cp == INSTANCE ResultStoreProofs WITH
    Readers <- CloseReaders, Pool <- ClosePool, MaxChunks <- CloseChunks, Budget <- CloseBudget,
    LowWater <- CloseLowWater, DecodedCap <- CloseDecodedCap, EvictKeep <- CloseKeep,
    Overlap <- CloseOverlap,
    resident <- clResident, live <- clLive, decoded <- clDecoded, phase <- clPhase,
    count <- clCount, taken <- clTaken, home <- clHome, rows <- clRows, file <- clFile,
    owner <- clOwner, task <- clTask

\* One notion of finite sets and of their size.
LEMMA SameFinite == \A S : IsFiniteSet(S) <=> Cp!IsFiniteSet(S)
BY DEF IsFiniteSet, Cp!IsFiniteSet

LEMMA SameSize == \A S : Cl!Cardinality(S) = Cp!Cardinality(S)
BY DEF Cl!Cardinality, Cp!Cardinality

\* What this module assumes is what that one assumes of its constants.
LEMMA Assumed == Cp!Admissible
BY StoreAssumption, CloseAssumption, SameFinite
DEF Admissible, Cp!Admissible, CloseOverlap, Activities, Cp!Activities

-----------------------------------------------------------------------------
(* The two instances are of one module: every step of one is a step of the other. *)

LEMMA RowsStart == Cl!Init => Cp!RowsInv
<1>1. Cl!Init => Cp!Init
  BY DEF Cl!Init, Cp!Init, Cl!Cells, Cp!Cells, Cl!Tasks, Cp!Tasks, Cl!NoTask, Cp!NoTask
<1> QED BY <1>1, Assumed, Cp!RowsInit

LEMMA EvictSame == ASSUME NEW t PROVE Cl!Evict(t) => Cp!Evict(t)
<1> USE SameSize DEF Cl!Uncharged, Cp!Uncharged, Cl!Goto, Cp!Goto, Cl!LeaveChunk, Cp!LeaveChunk,
            Cl!budgetVars, Cp!budgetVars, Cl!storeVars, Cp!storeVars
<1>1. Cl!Trim(t) => Cp!Trim(t)
  BY DEF Cl!Trim, Cp!Trim
<1>2. Cl!Scan(t) => Cp!Scan(t)
  BY DEF Cl!Scan, Cp!Scan, Cl!Keys, Cp!Keys, Cl!CellAt, Cp!CellAt
<1>3. Cl!Pick(t) => Cp!Pick(t)
  BY DEF Cl!Pick, Cp!Pick, Cl!MayStart, Cp!MayStart, Cl!Releasing, Cp!Releasing, Cl!Spillable,
         Cp!Spillable, Cl!CellAt, Cp!CellAt, Cl!Borrowed, Cp!Borrowed, Cl!Tasks, Cp!Tasks
<1>4. Cl!SpillWrite(t) => Cp!SpillWrite(t)
  BY DEF Cl!SpillWrite, Cp!SpillWrite
<1>5. Cl!SpillFails(t) => Cp!SpillFails(t)
  BY DEF Cl!SpillFails, Cp!SpillFails
<1>6. Cl!SpillSwap(t) => Cp!SpillSwap(t)
  BY DEF Cl!SpillSwap, Cp!SpillSwap
<1>7. Cl!SpillGive(t) => Cp!SpillGive(t)
  BY DEF Cl!SpillGive, Cp!SpillGive
<1>8. Cl!EvictEnds(t) => Cp!EvictEnds(t)
  BY DEF Cl!EvictEnds, Cp!EvictEnds, Cl!Granted, Cp!Granted, Cl!Fits, Cp!Fits, Cl!ChargeBack,
         Cp!ChargeBack, Cl!NoTask, Cp!NoTask, Cl!Refused, Cp!Refused
<1> QED BY <1>1, <1>2, <1>3, <1>4, <1>5, <1>6, <1>7, <1>8 DEF Cl!Evict, Cp!Evict

LEMMA ChargeSame == ASSUME NEW t PROVE Cl!Charge(t) => Cp!Charge(t)
BY DEF Cl!Charge, Cp!Charge, Cl!Goto, Cp!Goto, Cl!Granted, Cp!Granted, Cl!storeVars, Cp!storeVars

LEMMA WriterSame == ASSUME NEW s PROVE Cl!Writer(s) => Cp!Writer(s)
<1> USE DEF Cl!Goto, Cp!Goto, Cl!budgetVars, Cp!budgetVars, Cl!storeVars, Cp!storeVars,
            Cl!MayStart, Cp!MayStart, Cl!Releasing, Cp!Releasing
<1>1. Cl!Push(s) => Cp!Push(s)
  BY DEF Cl!Push, Cp!Push
<1>2. Cl!LoadPhase(s) => Cp!LoadPhase(s)
  BY DEF Cl!LoadPhase, Cp!LoadPhase
<1>3. Cl!StorePhase(s) => Cp!StorePhase(s)
  BY DEF Cl!StorePhase, Cp!StorePhase
<1>4. Cl!Publish(s) => Cp!Publish(s)
  BY DEF Cl!Publish, Cp!Publish, Cl!PublishEntry, Cp!PublishEntry, Cl!PublishRows, Cp!PublishRows
<1>5. Cl!Finish(s) => Cp!Finish(s)
  BY DEF Cl!Finish, Cp!Finish
<1>6. Cl!StoreFinished(s) => Cp!StoreFinished(s)
  BY DEF Cl!StoreFinished, Cp!StoreFinished
<1> QED BY <1>1, <1>2, <1>3, <1>4, <1>5, <1>6, ChargeSame DEF Cl!Writer, Cp!Writer

LEMMA ReaderSame == ASSUME NEW r PROVE Cl!Reader(r) => Cp!Reader(r)
<1> USE SameSize DEF Cl!Goto, Cp!Goto, Cl!budgetVars, Cp!budgetVars, Cl!storeVars, Cp!storeVars,
            Cl!NoTask, Cp!NoTask, Cl!Uncharged, Cp!Uncharged
<1>1. Cl!Read(r) => Cp!Read(r)
  BY DEF Cl!Read, Cp!Read, Cl!Keys, Cp!Keys, Cl!CellAt, Cp!CellAt, Cl!MayStart, Cp!MayStart,
         Cl!Releasing, Cp!Releasing
<1>2. Cl!ReadDone(r) => Cp!ReadDone(r)
  BY DEF Cl!ReadDone, Cp!ReadDone
<1>3. Cl!Lookup(r) => Cp!Lookup(r)
  BY DEF Cl!Lookup, Cp!Lookup
<1>4. Cl!Fetch(r) => Cp!Fetch(r)
  BY DEF Cl!Fetch, Cp!Fetch
<1>5. Cl!TrimAll(r) => Cp!TrimAll(r)
  BY DEF Cl!TrimAll, Cp!TrimAll
<1>6. Cl!Fit(r) => Cp!Fit(r)
  BY DEF Cl!Fit, Cp!Fit
<1>7. Cl!Insert(r) => Cp!Insert(r)
  BY DEF Cl!Insert, Cp!Insert, Cl!Replaced, Cp!Replaced
<1> QED
  BY <1>1, <1>2, <1>3, <1>4, <1>5, <1>6, <1>7, ChargeSame DEF Cl!Reader, Cp!Reader

LEMMA OwnerSame == ASSUME NEW s PROVE Cl!Owner(s) => Cp!Owner(s)
<1> USE SameSize DEF Cl!Step, Cp!Step, Cl!budgetVars, Cp!budgetVars, Cl!storeVars, Cp!storeVars,
            Cl!Uncharged, Cp!Uncharged, Cl!EntriesOf, Cp!EntriesOf
<1>1. Cl!Release(s) => Cp!Release(s)
  <2>1. ASSUME NEW a PROVE Cl!Busy(a, s) <=> Cp!Busy(a, s)
    BY DEF Cl!Busy, Cp!Busy, Cl!Tasks, Cp!Tasks, Cl!Spilling, Cp!Spilling, Cl!Reading, Cp!Reading
  <2> QED BY <2>1 DEF Cl!Release, Cp!Release, Cl!Activities, Cp!Activities
<1>2. Cl!Mark(s) => Cp!Mark(s)
  BY DEF Cl!Mark, Cp!Mark
<1>3. Cl!TakeChunks(s) => Cp!TakeChunks(s)
  BY DEF Cl!TakeChunks, Cp!TakeChunks
<1>4. Cl!FreeChunks(s) => Cp!FreeChunks(s)
  BY DEF Cl!FreeChunks, Cp!FreeChunks, Cl!Cells, Cp!Cells
<1>5. Cl!CloseFile(s) => Cp!CloseFile(s)
  BY DEF Cl!CloseFile, Cp!CloseFile
<1>6. Cl!Purge(s) => Cp!Purge(s)
  BY DEF Cl!Purge, Cp!Purge
<1>7. Cl!Drop(s) => Cp!Drop(s)
  BY DEF Cl!Drop, Cp!Drop, Cl!Reading, Cp!Reading
<1> QED BY <1>1, <1>2, <1>3, <1>4, <1>5, <1>6, <1>7 DEF Cl!Owner, Cp!Owner

LEMMA RowsStay == Cp!RowsInv /\ [StoresNext]_<<part, vars, clVars>> => Cp!RowsInv'
<1>1. Cl!Next => Cp!Next
  BY EvictSame, WriterSame, ReaderSame, OwnerSame DEF Cl!Next, Cp!Next, Cl!Tasks, Cp!Tasks
<1>2. [StoresNext]_<<part, vars, clVars>> => [Cp!Next]_Cp!vars
  BY <1>1 DEF StoresNext, BudgetStep, CloseStep, clVars, Cp!vars
<1> QED BY <1>2, Assumed, Cp!RowsNext

\* No file of a released store is left on disk, whatever was under way when its tab was closed and
\* unless a set_phase of its writer undid the release, for every number of stores, readers and
\* chunks and every budget (store.rs spill_one, release, set_phase).
THEOREM NoFileIsLeft == StoresSpec => []NoFileLeft
<1>1. StoresInit => Cp!RowsInv
  BY RowsStart DEF StoresInit
<1>2. Cp!RowsInv => NoFileLeft
  BY DEF Cp!RowsInv, Cp!StoreOK, Cp!Shut, NoFileLeft, Cl!NoOrphanFile
<1> QED BY <1>1, <1>2, RowsStay, PTL DEF StoresSpec
=============================================================================
