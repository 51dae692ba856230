------------------------------ MODULE MCStores ------------------------------
(***************************************************************************)
(* The result stores twice, each on its own bounds: under load with every  *)
(* tab closed at rest ("budget"), and with a tab closed while its rows are *)
(* pushed, spilled or read ("close").  `part` says which of them this      *)
(* behaviour is about; the other stays at its initial state.               *)
(***************************************************************************)
EXTENDS ResultStore, TLC

CONSTANTS
    CloseReaders, ClosePool, CloseChunks,                    \* ResultStore's, of "close"
    CloseBudget, CloseLowWater, CloseDecodedCap, CloseKeep

CloseOverlap == Activities

ASSUME CloseAssumption ==
    /\ IsFiniteSet(CloseReaders) /\ ClosePool \subseteq CloseReaders
    /\ Stores \cap CloseReaders = {}
    /\ CloseChunks \in Nat /\ CloseBudget \in Nat /\ CloseDecodedCap \in Nat /\ CloseKeep \in Nat
    /\ CloseLowWater \in 0 .. CloseBudget

VARIABLES part, clResident, clLive, clDecoded, clPhase, clCount, clTaken, clHome, clRows, clFile,
          clOwner, clTask

clVars == <<clResident, clLive, clDecoded, clPhase, clCount, clTaken, clHome, clRows, clFile,
            clOwner, clTask>>

Cl == INSTANCE ResultStore WITH
    Readers <- CloseReaders, Pool <- ClosePool, MaxChunks <- CloseChunks, Budget <- CloseBudget,
    LowWater <- CloseLowWater, DecodedCap <- CloseDecodedCap, EvictKeep <- CloseKeep,
    Overlap <- CloseOverlap,
    resident <- clResident, live <- clLive, decoded <- clDecoded, phase <- clPhase,
    count <- clCount, taken <- clTaken, home <- clHome, rows <- clRows, file <- clFile,
    owner <- clOwner, task <- clTask

BudgetStep == part = "budget" /\ Next /\ UNCHANGED <<part, clVars>>
CloseStep == part = "close" /\ Cl!Next /\ UNCHANGED <<part, vars>>

StoresInit == part \in {"budget", "close"} /\ Init /\ Cl!Init

StoresNext == BudgetStep \/ CloseStep

StoresSpec == StoresInit /\ [][StoresNext]_<<part, vars, clVars>>

Symmetric == Permutations(Stores) \cup Permutations(Readers)

\* ResultStore's NoOrphanFile with the tab closed under a push, a spill or a read: no file of a
\* released store is left on disk, whatever was under way when it was released, unless a set_phase
\* of its writer undid the release (store.rs spill_one, release, set_phase).
NoFileLeft == Cl!NoOrphanFile
=============================================================================
