------------------------------ MODULE MCEngines ------------------------------
(***************************************************************************)
(* The components that work on a database engine or on the way to it, each *)
(* on its own bounds: `part` says which of them this behaviour is about,   *)
(* and the others stay at one of their initial states.                     *)
(***************************************************************************)
EXTENDS TableSwap, FiniteSets, TLC

CONSTANTS
    Attempts, Keys, None,
    MyConns, MyStatements, MyBacklog, MyBatches, MyEvents,    \* MysqlSession
    TrQueries, TrPages, TrLimit,                              \* TrinoSession
    PgBounds, PgRuns, PgStatements,                           \* PostgresSession
    ImportLines, ImportBatch,                                 \* Import
    KeyEvents,                                                \* HostKeys
    SourceRows, FetchRows, WriteRows                          \* Transfer

ASSUME EnginesAssumption ==
    /\ MyConns \in Nat \ {0} /\ MyBacklog \in Nat /\ MyBatches \in Nat /\ MyEvents \in Nat
    /\ None \notin 1 .. MyConns
    /\ MyStatements \subseteq
           [kind : {"read", "write", "begin", "commit", "rollback", "browse", "setro", "use"},
            capped : BOOLEAN, bound : Nat]
    /\ TrQueries \in Nat /\ TrPages \in Nat /\ TrLimit \in Nat \ {0}
    /\ PgRuns \in Nat /\ PgStatements \in Nat
    /\ ImportLines \in Nat /\ ImportBatch \in Nat \ {0}
    /\ KeyEvents \in Nat
    /\ SourceRows \in Nat /\ FetchRows \in Nat /\ WriteRows \in Nat

VARIABLES
    part,
    myConn, myIdle, myFlight, myWanted, myCurrent, myHome, myInTxn, myLost, myBound, myLimit,
    myCall, myTask, myChan, myCursors, myBegan, myUnsent, myEvents,
    trQuery, trRunning, trCursor, trGot, trSeen, trBusy, trScheme, trReserve,
    pgOpen, pgServer, pgTracker, pgRun, pgRuns, pgSeen,
    imCfg, imPc, imLine, imBatch, imTxn, imPend, imTable, imCancel, imOutcome, imNamed, imOdd,
    imBroken, imResult,
    txJob, txPc, txCancel, txTaken, txPage, txBatch, txEnded, txRowsRead, txWindow, txAcked,
    txStored, txTab, txView, txDest, txReport,
    hkUser, hkSystem, hkApp, hkBroken, hkAtt, hkRecorded, hkEvents,
    vcPc, vcCol, vcTarget, vcTable, vcPlan, vcHeld, vcOff, vcStored

myVars == <<myConn, myIdle, myFlight, myWanted, myCurrent, myHome, myInTxn, myLost, myBound,
           myLimit, myCall, myTask, myChan, myCursors, myBegan, myUnsent, myEvents>>
trVars == <<trQuery, trRunning, trCursor, trGot, trSeen, trBusy, trScheme, trReserve>>
pgVars == <<pgOpen, pgServer, pgTracker, pgRun, pgRuns, pgSeen>>
imVars == <<imCfg, imPc, imLine, imBatch, imTxn, imPend, imTable, imCancel, imOutcome, imNamed,
           imOdd, imBroken, imResult>>
txVars == <<txJob, txPc, txCancel, txTaken, txPage, txBatch, txEnded, txRowsRead, txWindow,
           txAcked, txStored, txTab, txView, txDest, txReport>>
hkVars == <<hkUser, hkSystem, hkApp, hkBroken, hkAtt, hkRecorded, hkEvents>>
vcVars == <<vcPc, vcCol, vcTarget, vcTable, vcPlan, vcHeld, vcOff, vcStored>>

\* What the MySQL caller may send: a capped and a bounded read, and every other kind once.
MysqlStatements ==
    {[kind |-> "read", capped |-> TRUE, bound |-> 0], [kind |-> "read", capped |-> FALSE, bound |-> 1],
     [kind |-> "write", capped |-> TRUE, bound |-> 0]}
    \cup {[kind |-> k, capped |-> FALSE, bound |-> 0] :
            k \in {"begin", "commit", "rollback", "browse", "setro", "use"}}

\* A transaction with a bounded read in it.
MysqlTransaction ==
    {[kind |-> "read", capped |-> FALSE, bound |-> 1]}
    \cup {[kind |-> k, capped |-> FALSE, bound |-> 0] : k \in {"begin", "commit"}}

Ms == INSTANCE MysqlSession WITH
    Conns <- 1 .. MyConns, Databases <- {"a"}, Statements <- MyStatements,
    Backlog <- MyBacklog, MaxBatches <- MyBatches, MaxEvents <- MyEvents,
    conn <- myConn, idle <- myIdle, flight <- myFlight, wanted <- myWanted,
    current <- myCurrent, home <- myHome, inTxn <- myInTxn, lost <- myLost, bound <- myBound,
    limit <- myLimit, call <- myCall, task <- myTask, chan <- myChan, cursors <- myCursors,
    began <- myBegan, unsent <- myUnsent, events <- myEvents

Tr == INSTANCE TrinoSession WITH
    MaxQueries <- TrQueries, MaxPages <- TrPages, RowLimit <- TrLimit,
    query <- trQuery, running <- trRunning, cursor <- trCursor, got <- trGot, seen <- trSeen,
    busy <- trBusy, scheme <- trScheme, reserve <- trReserve

Pg == INSTANCE PostgresSession WITH
    Bounds <- PgBounds, MaxRuns <- PgRuns, MaxStatements <- PgStatements,
    open <- pgOpen, server <- pgServer, tracker <- pgTracker, run <- pgRun, runs <- pgRuns,
    seen <- pgSeen

Im == INSTANCE Import WITH
    MaxLines <- ImportLines, Batch <- ImportBatch,
    cfg <- imCfg, pc <- imPc, line <- imLine, batch <- imBatch, txn <- imTxn, pend <- imPend,
    table <- imTable, cancel <- imCancel, outcome <- imOutcome, named <- imNamed, odd <- imOdd,
    broken <- imBroken, result <- imResult

Tx == INSTANCE Transfer WITH
    MaxRows <- SourceRows, MaxPage <- FetchRows, PerWrite <- WriteRows,
    job <- txJob, pc <- txPc, cancel <- txCancel, taken <- txTaken, page <- txPage,
    batch <- txBatch, ended <- txEnded, rowsRead <- txRowsRead, window <- txWindow,
    acked <- txAcked, stored <- txStored, tab <- txTab, view <- txView, dest <- txDest,
    report <- txReport

Hk == INSTANCE HostKeys WITH
    MaxEvents <- KeyEvents,
    user <- hkUser, system <- hkSystem, app <- hkApp, broken <- hkBroken, att <- hkAtt,
    recorded <- hkRecorded, events <- hkEvents

Vs == INSTANCE ValueSamples

Vc == INSTANCE ValueCopy WITH
    Columns <- Vs!ValueColumns, Tables <- Vs!ValueTables, Offsets <- Vs!ValueOffsets,
    Targets <- {"mysql", "postgres"},
    pc <- vcPc, col <- vcCol, target <- vcTarget, table <- vcTable, plan <- vcPlan,
    held <- vcHeld, off <- vcOff, stored <- vcStored

Parts ==
    {"swap", "mysql", "trino", "postgres", "import", "transfer", "hostkeys", "values"}

EnginesInit ==
    /\ part \in Parts
    /\ Init /\ (part # "swap" => kind = "Trino" /\ first = "none")
    /\ Ms!Init /\ (part # "mysql" => myHome = None)
    /\ Tr!Init /\ (part # "trino" => trScheme = "http")
    /\ Pg!Init
    /\ Im!Init /\ (part # "import" => imCfg = CHOOSE c \in Im!Configs : TRUE)
    /\ Tx!Init /\ (part # "transfer" => txJob.target = "Mysql" /\ txJob.mode = "create"
                                          /\ txJob.first = "none" /\ txJob.rows = 0)
    /\ Hk!Init /\ (part # "hostkeys" => hkUser = {} /\ hkSystem = {})
    /\ IF part = "values" THEN Vc!Init
       ELSE /\ vcPc = "names" /\ vcCol = 0 /\ vcTarget = "mysql" /\ vcTable = 0 /\ vcPlan = <<>>
            /\ vcHeld = Vc!Nothing /\ vcOff = 0 /\ vcStored = Vc!Nothing

SwapStep ==
    /\ part = "swap" /\ Next
    /\ UNCHANGED <<part, myVars, trVars, pgVars, imVars, txVars, hkVars, vcVars>>

MysqlSessionStep ==
    /\ part = "mysql" /\ Ms!Next
    /\ UNCHANGED <<part, vars, trVars, pgVars, imVars, txVars, hkVars, vcVars>>

TrinoSessionStep ==
    /\ part = "trino" /\ Tr!Next
    /\ UNCHANGED <<part, vars, myVars, pgVars, imVars, txVars, hkVars, vcVars>>

PostgresSessionStep ==
    /\ part = "postgres" /\ Pg!Next
    /\ UNCHANGED <<part, vars, myVars, trVars, imVars, txVars, hkVars, vcVars>>

ImportStep ==
    /\ part = "import" /\ Im!Next
    /\ UNCHANGED <<part, vars, myVars, trVars, pgVars, txVars, hkVars, vcVars>>

TransferStep ==
    /\ part = "transfer" /\ Tx!Next
    /\ UNCHANGED <<part, vars, myVars, trVars, pgVars, imVars, hkVars, vcVars>>

HostKeysStep ==
    /\ part = "hostkeys" /\ Hk!Next
    /\ UNCHANGED <<part, vars, myVars, trVars, pgVars, imVars, txVars, vcVars>>

ValueCopyStep ==
    /\ part = "values" /\ Vc!Next
    /\ UNCHANGED <<part, vars, myVars, trVars, pgVars, imVars, txVars, hkVars>>

EnginesNext ==
    \/ SwapStep \/ MysqlSessionStep \/ TrinoSessionStep \/ PostgresSessionStep
    \/ ImportStep \/ TransferStep \/ HostKeysStep \/ ValueCopyStep

EnginesVars ==
    <<part, vars, myVars, trVars, pgVars, imVars, txVars, hkVars, vcVars>>

EnginesSpec == EnginesInit /\ [][EnginesNext]_EnginesVars

\* The MySQL sessions alone, and those that nobody stops.
MysqlSpec ==
    (EnginesInit /\ part = "mysql") /\ [][MysqlSessionStep /\ ~Ms!StopCall]_EnginesVars

Symmetric == Permutations(Attempts) \cup Permutations(Keys)

-----------------------------------------------------------------------------
(* The components' properties under their own names.                       *)

\* Every statement runs under the time bound, and on MySQL the row cap, that its own call asked for:
\* the SET is skipped only when the driver is right about the connection the statement got (MySQL) and
\* about what a rollback or RESET ALL has undone there (PostgreSQL), unless the run's own SQL changed
\* the bound.  Between a BEGIN the server answered and the COMMIT or ROLLBACK that is sent to end it,
\* nothing but a ROLLBACK is sent on another MySQL connection, where it would run on its own, as long as
\* no COMMIT or ROLLBACK failed before it was sent (NotOverNothing).  A Trino cursor hands
\* out each row once and in order, through lost pages that are asked for again (retry.rs RetryCursor)
\* and a Stop; and while a query that is being read still runs, a Stop has its current page to DELETE.
SessionsTrue ==
    /\ Ms!BoundsInForce /\ Ms!TransactionWhole
    /\ Pg!PgBound
    /\ Tr!RowsInOrder /\ Tr!CancelReaches

\* lib.rs:487 and 490: a MySQL transaction is open until a COMMIT or ROLLBACK "was sent", and when its
\* connection is lost everything but ROLLBACK is refused, "because running on a fresh autocommit
\* connection would let a `COMMIT` succeed over nothing".  The driver forgets the transaction as soon as
\* the COMMIT has a connection (run_statement), and the SET before it may still be refused.
NotOverNothing == Ms!NotOverNothing

\* What the report says landed is what landed: nothing when a transaction was rolled back or lost,
\* and otherwise the counted rows, apart from the batches the report names as doubtful; and every
\* line read before the import stopped landed, or a message is about it (Outcome::halt,
\* connection_lost_message, the flush before a rejected row, the tail, a Stop).  A server that
\* commits or rolls back on its own (DDL, innodb_rollback_on_timeout) is outside this promise.
ImportTrue == Im!ImportTrue

\* A run that reports the rows verified has put every row of the source, once and in order, under
\* the table's name, and names the old table it could not drop; one that ends otherwise has put
\* nothing there, a Stop whatever happened to the statements, a failure as long as no answer was
\* lost, and names a scratch table it leaves (fetch, flush_all, conclude, abort's warnings,
\* finish_stopped's "nothing was written").
TransferTrue == Tx!TransferTrue

\* Somebody's table leaves its name only in a replace, and in the step that puts the whole of the
\* source's rows there: a table made after the probe is never overwritten by a create, and nobody
\* sees the name empty (WritePlan::build, swap).
TablesKept == Tx!TablesKept

\* Credentials go only to a key that has stood on a whole line of some file or is the one the caller
\* named (tunnel.rs, "Record first, accept second: no authentication goes to a key that is not on
\* record"), and never to a key whose revocation has stood in one of the files ever since the call
\* began: whatever other attempts append, whatever a write leaves half done, whatever people edit
\* meanwhile.  Of a revocation that is moved between two files while they are read nothing is said.
AuthOnRecord == Hk!AuthOnRecord

\* A value a transfer writes arrives as it was, up to the stand-ins the plan reports, under the name
\* its column had; and once the table is created no integer, boolean, text or binary value of an exact
\* or a wider column is refused.  Two values are altered unsaid, against encode.rs:1 "exactly as they
\* are, or refused": a day its month has not, which MySQL may hold, arrives in the next month, and a
\* negative zero inside a composite without its sign (ValueCopy, Altered).
ValuesKept == part = "values" => Vc!ValuesKept
=============================================================================
