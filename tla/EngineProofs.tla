---------------------------- MODULE EngineProofs -----------------------------
(***************************************************************************)
(* The safety of the components that work on a database engine, for every  *)
(* number of lines, rows, batches, statements, connections and runs.  Each *)
(* has an inductive invariant of its own state; a step of the composite is *)
(* a step of one component, or leaves its variables alone.                 *)
(***************************************************************************)
EXTENDS MCEngines, FiniteSetTheorems, SequenceTheorems, WellFoundedInduction, TLAPS

ImAcct == Cardinality((imTable \cup imPend) \ imOdd) = imOutcome.written
ImSeen == 1 .. imLine \subseteq imTable \cup imPend \cup imNamed \cup imBatch
ImOwes == ~(Im!InTransaction /\ imOutcome.failed)
ImLoop == imPc \in {"read", "send", "reject", "tail", "abort"}

ImShape ==
    /\ Im!TypeOK
    /\ imBatch \cup imPend \cup imTable \cup imNamed \cup imOdd \subseteq 1 .. imLine
    /\ imBatch \cap (imTable \cup imPend \cup imOdd) = {}
    /\ imPc = "end" <=> imResult # "none"
    /\ imPc \in {"send", "tail"} => imBatch # {}
    /\ imPc \in {"prologue", "finish"} => imBatch = {}
    /\ imPc = "prologue" => imTable = {} /\ imTxn = "none" /\ imOutcome.written = 0 /\ imLine = 0
    /\ imTxn # "open" => imPend = {}
    /\ ~Im!InTransaction => imTxn = "none"

ImOutcomes ==
    /\ ImLoop \/ imPc = "prologue" => ~imOutcome.failed
    /\ ~imOutcome.failed => ~imOutcome.lost /\ ~imOutcome.rollback
    /\ imOutcome.rollback => Im!InTransaction

ImWhole ==
    ~imBroken =>
        /\ Im!InTransaction /\ imPc # "end" => imTable = {}
        /\ Im!InTransaction /\ ImLoop => imTxn = "open"
        /\ Im!InTransaction /\ imPc = "finish" /\ imOutcome.failed
              => imOutcome.lost \/ imOutcome.rollback \/ imTxn # "open"
        /\ ImOwes /\ imPc # "end" => ImAcct /\ ImSeen

ImInv == ImShape /\ ImOutcomes /\ ImWhole /\ ImportTrue

PgInv ==
    /\ pgOpen \in BOOLEAN
    /\ pgRun \in [at : {"idle", "fencing", "running"}, bound : Pg!Wanted, fence : BOOLEAN,
                  own : BOOLEAN, sent : Nat]
    /\ pgServer \in [timeout : Pg!Wanted \cup {"user"}, readOnly : BOOLEAN,
                     txn : {"none", "open", "failed"}, before : Pg!Wanted \cup {"user"},
                     prepared : BOOLEAN]
    /\ pgOpen /\ pgRun.at \in {"idle", "fencing"} =>
         pgServer = Pg!Fresh /\ pgTracker = None /\ ~pgRun.own
    /\ pgOpen /\ pgRun.at = "running" /\ ~pgRun.own /\ pgRun.sent < PgStatements =>
         /\ pgTracker = pgRun.bound => pgServer.timeout = pgRun.bound
         /\ pgServer.txn # "none" => pgServer.before = pgRun.bound
    /\ Pg!PgBound

TrQueryRecords == [st : {"running", "ended", "failed"}, pages : Nat \ {0}, full : SUBSET Nat]
TrCursors == [id : Nat, next : Nat, pending : Seq(Nat), finished : BOOLEAN, emitted : Nat, limit : Nat]

TrShape ==
    /\ trQuery \in Seq(TrQueryRecords) /\ trSeen \in Seq(Nat)
    /\ trRunning # None => trRunning.id \in 1 .. Len(trQuery)
    /\ trCursor # None =>
         /\ trBusy = "free" /\ trCursor \in TrCursors
         /\ trCursor.id \in 1 .. Len(trQuery)
         /\ trCursor.next <= trQuery[trCursor.id].pages
         /\ trCursor.next = 0 => trCursor.finished
         /\ trQuery[trCursor.id].st = "ended" /\ trCursor.next # 0
               => trCursor.next = trQuery[trCursor.id].pages
         /\ trCursor.emitted = Len(trSeen)
    /\ trBusy = "post" => trSeen = <<>>
    /\ trGot # None =>
         /\ trCursor # None /\ ~trCursor.finished /\ trCursor.pending = <<>>
         /\ ~trGot.error => /\ trGot.rows = Tr!PageRows(trCursor.id, trCursor.next)
                            /\ trGot.next = Tr!NextOf(trCursor.id, trCursor.next)

TrInv == TrShape /\ Tr!RowsInOrder /\ Tr!CancelReaches

MyConnRecords == [st : {"none", "open", "gone"}, db : {"a", None}, ro : BOOLEAN, bound : Nat,
                  limit : Nat, txn : BOOLEAN]
MyKinds == {"read", "write", "begin", "commit", "rollback", "browse", "setro", "use"}
MyCalls == [pc : {"free", "connection", "use", "set", "send", "ready"}, kind : MyKinds,
            capped : BOOLEAN, bound : Nat, conn : 1 .. MyConns \cup {None}]
MyTasks == [pc : {"off", "run", "announce", "rows"}, kind : MyKinds, capped : BOOLEAN,
            announce : BOOLEAN, left : Nat, handed : BOOLEAN]
\* The connection is the call's, until a statement has it.
MyUsing == myCall.pc \in {"use", "set", "send"}
\* The call is a COMMIT or ROLLBACK that has its connection: the driver has forgotten the transaction.
MyEnding == MyUsing /\ myCall.kind \in {"commit", "rollback"}

\* The driver's copies are true of a connection that is alive.
MyKnown(c) == myConn[c].st = "open" => myConn[c].bound = myBound /\ myConn[c].limit = myLimit

MyShape ==
    /\ myConn \in [1 .. MyConns -> MyConnRecords] /\ myTask \in [1 .. MyConns -> MyTasks]
    /\ myCall \in MyCalls /\ myBound \in Nat /\ myLimit \in Nat
    /\ myInTxn \in BOOLEAN
    /\ myWanted \in {"a", None} /\ myHome \in {"a", None}
    /\ myIdle \in 1 .. MyConns \cup {None} /\ myFlight \in 1 .. MyConns \cup {None}
    /\ myIdle # None => myFlight = None /\ myCall.pc \in {"free", "connection"}
    /\ MyUsing => myFlight = None /\ myCall.conn \in 1 .. MyConns

MyTracked ==
    /\ myIdle # None => MyKnown(myIdle)
    /\ myFlight # None => MyKnown(myFlight)
    /\ MyUsing => MyKnown(myCall.conn)
    /\ myCall.pc = "send" => myBound = Ms!BoundFor /\ myLimit = Ms!LimitFor

MyBegun ==
    /\ MyUsing /\ myCall.kind = "begin" => myInTxn
    /\ myFlight # None /\ myTask[myFlight].pc = "run" /\ myTask[myFlight].kind = "begin" => myInTxn
    /\ myUnsent \in BOOLEAN
    /\ myBegan # None /\ ~myUnsent =>
         /\ myIdle \in {None, myBegan} /\ myFlight \in {None, myBegan}
         /\ MyEnding \/ myInTxn
         /\ MyUsing /\ myCall.kind # "rollback" => myCall.conn = myBegan

MyInv == MyShape /\ MyTracked /\ MyBegun

TxLive == txPc \notin {"abort", "end"}

TxShape ==
    /\ Tx!TypeOK
    /\ txJob \in [target : {"Postgres", "Mysql"}, mode : {"create", "replace"},
                  first : {"old", "none"}, rows : 0 .. SourceRows]
    /\ txReport \in [result : {"none", "done", "stopped", "failed"},
                     warnings : SUBSET {"rollback", "leftover", "kept"}]
    /\ TxLive => txReport.result = "none" /\ ~txDest.lost
    /\ txPc = "abort" => txReport.result \in {"stopped", "failed"}
    /\ txPc = "abort" /\ txReport.result = "stopped" => ~txDest.lost

TxRows ==
    /\ txRowsRead = Len(txStored) + Len(txWindow) /\ txAcked = Len(txStored)
    /\ txTaken = txRowsRead + Len(txBatch) + Len(txPage) /\ txTaken <= txJob.rows
    /\ \A i \in 1 .. Len(txStored) : txStored[i] = i
    /\ \A i \in 1 .. Len(txWindow) : txWindow[i] = Len(txStored) + i
    /\ \A i \in 1 .. Len(txBatch) : txBatch[i] = txRowsRead + i
    /\ \A i \in 1 .. Len(txPage) : txPage[i] = txRowsRead + Len(txBatch) + i
    /\ txBatch # <<>> => txPage = <<>>
    /\ txEnded => txTaken = txJob.rows /\ txBatch = <<>> /\ txPage = <<>>
    /\ txPc \in {"setup", "source", "first", "begin", "create"} => txWindow = <<>> 
    /\ txPc \in {"last", "verify", "swap", "rename", "commit", "drop_old"} => txEnded
    /\ txPc \in {"verify", "swap", "rename", "commit", "drop_old"} => txWindow = <<>>

TxTables ==
    /\ txDest.transaction => Tx!Pg
    /\ Tx!Pg /\ TxLive => (txDest.transaction <=> 
           txPc \in {"create", "rows", "flush", "last", "verify", "swap", "rename", "commit"})
    /\ ~txDest.transaction => txView = txTab
    /\ txPc = "create" => txView = txTab
    /\ txPc \in {"setup", "source", "first", "begin"} => ~txDest.created
    /\ TxLive /\ txPc # "drop_old" => txTab["backup"] = "none"
    /\ txPc \notin {"drop_old", "end"} =>
         /\ txTab["target"] = "new" => txPc = "abort" /\ txReport.result = "failed" /\ txDest.lost
         /\ ~Tx!Pg /\ txTab["scratch"] # "none" => txDest.created
    /\ Tx!Pg => txTab["scratch"] = "none"
    /\ Tx!Pg => txPc # "drop_old"
    /\ ~Tx!Pg => txPc \notin {"rename", "commit"}
    /\ txJob.mode = "create" => txPc # "drop_old" /\ txPc # "rename"
    /\ txPc = "drop_old" => txTab["target"] = "new" /\ txTab["scratch"] = "none"
    /\ Tx!Pg /\ txJob.mode = "create" 
          /\ txPc \in {"rows", "flush", "last", "verify", "swap", "rename", "commit"} =>
         txView["target"] = "new" /\ txTab["target"] = "none" /\ txView["scratch"] = "none"
    /\ txPc = "commit" => txView["target"] = "new" /\ txView["scratch"] = "none"
    /\ Tx!Pg => txView["backup"] = "none" /\ txTab["backup"] = "none"

TxInv == TxShape /\ (TxLive => TxRows) /\ TxTables /\ TransferTrue
-----------------------------------------------------------------------------
(* Helpers.                                                                *)

\* A set of numbers up to n is finite.
LEMMA Finite ==
  ASSUME NEW n \in Nat, NEW S \in SUBSET (1 .. n)
  PROVE  IsFiniteSet(S) /\ Cardinality(S) \in Nat
<1>1. IsFiniteSet(1 .. n)
  BY FS_Interval
<1>2. IsFiniteSet(S)
  BY <1>1, FS_Subset
<1>3. QED
  BY <1>2, FS_CardinalityType

\* Two sets of numbers without a common one.
LEMMA DisjointSum ==
  ASSUME NEW n \in Nat, NEW S \in SUBSET (1 .. n), NEW T \in SUBSET (1 .. n), S \cap T = {}
  PROVE  Cardinality(S \cup T) = Cardinality(S) + Cardinality(T)
<1>1. IsFiniteSet(S) /\ IsFiniteSet(T) /\ Cardinality(S) \in Nat /\ Cardinality(T) \in Nat
  BY Finite
<1>2. Cardinality(S \cap T) = 0
  BY FS_EmptySet, Zenon
<1>3. Cardinality(S \cup T) = Cardinality(S) + Cardinality(T) - Cardinality(S \cap T)
  BY <1>1, FS_Union
<1>4. QED
  BY <1>1, <1>2, <1>3

\* Every set of numbers that is not empty has a smallest one.
LEMMA Smallest ==
  ASSUME NEW S \in SUBSET Nat, S # {}
  PROVE  \E l \in S : \A m \in S : l <= m
<1>1. \E x \in S : \A y \in S : ~ (<<y, x>> \in OpToRel(<, Nat))
  BY NatLessThanWellFounded, WFMin
<1>2. \A x, y \in Nat : <<y, x>> \in OpToRel(<, Nat) <=> y < x
  BY DEF OpToRel
<1>3. \E x \in S : \A y \in S : ~ (y < x)
  BY <1>1, <1>2, Zenon
<1>4. QED
  BY <1>3

\* A function on 1 .. n is a sequence of that length.
LEMMA SeqOfLength ==
  ASSUME NEW S, NEW n \in Nat, NEW f \in [1 .. n -> S]
  PROVE  f \in Seq(S) /\ Len(f) = n
<1>1. f \in Seq(S)
  BY SeqDef
<1>2. DOMAIN f = 1 .. n /\ DOMAIN f = 1 .. Len(f) /\ Len(f) \in Nat
  BY <1>1, LenProperties
<1>3. QED
  BY <1>1, <1>2

\* A sequence is its head and what follows.
LEMMA HeadThenTail ==
  ASSUME NEW S, NEW s \in Seq(S), s # <<>>
  PROVE  s = <<Head(s)>> \o Tail(s)
<1>1. /\ Head(s) \in S /\ Tail(s) \in Seq(S) /\ Len(Tail(s)) = Len(s) - 1 /\ Head(s) = s[1]
      /\ \A i \in 1 .. Len(Tail(s)) : Tail(s)[i] = s[i + 1]
      /\ Len(s) \in Nat /\ Len(s) > 0
  BY HeadTailProperties, EmptySeq, LenProperties
<1>2. /\ <<Head(s)>> \in Seq(S) /\ Len(<<Head(s)>>) = 1 /\ <<Head(s)>>[1] = Head(s)
  BY <1>1
<1>3. /\ <<Head(s)>> \o Tail(s) \in Seq(S) /\ Len(<<Head(s)>> \o Tail(s)) = Len(s)
      /\ \A i \in 1 .. Len(s) : (<<Head(s)>> \o Tail(s))[i] = IF i <= 1 THEN <<Head(s)>>[i] ELSE Tail(s)[i - 1]
  BY <1>1, <1>2, ConcatProperties
<1>4. \A i \in 1 .. Len(s) : (<<Head(s)>> \o Tail(s))[i] = s[i]
  BY <1>1, <1>2, <1>3
<1>5. QED
  BY <1>3, <1>4, SeqEqual

\* So is what a sequence starts with.
LEMMA SeqPrefix ==
  ASSUME NEW S, NEW s \in Seq(S), NEW n \in Nat, n <= Len(s)
  PROVE  SubSeq(s, 1, n) \in Seq(S)
<1>1. Len(s) \in Nat /\ \A i \in 1 .. Len(s) : s[i] \in S
  BY ElementOfSeq, LenProperties
<1>2. \A i \in 1 .. n : s[i] \in S
  BY <1>1
<1>3. QED
  BY <1>2, SubSeqProperties

-----------------------------------------------------------------------------
(* Import.                                                                 *)

LEMMA ImCard == \A S : Im!Cardinality(S) = Cardinality(S)
BY DEF Im!Cardinality, Cardinality, Im!IsFiniteSet, IsFiniteSet

LEMMA ImFirst ==
  ASSUME ImShape, imBatch # {}
  PROVE  Im!First(imBatch) \in 1 .. ImportLines
<1>1. imBatch \in SUBSET Nat /\ imBatch \in SUBSET (1 .. ImportLines)
  BY EnginesAssumption DEF ImShape, Im!TypeOK, Im!Lines
<1>2. \E l \in imBatch : \A m \in imBatch : l <= m
  BY <1>1, Smallest
<1>3. Im!First(imBatch) \in imBatch
  BY <1>2 DEF Im!First
<1>4. QED
  BY <1>1, <1>3

LEMMA ImInit ==
  ASSUME EnginesInit
  PROVE  ImInv
<1>1. Cardinality({}) = 0
  BY FS_EmptySet
<1>2. Im!Init
  BY DEF EnginesInit
<1>3. (imTable \cup imPend) \ imOdd = {}
  BY <1>2 DEF Im!Init
<1>4. ImShape
  <2>1. imOutcome \in [written : Nat, stopped : 0 .. ImportLines, rollback : BOOLEAN,
                       failed : BOOLEAN, lost : BOOLEAN, gone : BOOLEAN]
    BY EnginesAssumption, <1>2 DEF Im!Init
  <2>2. Im!TypeOK
    BY EnginesAssumption, <1>2, <2>1 DEF Im!Init, Im!TypeOK, Im!Lines
  <2>3. QED
    BY <1>2, <2>2 DEF Im!Init, ImShape, Im!InTransaction
<1>5. ImOutcomes
  BY <1>2 DEF Im!Init, ImOutcomes, ImLoop
<1>6. ImAcct /\ ImSeen
  BY <1>1, <1>2, <1>3 DEF Im!Init, ImAcct, ImSeen
<1>7. ImWhole /\ ImportTrue
  BY <1>2, <1>6 DEF Im!Init, ImWhole, ImLoop, ImportTrue, Im!ImportTrue
<1>8. QED
  BY <1>4, <1>5, <1>7 DEF ImInv

LEMMA ImPrologue ==
  ASSUME ImInv, Im!Prologue \/ Im!PrologueFails \/ Im!Stop \/ Im!EndOfFile \/ Im!ReaderFails
  PROVE  ImInv'
<1> USE DEF ImInv, ImShape, ImOutcomes, ImWhole, ImportTrue, Im!ImportTrue, Im!TypeOK,
            Im!InTransaction, Im!Lines, ImLoop, ImAcct, ImSeen, ImOwes
<1>1. CASE Im!Prologue
  BY <1>1 DEF Im!Prologue, Im!run
<1>2. CASE Im!PrologueFails
  BY <1>2 DEF Im!PrologueFails, Im!run, Im!Server
<1>3. CASE Im!Stop
  BY <1>3 DEF Im!Stop, Im!Keep, Im!Server
<1>4. CASE Im!EndOfFile
  BY <1>4 DEF Im!EndOfFile, Im!Keep, Im!Server, Im!run
<1>5. CASE Im!ReaderFails
  BY <1>5 DEF Im!ReaderFails, Im!Keep, Im!Server, Im!run
<1>6. QED
  BY <1>1, <1>2, <1>3, <1>4, <1>5

\* ReadRow and RejectRow: the next line is behind every line known so far.
LEMMA ImRead ==
  ASSUME ImInv, Im!ReadRow \/ Im!RejectRow
  PROVE  ImInv'
<1> USE DEF ImInv, ImShape, ImOutcomes, ImWhole, ImportTrue, Im!ImportTrue, Im!TypeOK,
            Im!InTransaction, Im!Lines, ImLoop, ImAcct, ImSeen, ImOwes
<1>1. imLine \in Nat /\ ImportLines \in Nat
  BY EnginesAssumption
<1>2. CASE Im!ReadRow
  <2>1. imLine' = imLine + 1 /\ imBatch' = imBatch \cup {imLine'} /\ imLine < ImportLines
    BY <1>2 DEF Im!ReadRow
  <2>2. 1 .. imLine' = (1 .. imLine) \cup {imLine'}
    BY <1>1, <2>1
  <2>3. ImShape'
    BY <1>1, <1>2, <2>1, <2>2 DEF Im!ReadRow, Im!run, Im!Server
  <2>4. QED
    BY <1>1, <1>2, <2>1, <2>2, <2>3 DEF Im!ReadRow, Im!run, Im!Server
<1>3. CASE Im!RejectRow
  <2>1. imLine' = imLine + 1 /\ imNamed' = imNamed \cup {imLine'} /\ imLine < ImportLines
    BY <1>3 DEF Im!RejectRow
  <2>2. 1 .. imLine' = (1 .. imLine) \cup {imLine'}
    BY <1>1, <2>1
  <2>3. ImShape'
    BY <1>1, <1>3, <2>1, <2>2 DEF Im!RejectRow, Im!run, Im!Server
  <2>4. QED
    BY <1>1, <1>3, <2>1, <2>2, <2>3 DEF Im!RejectRow, Im!run, Im!Server
<1>4. QED
  BY <1>2, <1>3

\* A batch lands beside what is there and what was doubtful.
LEMMA ImBatchCounts ==
  ASSUME ImShape
  PROVE  /\ Cardinality(((imTable \cup imPend) \ imOdd) \cup imBatch) =
              Cardinality((imTable \cup imPend) \ imOdd) + Cardinality(imBatch)
         /\ Cardinality(imBatch) \in Nat
         /\ ((imTable \cup imPend) \ imOdd) \cup imBatch = (imTable \cup imPend \cup imBatch) \ imOdd
<1>1. imLine \in Nat
  BY EnginesAssumption DEF ImShape, Im!TypeOK
<1>2. /\ (imTable \cup imPend) \ imOdd \in SUBSET (1 .. imLine)
      /\ imBatch \in SUBSET (1 .. imLine)
      /\ ((imTable \cup imPend) \ imOdd) \cap imBatch = {}
  BY DEF ImShape
<1>3. QED
  BY <1>1, <1>2, DisjointSum, Finite DEF ImShape

\* SendOk: every row of the batch is counted and lands, in the transaction or in the table.
LEMMA ImSendOk ==
  ASSUME ImInv, NEW ddl \in BOOLEAN, Im!SendOk(ddl)
  PROVE  ImInv'
<1>1. PICK r : r = [imOutcome EXCEPT !.written = @ + Cardinality(imBatch)] /\ imOutcome' = r
  BY ImCard DEF Im!SendOk
<1>2. /\ r \in [written : Nat, stopped : 0 .. ImportLines, rollback : BOOLEAN, failed : BOOLEAN,
                lost : BOOLEAN, gone : BOOLEAN]
      /\ r.written = imOutcome.written + Cardinality(imBatch)
      /\ r.failed = imOutcome.failed /\ r.lost = imOutcome.lost /\ r.rollback = imOutcome.rollback
  BY <1>1, ImBatchCounts DEF ImInv, ImShape, Im!TypeOK
<1>3. ImShape'
  BY <1>1, <1>2 DEF ImInv, ImShape, Im!TypeOK, Im!Lines, Im!SendOk, Im!Sending, Im!Lands, Im!run,
     Im!InTransaction
<1>4. ImOutcomes'
  BY <1>1, <1>2 DEF ImInv, ImOutcomes, ImLoop, Im!SendOk, Im!Sending, Im!run, Im!InTransaction
<1>5. /\ imTable' \cup imPend' = imTable \cup imPend \cup imBatch
      /\ imOdd' = imOdd /\ imNamed' = imNamed /\ imLine' = imLine /\ imBatch' = {}
  BY DEF ImInv, ImShape, Im!SendOk, Im!Lands
<1>6. ImAcct /\ ImSeen => ImAcct' /\ ImSeen'
  BY <1>1, <1>2, <1>5, ImBatchCounts DEF ImAcct, ImSeen, ImInv
<1>7. ImOwes' = ImOwes /\ Im!InTransaction' = Im!InTransaction
  BY <1>1, <1>2 DEF ImOwes, Im!InTransaction, Im!SendOk, Im!run
<1>8. /\ imPc \in {"send", "tail", "reject"} /\ imPc' \in {"read", "finish", "reject"}
      /\ imResult' = imResult /\ imResult = "none"
  BY DEF Im!SendOk, Im!Sending, ImInv, ImShape
<1>9. ~imBroken' => ~imBroken /\ (imTxn = "open" => imTxn' = "open" /\ imTable' = imTable)
  BY DEF ImInv, ImShape, Im!TypeOK, Im!SendOk, Im!Lands
<1>10. ImWhole'
  BY <1>1, <1>2, <1>6, <1>7, <1>8, <1>9 DEF ImInv, ImWhole, ImLoop, ImOutcomes
<1>11. ImportTrue'
  BY <1>8 DEF ImportTrue, Im!ImportTrue
<1>12. QED
  BY <1>3, <1>4, <1>10, <1>11 DEF ImInv

\* Halt, behind a rejected line or a failed batch.
LEMMA ImHalt ==
  ASSUME ImInv, NEW at \in 0 .. ImportLines, NEW after, Im!Halt(at, after)
  PROVE  /\ imOutcome' \in [written : Nat, stopped : 0 .. ImportLines, rollback : BOOLEAN,
                            failed : BOOLEAN, lost : BOOLEAN, gone : BOOLEAN]
         /\ imOutcome'.written = imOutcome.written /\ imOutcome'.lost = imOutcome.lost
         /\ imOutcome'.failed <=>
              imCfg.mode = "Stop" \/ (Im!InTransaction /\ imCfg.mode = "Commit" /\ after = "Gone")
         /\ imOutcome'.rollback <=> Im!InTransaction /\ imOutcome'.failed
BY DEF Im!Halt, ImInv, ImShape, Im!TypeOK, Im!InTransaction

LEMMA ImRejectEnds ==
  ASSUME ImInv, Im!RejectEnds
  PROVE  ImInv'
<1>1. imLine \in 0 .. ImportLines /\ Im!Halt(imLine, "Alive")
  BY DEF ImInv, ImShape, Im!TypeOK, Im!RejectEnds
<1>2. QED
  BY <1>1, ImHalt
     DEF ImInv, ImShape, ImOutcomes, ImWhole, ImportTrue, Im!ImportTrue, Im!TypeOK,
         Im!InTransaction, Im!Lines, ImLoop, ImAcct, ImSeen, ImOwes, Im!RejectEnds, Im!run,
         Im!Server

\* A batch that failed: skip goes on, stop and commit end; what is left of the transaction decides.
LEMMA ImFailed ==
  ASSUME ImInv, NEW after, Im!Sending, Im!AfterFailure(after)
  PROVE  /\ imBatch # {} /\ imBatch' = {} /\ imNamed' = imNamed \cup imBatch
         /\ imCfg' = imCfg /\ imCancel' = imCancel /\ imLine' = imLine /\ imResult' = imResult
         /\ imResult = "none" /\ imPc \in {"send", "tail", "reject"}
         /\ imPc' \in {"read", "finish"} /\ (imCfg.mode # "Skip" => imPc' = "finish")
         /\ imOutcome' \in [written : Nat, stopped : 0 .. ImportLines, rollback : BOOLEAN,
                            failed : BOOLEAN, lost : BOOLEAN, gone : BOOLEAN]
         /\ imOutcome'.written = imOutcome.written /\ ~imOutcome'.lost
         /\ imOutcome'.failed => imPc' = "finish"
         /\ Im!InTransaction =>
              /\ imOutcome'.failed <=> imCfg.mode = "Stop" \/ after = "Gone"
              /\ imOutcome'.rollback = imOutcome'.failed
         /\ ~Im!InTransaction => ~imOutcome'.rollback
<1>1. imBatch # {}
  BY DEF Im!Sending, ImInv, ImShape
<1>2. imPc \in {"send", "tail", "reject"} /\ ImLoop
  BY DEF Im!Sending, ImLoop
<1>3. ~imOutcome.failed /\ ~imOutcome.lost /\ ~imOutcome.rollback
  BY <1>2 DEF ImInv, ImOutcomes
<1>4. CASE imCfg.mode = "Skip"
  BY <1>1, <1>2, <1>3, <1>4 DEF Im!AfterFailure, ImInv, ImShape, Im!TypeOK, Im!InTransaction, Im!run
<1>5. CASE imCfg.mode # "Skip"
  <2>1. PICK at \in 0 .. ImportLines : Im!Halt(at, after)
    BY <1>1, <1>5, ImFirst DEF Im!AfterFailure, ImInv, ImShape, Im!TypeOK
  <2>2. imCfg.mode \in {"Stop", "Commit"}
    BY <1>5 DEF ImInv, ImShape, Im!TypeOK, Im!Configs
  <2>3. QED
    BY <1>1, <1>2, <1>3, <1>5, <2>1, <2>2, ImHalt
       DEF Im!AfterFailure, ImInv, ImShape, Im!TypeOK, Im!InTransaction, Im!run
<1>6. QED
  BY <1>4, <1>5

\* The rows of a failed batch: `gone` is what the server took back, the rest stays.
LEMMA ImRefused ==
  ASSUME ImInv, NEW after, Im!Sending, Im!AfterFailure(after),
         UNCHANGED <<imTable, imOdd>>,
         imTxn' \in {"none", "open", "aborted"}, imBroken' \in BOOLEAN, imBroken => imBroken',
         ~Im!InTransaction => imTxn' = imTxn,
         imPend' = IF imTxn' = imTxn /\ imTxn # "aborted" THEN imPend ELSE {},
         imTxn' # "open" => imTxn = imTxn' \/ after = "Gone" \/ imBroken'
  PROVE  ImInv'
<1>1. ImShape'
  BY ImFailed DEF ImInv, ImShape, Im!TypeOK, Im!Lines, Im!InTransaction
<1>2. ImOutcomes'
  BY ImFailed DEF ImInv, ImShape, ImOutcomes, ImLoop, Im!InTransaction
<1>3. Im!InTransaction' = Im!InTransaction
  BY ImFailed DEF Im!InTransaction
<1>4. ASSUME ~imBroken'
      PROVE  /\ Im!InTransaction /\ imPc' # "end" => imTable' = {}
             /\ Im!InTransaction /\ ImLoop' => imTxn' = "open"
             /\ Im!InTransaction /\ imPc' = "finish" /\ imOutcome'.failed
                  => imOutcome'.lost \/ imOutcome'.rollback \/ imTxn' # "open"
             /\ ImOwes' /\ imPc' # "end" => ImAcct' /\ ImSeen'
  <2>1. ~imBroken /\ ImLoop /\ (Im!InTransaction => imTable = {} /\ imTxn = "open")
    BY <1>4, ImFailed DEF ImInv, ImWhole, ImLoop
  <2>2. Im!InTransaction => imPc' = "finish" /\ (imOutcome'.failed => imOutcome'.rollback)
    BY ImFailed DEF Im!InTransaction
  <2>3. ASSUME ImOwes'
        PROVE  imPend' = imPend
    BY <1>3, <1>4, <2>1, <2>3, ImFailed DEF ImOwes, ImInv, ImShape
  <2>4. ImOwes /\ ImAcct /\ ImSeen
    BY <1>4, <2>1, ImFailed DEF ImInv, ImWhole, ImOwes, ImOutcomes, ImLoop
  <2>5. ImOwes' => ImAcct' /\ ImSeen'
    BY <2>3, <2>4, ImFailed DEF ImAcct, ImSeen
  <2>6. QED
    BY <1>3, <2>1, <2>2, <2>5, ImFailed DEF ImLoop
<1>5. ImWhole'
  BY <1>3, <1>4 DEF ImWhole
<1>6. ImportTrue'
  BY ImFailed DEF ImportTrue, Im!ImportTrue
<1>7. QED
  BY <1>1, <1>2, <1>5, <1>6 DEF ImInv

LEMMA ImSendRefused ==
  ASSUME ImInv, Im!SendRefused
  PROVE  ImInv'
<1> USE DEF Im!SendRefused
<1>1. imTxn \in {"none", "open", "aborted"} /\ imBroken \in BOOLEAN
      /\ (~Im!InTransaction => imTxn = "none") /\ (imTxn # "open" => imPend = {})
  BY DEF ImInv, ImShape, Im!TypeOK
<1>2. CASE imCfg.kind = "Postgres" /\ imTxn # "none" /\ imTxn' = "aborted" /\ imPend' = {}
           /\ UNCHANGED imBroken /\ Im!AfterFailure("Gone")
  BY <1>1, <1>2, ImRefused
<1>3. CASE imCfg.kind = "Mysql" /\ imTxn = "open" /\ imTxn' = "none" /\ imPend' = {}
           /\ UNCHANGED imBroken /\ Im!AfterFailure("Gone")
  BY <1>1, <1>3, ImRefused
<1>4. CASE imCfg.kind = "Mysql" /\ imTxn = "open" /\ imTxn' = "none" /\ imPend' = {}
           /\ imBroken' = TRUE /\ Im!AfterFailure("Doubtful")
  BY <1>1, <1>4, ImRefused
<1>5. CASE UNCHANGED <<imTxn, imPend, imBroken>> /\ Im!AfterFailure("Alive")
  BY <1>1, <1>5, ImRefused
<1>6. QED
  BY <1>2, <1>3, <1>4, <1>5

\* Fewer rows than were sent: the whole batch is doubtful, and named.
LEMMA ImSendShort ==
  ASSUME ImInv, NEW b \in SUBSET imBatch, Im!SendShort(b)
  PROVE  ImInv'
<1>1. /\ Im!Sending /\ Im!AfterFailure("Alive") /\ imTxn # "aborted"
      /\ imOdd' = imOdd \cup imBatch
  BY DEF Im!SendShort
<1>2. /\ imTxn = "open" => imTxn' = "open" /\ imPend' = imPend \cup b /\ imTable' = imTable
                            /\ imBroken' = imBroken
      /\ imTxn # "open" => imTxn' = "none" /\ imPend' = {} /\ imPend = {} /\ imTxn = "none"
                            /\ imTable' = imTable \cup b /\ imBroken' = imBroken
  BY <1>1 DEF Im!SendShort, Im!Lands, ImInv, ImShape, Im!TypeOK
<1>3. ImShape'
  BY <1>1, <1>2, ImFailed DEF ImInv, ImShape, Im!TypeOK, Im!Lines, Im!InTransaction
<1>4. ImOutcomes'
  BY <1>1, ImFailed DEF ImInv, ImShape, ImOutcomes, ImLoop, Im!InTransaction
<1>5. ImOwes' => ImOwes
  BY <1>1, ImFailed DEF ImInv, ImOwes, ImOutcomes, ImLoop, Im!InTransaction
<1>6. (imTable' \cup imPend') \ imOdd' = (imTable \cup imPend) \ imOdd
  BY <1>1, <1>2 DEF ImInv, ImShape
<1>7. ImAcct /\ ImSeen => ImAcct' /\ ImSeen'
  BY <1>1, <1>2, <1>6, ImFailed DEF ImAcct, ImSeen
<1>8. ImWhole'
  BY <1>1, <1>2, <1>5, <1>7, ImFailed
     DEF ImInv, ImWhole, ImLoop, ImOutcomes, Im!InTransaction
<1>9. ImportTrue'
  BY <1>1, ImFailed DEF ImportTrue, Im!ImportTrue
<1>10. QED
  BY <1>3, <1>4, <1>8, <1>9 DEF ImInv

\* The connection is lost with the batch on it: nothing of a transaction lands.
LEMMA ImSendLost ==
  ASSUME ImInv, NEW acted \in BOOLEAN, Im!SendLost(acted)
  PROVE  ImInv'
<1> USE DEF Im!SendLost
<1>1. imBatch # {} /\ ImLoop /\ imResult = "none" /\ imResult' = "none" /\ imPc' = "finish"
  BY DEF Im!Sending, ImInv, ImShape, ImLoop
<1>2. Im!First(imBatch) \in 0 .. ImportLines
  BY <1>1, ImFirst, EnginesAssumption DEF ImInv
<1>3. /\ imOutcome' \in [written : Nat, stopped : 0 .. ImportLines, rollback : BOOLEAN,
                         failed : BOOLEAN, lost : BOOLEAN, gone : BOOLEAN]
      /\ imOutcome'.written = imOutcome.written /\ imOutcome'.lost /\ imOutcome'.failed
      /\ ~imOutcome'.rollback
  BY <1>2 DEF ImInv, ImShape, Im!TypeOK
<1>4. ImShape'
  BY <1>1, <1>3 DEF ImInv, ImShape, Im!TypeOK, Im!Lines, Im!InTransaction, Im!run
<1>5. ImOutcomes'
  BY <1>1, <1>3 DEF ImOutcomes, ImLoop
<1>6. Im!InTransaction' = Im!InTransaction
  BY DEF Im!InTransaction, Im!run
<1>7. ASSUME ~imBroken'
      PROVE  /\ Im!InTransaction => imTable' = {}
             /\ ~Im!InTransaction => ImAcct' /\ ImSeen'
  <2>1. ~imBroken /\ imBatch' = {}
    BY <1>7
  <2>2. Im!InTransaction => imTable' = {}
    BY <1>1, <2>1 DEF ImInv, ImWhole, ImLoop
  <2>3. ASSUME ~Im!InTransaction
        PROVE  ImAcct' /\ ImSeen'
    <3>1. ImAcct /\ ImSeen /\ imPend = {} /\ imPend' = {}
      BY <1>1, <2>1, <2>3 DEF ImInv, ImWhole, ImOwes, ImShape
    <3>2. (imTable' \cup imPend') \ imOdd' = (imTable \cup imPend) \ imOdd
      BY <3>1 DEF ImInv, ImShape
    <3>3. QED
      BY <1>3, <3>1, <3>2 DEF ImAcct, ImSeen
  <2>4. QED
    BY <2>2, <2>3
<1>8. ImWhole'
  BY <1>1, <1>3, <1>6, <1>7 DEF ImWhole, ImLoop, ImOwes
<1>9. ImportTrue'
  BY <1>1 DEF ImportTrue, Im!ImportTrue
<1>10. QED
  BY <1>4, <1>5, <1>8, <1>9 DEF ImInv

\* The transaction is closed: what the report says is what the table has.
LEMMA ImClosed ==
  ASSUME ImInv, NEW kept \in BOOLEAN, Im!Closed(kept), imPc \in {"finish", "abort"},
         imResult' \in {"done", "failed", "lost", "error"},
         kept => Im!InTransaction /\ ~imOutcome.rollback /\ imTxn = "open",
         imResult' \in {"done", "failed", "lost"} => imPc = "finish",
         imResult' = "done" => ~imOutcome.failed /\ (imTxn = "open" => kept),
         imResult' = "failed" => imOutcome.failed /\ ~imOutcome.lost,
         imResult' = "lost" => ~kept /\ imOutcome.lost
  PROVE  ImInv'
<1> USE DEF Im!Closed, Im!run
<1>1. ImShape'
  BY DEF ImInv, ImShape, Im!TypeOK, Im!InTransaction
<1>2. ImOutcomes' /\ ImWhole'
  BY DEF ImInv, ImOutcomes, ImWhole, ImLoop, Im!InTransaction
<1>3. Im!InTransaction' = Im!InTransaction
  BY DEF Im!InTransaction
<1>4. ASSUME ~imBroken'
      PROVE  /\ imResult' \in {"failed", "lost"} /\ Im!InTransaction' => imTable' = {}
             /\ imResult' = "done" \/ (imResult' \in {"failed", "lost"} /\ ~Im!InTransaction')
                  => Cardinality(imTable' \ imOdd') = imOutcome'.written
             /\ imResult' = "done" => 1 .. imLine' \subseteq imTable' \cup imNamed'
  <2>1. ~imBroken
    BY <1>4
  <2>2. imResult' \in {"failed", "lost"} /\ Im!InTransaction => imTable' = {}
    BY <2>1 DEF ImInv, ImWhole, ImOutcomes
  <2>3. ASSUME imResult' = "done" \/ (imResult' \in {"failed", "lost"} /\ ~Im!InTransaction)
        PROVE  ImAcct /\ ImSeen /\ imTable' = imTable \cup imPend /\ imBatch = {}
    BY <2>1, <2>3 DEF ImInv, ImWhole, ImOwes, ImShape, ImOutcomes
  <2>4. QED
    BY <1>3, <2>2, <2>3 DEF ImAcct, ImSeen
<1>5. ImportTrue'
  BY <1>4, ImCard DEF ImportTrue, Im!ImportTrue
<1>6. QED
  BY <1>1, <1>2, <1>5 DEF ImInv

LEMMA ImFinish ==
  ASSUME ImInv, Im!Finish \/ (\E acted \in BOOLEAN : Im!FinishFails(acted)) \/ Im!FinishLost \/ Im!Abort
  PROVE  ImInv'
<1>1. imTxn \in {"none", "open", "aborted"} /\ (~Im!InTransaction => imTxn = "none")
      /\ imOutcome.failed \in BOOLEAN /\ imOutcome.rollback \in BOOLEAN
      /\ (~imOutcome.failed => ~imOutcome.rollback)
  BY DEF ImInv, ImShape, Im!TypeOK, ImOutcomes
<1>2. CASE Im!Finish
  <2>1. (Im!Commits /\ imTxn = "open") \in BOOLEAN /\ Im!Closed(Im!Commits /\ imTxn = "open")
    BY <1>1, <1>2 DEF Im!Finish, Im!Commits, Im!InTransaction
  <2>2. QED
    BY <1>1, <1>2, <2>1, ImClosed DEF Im!Finish, Im!Commits
<1>3. ASSUME NEW acted \in BOOLEAN, Im!FinishFails(acted)
      PROVE  ImInv'
  <2>1. (acted /\ Im!Commits /\ imTxn = "open") \in BOOLEAN
    BY <1>1 DEF Im!Commits, Im!InTransaction
  <2>2. QED
    BY <1>1, <1>3, <2>1, ImClosed DEF Im!FinishFails, Im!Commits
<1>4. CASE Im!FinishLost
  BY <1>4, ImClosed DEF Im!FinishLost
<1>5. CASE Im!Abort
  BY <1>5, ImClosed DEF Im!Abort
<1>6. QED
  BY <1>2, <1>3, <1>4, <1>5

LEMMA ImStep ==
  ASSUME ImInv, [EnginesNext]_EnginesVars
  PROVE  ImInv'
<1>1. CASE Im!Next
  BY <1>1, ImPrologue, ImRead, ImSendOk, ImRejectEnds, ImSendRefused, ImSendShort, ImSendLost,
     ImFinish DEF Im!Next
<1>2. CASE UNCHANGED imVars
  BY <1>2 DEF imVars, ImInv, ImShape, ImOutcomes, ImWhole, ImportTrue, Im!ImportTrue, Im!TypeOK,
     Im!InTransaction, Im!Lines, ImLoop, ImAcct, ImSeen, ImOwes
<1>3. Im!Next \/ UNCHANGED imVars
  BY DEF EnginesNext, EnginesVars, SwapStep, MysqlSessionStep, TrinoSessionStep,
     PostgresSessionStep, ImportStep, TransferStep, HostKeysStep, ValueCopyStep
<1>4. QED
  BY <1>1, <1>2, <1>3

\* What an import reports landed is what landed (import.rs Outcome, halt, connection_lost_message),
\* for every number of lines and every size of a batch.
THEOREM ImportIsTrue == EnginesSpec => []ImportTrue
<1>1. EnginesInit => ImInv
  BY ImInit
<1>2. ImInv /\ [EnginesNext]_EnginesVars => ImInv'
  BY ImStep
<1>3. ImInv => ImportTrue
  BY DEF ImInv
<1>4. QED
  BY <1>1, <1>2, <1>3, PTL DEF EnginesSpec

-----------------------------------------------------------------------------
(* Transfer.                                                               *)

TxTabs == [Tx!Names -> {"none", "old", "other", "new"}]
TxDests == [existed : BOOLEAN, created : BOOLEAN, transaction : BOOLEAN, link : BOOLEAN,
            lost : BOOLEAN]
TxReports == [result : {"none", "done", "stopped", "failed"},
              warnings : SUBSET {"rollback", "leftover", "kept"}]
TxPlaces == {"setup", "source", "first", "begin", "create", "rows", "flush", "last", "verify",
             "swap", "rename", "commit", "drop_old", "abort", "end"}
TxData == <<txJob, txTaken, txPage, txBatch, txEnded, txRowsRead, txWindow, txAcked, txStored>>

\* What TxShape says, one variable at a time.
LEMMA TxTyped ==
  ASSUME TxShape
  PROVE  /\ txPc \in TxPlaces /\ txCancel \in BOOLEAN /\ txEnded \in BOOLEAN
         /\ txTaken \in 0 .. SourceRows /\ txRowsRead \in 0 .. SourceRows
         /\ txAcked \in 0 .. SourceRows
         /\ txPage \in Seq(1 .. SourceRows) /\ txBatch \in Seq(1 .. SourceRows)
         /\ txWindow \in Seq(1 .. SourceRows) /\ txStored \in Seq(1 .. SourceRows)
         /\ txTab \in TxTabs /\ txView \in TxTabs /\ txDest \in TxDests /\ txReport \in TxReports
         /\ txJob.target \in {"Postgres", "Mysql"} /\ txJob.mode \in {"create", "replace"}
         /\ txJob.rows \in 0 .. SourceRows /\ SourceRows \in Nat
BY EnginesAssumption DEF TxShape, Tx!TypeOK, TxTabs, TxDests, TxReports, TxPlaces

\* A step that leaves the rows where they are.
LEMMA TxQuiet ==
  ASSUME TxInv, UNCHANGED TxData, txPc' \in TxPlaces, txCancel' \in BOOLEAN,
         txTab' \in TxTabs, txView' \in TxTabs, txDest' \in TxDests, txReport' \in TxReports,
         TxLive' => txReport'.result = "none" /\ ~txDest'.lost,
         txPc' = "abort" => txReport'.result \in {"stopped", "failed"},
         txPc' = "abort" /\ txReport'.result = "stopped" => ~txDest'.lost,
         TxLive' => TxLive,
         txPc' \in {"setup", "source", "first", "begin", "create"} => txWindow = <<>>,
         txPc' \in {"last", "verify", "swap", "rename", "commit", "drop_old"} => txEnded,
         txPc' \in {"verify", "swap", "rename", "commit", "drop_old"} => txWindow = <<>>
  PROVE  TxShape' /\ (TxLive => TxRows)'
<1>1. Tx!TypeOK'
  BY DEF TxInv, TxShape, Tx!TypeOK, TxData, TxTabs, TxDests, TxReports, TxPlaces
<1>2. TxShape'
  BY <1>1 DEF TxInv, TxShape, TxData, TxReports
<1>3. (TxLive => TxRows)'
  BY DEF TxInv, TxRows, TxData
<1>4. QED
  BY <1>2, <1>3

\* A step of a live run into abort: what abort finds.
LEMMA TxAborts ==
  ASSUME TxInv, TxLive, txPc' = "abort", txJob' = txJob, txCancel' = txCancel,
         txEnded' = txEnded, txTaken' = txTaken, txPage' = txPage, txBatch' = txBatch,
         txRowsRead' = txRowsRead, txAcked' = txAcked,
         txWindow' \in Seq(1 .. SourceRows), txStored' \in Seq(1 .. SourceRows),
         txTab' \in TxTabs, txView' \in TxTabs, txDest' \in TxDests, txReport' \in TxReports,
         txReport'.result = "failed" \/ (txReport'.result = "stopped" /\ ~txDest'.lost),
         txDest'.transaction = txDest.transaction, txDest.transaction \/ txView' = txTab',
         txTab'["target"] = "new" => txReport'.result = "failed" /\ txDest'.lost,
         Tx!Pg => txTab'["scratch"] = "none" /\ txTab'["backup"] = "none" /\ txView'["backup"] = "none",
         ~Tx!Pg /\ txTab'["scratch"] # "none" => txDest'.created
  PROVE  TxInv'
<1>1. Tx!TypeOK'
  BY DEF TxInv, TxShape, Tx!TypeOK, TxTabs, TxDests, TxReports
<1>2. TxShape'
  BY <1>1 DEF TxInv, TxShape, TxReports, TxLive
<1>3. TxTables'
  BY DEF TxInv, TxTables, Tx!Pg, TxLive
<1>4. TransferTrue'
  BY DEF TransferTrue, Tx!TransferTrue
<1>5. QED
  BY <1>2, <1>3, <1>4 DEF TxInv, TxLive

\* A statement that fails leaves the tables as they are, or as they were before the transaction.
LEMMA TxErrs ==
  ASSUME TxInv, TxLive, txPc # "drop_old", Tx!Errs, Tx!Fail,
         UNCHANGED <<txJob, txCancel, txTaken, txPage, txBatch, txEnded, txRowsRead, txAcked, txWindow>>
  PROVE  TxInv'
<1>1. /\ txDest' \in TxDests /\ txDest'.transaction = txDest.transaction
      /\ txDest'.created = txDest.created /\ txDest'.lost = txDest.lost
  BY TxTyped DEF TxInv, Tx!Errs, Tx!Refused, Tx!Cut, Tx!tables, TxDests
<1>2. txTab' = txTab /\ txView' \in {txView, txTab} /\ txStored' \in Seq(1 .. SourceRows)
  BY TxTyped, EmptySeq DEF TxInv, Tx!Errs, Tx!Refused, Tx!Cut, Tx!tables
<1>3. txReport' \in TxReports /\ txReport'.result = "failed" /\ txPc' = "abort"
  BY TxTyped DEF TxInv, Tx!Fail, Tx!Goto, TxReports
<1>4. /\ ~txDest.transaction => txView = txTab
      /\ txTab["target"] # "new"
      /\ Tx!Pg => txTab["scratch"] = "none" /\ txView["backup"] = "none" /\ txTab["backup"] = "none"
      /\ ~Tx!Pg /\ txTab["scratch"] # "none" => txDest.created
  BY DEF TxInv, TxTables, TxLive
<1>5. QED
  BY <1>1, <1>2, <1>3, <1>4, TxTyped, TxAborts DEF TxInv

\* The quiet steps: settings, probe, query, plan, window, verify, Stop.
LEMMA TxQuietSteps ==
  ASSUME TxInv,
         \/ Tx!ConnectSetup \/ Tx!OpenSource \/ Tx!OpenSourceFails \/ Tx!StoppedEarly
         \/ Tx!Begin \/ Tx!SourceFails \/ Tx!WindowTimer \/ Tx!RowsEnd \/ Tx!Stopped
         \/ Tx!Verify \/ Tx!VerifyFails \/ Tx!Stop
  PROVE  TxInv'
<1> USE TxTyped DEF Tx!Goto, Tx!reading, Tx!writing, Tx!tables, Tx!Fail, TxData, TxPlaces, TxLive
<1> DEFINE Rest == TxTables' /\ TransferTrue'
<1>a. TxShape
  BY DEF TxInv
<1>1. CASE Tx!ConnectSetup
  <2>1. txDest' \in TxDests /\ txDest'.transaction = txDest.transaction /\ txDest'.lost = txDest.lost
        /\ txDest'.created = txDest.created
    BY <1>1, <1>a DEF Tx!ConnectSetup, TxDests, TxTabs, Tx!Names
  <2>2. txReport' \in TxReports /\ txPc' \in {"source", "abort"} /\ txPc = "setup"
        /\ (txPc' = "source" => txReport' = txReport) /\ (txPc' = "abort" => txReport'.result = "failed")
    BY <1>1, <1>a DEF Tx!ConnectSetup, TxReports
  <2>3. TxShape' /\ (TxLive => TxRows)'
    BY <1>1, <1>a, <2>1, <2>2, TxQuiet DEF Tx!ConnectSetup, TxInv, TxShape, TxRows
  <2>4. Rest
    BY <1>1, <2>1, <2>2 DEF Tx!ConnectSetup, TxInv, TxTables, TransferTrue, Tx!TransferTrue, Tx!Pg
  <2>5. QED
    BY <2>3, <2>4 DEF TxInv
<1>2. CASE Tx!OpenSource
  <2>1. TxShape' /\ (TxLive => TxRows)'
    BY <1>2, <1>a, TxQuiet DEF Tx!OpenSource, TxInv, TxShape, TxRows
  <2>2. Rest
    BY <1>2 DEF Tx!OpenSource, TxInv, TxTables, TransferTrue, Tx!TransferTrue, Tx!Pg
  <2>3. QED
    BY <2>1, <2>2 DEF TxInv
<1>3. CASE Tx!OpenSourceFails \/ Tx!SourceFails \/ Tx!VerifyFails
  <2>1. txReport' \in TxReports /\ txReport'.result = "failed" /\ txPc' = "abort"
        /\ txPc \in {"source", "first", "rows", "verify"}
    BY <1>3, <1>a DEF Tx!OpenSourceFails, Tx!SourceFails, Tx!VerifyFails, TxReports, Tx!Fetching
  <2>2. TxShape' /\ (TxLive => TxRows)'
    BY <1>3, <1>a, <2>1, TxQuiet DEF Tx!OpenSourceFails, Tx!SourceFails, Tx!VerifyFails, TxInv
  <2>3. Rest
    BY <1>3, <2>1
       DEF Tx!OpenSourceFails, Tx!SourceFails, Tx!VerifyFails, TxInv, TxTables, TransferTrue,
           Tx!TransferTrue, Tx!Pg
  <2>4. QED
    BY <2>2, <2>3 DEF TxInv
<1>4. CASE Tx!StoppedEarly
  <2>1. txReport' \in TxReports /\ txReport'.result = "stopped"
    BY <1>4, <1>a DEF Tx!StoppedEarly, TxReports
  <2>2. TxShape' /\ (TxLive => TxRows)'
    BY <1>4, <1>a, <2>1, TxQuiet DEF Tx!StoppedEarly, TxInv
  <2>3. Rest
    BY <1>4, <2>1 DEF Tx!StoppedEarly, TxInv, TxShape, TxTables, TransferTrue, Tx!TransferTrue, Tx!Pg
  <2>4. QED
    BY <2>2, <2>3 DEF TxInv
<1>5. CASE Tx!Begin
  <2>1. txDest' \in TxDests /\ txDest'.transaction = Tx!Pg /\ txDest'.lost = txDest.lost
        /\ txDest'.created = txDest.created
    BY <1>5, <1>a DEF Tx!Begin, TxDests, Tx!Pg
  <2>2. TxShape' /\ (TxLive => TxRows)'
    BY <1>5, <1>a, <2>1, TxQuiet DEF Tx!Begin, TxInv, TxShape, TxRows
  <2>3. Rest
    BY <1>5, <2>1 DEF Tx!Begin, TxInv, TxTables, TransferTrue, Tx!TransferTrue, Tx!Pg
  <2>4. QED
    BY <2>2, <2>3 DEF TxInv
<1>6. CASE Tx!WindowTimer \/ Tx!RowsEnd
  <2>1. TxShape' /\ (TxLive => TxRows)'
    BY <1>6, <1>a, TxQuiet DEF Tx!WindowTimer, Tx!RowsEnd, TxInv, TxShape, TxRows
  <2>2. Rest
    BY <1>6 DEF Tx!WindowTimer, Tx!RowsEnd, TxInv, TxTables, TransferTrue, Tx!TransferTrue, Tx!Pg
  <2>3. QED
    BY <2>1, <2>2 DEF TxInv
<1>7. CASE Tx!Stopped
  <2>1. txReport' \in TxReports /\ txReport'.result = "stopped" /\ txPc' = "abort"
        /\ txPc \in {"first", "rows"}
    BY <1>7, <1>a DEF Tx!Stopped, TxReports, Tx!Fetching
  <2>2. TxShape' /\ (TxLive => TxRows)'
    BY <1>7, <1>a, <2>1, TxQuiet DEF Tx!Stopped, TxInv, TxShape
  <2>3. Rest
    BY <1>7, <2>1 DEF Tx!Stopped, TxInv, TxTables, TransferTrue, Tx!TransferTrue, Tx!Pg
  <2>4. QED
    BY <2>2, <2>3 DEF TxInv
<1>8. CASE Tx!Verify
  <2>1. txPc = "verify" /\ txPc' = "swap" /\ txReport' = txReport
    BY <1>8, <1>a DEF Tx!Verify, TxInv, TxRows
  <2>2. TxShape' /\ (TxLive => TxRows)'
    BY <1>8, <1>a, <2>1, TxQuiet DEF Tx!Verify, TxInv, TxShape, TxRows
  <2>3. Rest
    BY <1>8, <2>1 DEF Tx!Verify, TxInv, TxTables, TransferTrue, Tx!TransferTrue, Tx!Pg
  <2>4. QED
    BY <2>2, <2>3 DEF TxInv
<1>9. CASE Tx!Stop
  <2>1. TxShape' /\ (TxLive => TxRows)'
    BY <1>9, <1>a, TxQuiet DEF Tx!Stop, TxInv, TxShape, TxRows
  <2>2. Rest
    BY <1>9 DEF Tx!Stop, TxInv, TxTables, TransferTrue, Tx!TransferTrue, Tx!Pg
  <2>3. QED
    BY <2>1, <2>2 DEF TxInv
<1>10. QED
  BY <1>1, <1>2, <1>3, <1>4, <1>5, <1>6, <1>7, <1>8, <1>9

\* The steps that fail before anything reached the tables of others.
LEMMA TxFailSteps ==
  ASSUME TxInv, Tx!ConnectSetupFails \/ Tx!BeginFails \/ Tx!AppendRowFails
  PROVE  TxInv'
BY TxErrs DEF Tx!ConnectSetupFails, Tx!BeginFails, Tx!AppendRowFails, Tx!reading, Tx!writing, TxLive

\* CREATE TABLE: the table stands in the plan's place, seen by others only outside a transaction.
LEMMA TxCreateSteps ==
  ASSUME TxInv, Tx!Create \/ Tx!CreateFails
  PROVE  TxInv'
<1> USE TxTyped DEF Tx!Goto, Tx!reading, Tx!writing, TxData, TxPlaces, TxLive
<1>1. TxShape /\ (Tx!WriteInto = "target" <=> Tx!Pg /\ txJob.mode = "create")
      /\ Tx!WriteInto \in {"target", "scratch"}
  BY DEF TxInv, Tx!WriteInto
<1>2. CASE Tx!Create
  <2>1. txDest' \in TxDests /\ txDest'.transaction = txDest.transaction /\ txDest'.lost = txDest.lost
        /\ txDest'.created
    BY <1>1, <1>2 DEF Tx!Create, TxDests
  <2>2. txView' \in TxTabs /\ txTab' \in TxTabs /\ txView = txTab /\ txView[Tx!WriteInto] = "none"
        /\ txView' = [txView EXCEPT ![Tx!WriteInto] = "new"]
        /\ (txDest.transaction <=> Tx!Pg) /\ txTab' = IF Tx!Pg THEN txTab ELSE txView'
    BY <1>1, <1>2 DEF Tx!Create, TxTabs, Tx!Names, Tx!Visible, TxInv, TxTables
  <2>3. TxShape' /\ (TxLive => TxRows)'
    BY <1>1, <1>2, <2>1, <2>2, TxQuiet DEF Tx!Create, TxInv, TxShape, TxRows
  <2>4. Tx!Pg' = Tx!Pg
    BY <1>2 DEF Tx!Create, Tx!Pg
  <2>5. TxTables'
    BY <1>1, <1>2, <2>1, <2>2, <2>4 DEF Tx!Create, TxInv, TxTables, TxTabs, Tx!Names
  <2>6. TransferTrue'
    BY <1>2 DEF Tx!Create, TransferTrue, Tx!TransferTrue
  <2>7. QED
    BY <2>3, <2>5, <2>6 DEF TxInv
<1>3. CASE Tx!CreateFails
  <2>1. txDest' \in TxDests /\ txDest'.transaction = txDest.transaction /\ txDest'.lost = txDest.lost
        /\ txDest'.created
    BY <1>1, <1>3 DEF Tx!CreateFails, TxDests
  <2>2. /\ txView' \in TxTabs /\ txTab' \in TxTabs /\ txTab'["target"] = txTab["target"]
        /\ txView'["backup"] \in {txView["backup"], txTab["backup"]}
        /\ Tx!Pg => txTab' = txTab
        /\ ~Tx!Pg => txView' = txTab'
        /\ UNCHANGED txStored
    BY <1>1, <1>3 DEF Tx!CreateFails, TxTabs, Tx!Names, Tx!tables, TxInv, TxTables
  <2>3. txReport' \in TxReports /\ txReport'.result = "failed" /\ txPc' = "abort" /\ txPc = "create"
    BY <1>1, <1>3 DEF Tx!CreateFails, Tx!Fail, TxReports
  <2>4. /\ ~txDest.transaction => ~Tx!Pg
        /\ txTab["target"] # "new" /\ txTab["backup"] = "none"
        /\ Tx!Pg => txTab["scratch"] = "none" /\ txView["backup"] = "none"
    BY <2>3 DEF TxInv, TxTables
  <2>5. QED
    BY <1>1, <1>3, <2>1, <2>2, <2>3, <2>4, TxAborts DEF Tx!CreateFails
<1>4. QED
  BY <1>2, <1>3

\* A client's table takes a free name.
LEMMA TxOther ==
  ASSUME TxInv, Tx!OtherCreates
  PROVE  TxInv'
<1> USE TxTyped DEF Tx!reading, Tx!writing, TxData, TxLive
<1>1. /\ txTab' \in TxTabs /\ txTab' = [txTab EXCEPT !["target"] = "other"]
      /\ txView' \in TxTabs /\ txView' = [txView EXCEPT !["target"] = "other"]
      /\ txTab["target"] = "none" /\ txView["target"] = "none" /\ txPc # "end"
  BY DEF Tx!OtherCreates, TxTabs, Tx!Names, TxInv
<1>2. TxShape' /\ (TxLive => TxRows)'
  BY <1>1, TxQuiet DEF Tx!OtherCreates, TxInv, TxShape, TxRows
<1>3. /\ txTab'["target"] = "other" /\ txView'["target"] = "other"
      /\ txTab'["scratch"] = txTab["scratch"] /\ txView'["scratch"] = txView["scratch"]
      /\ txTab'["backup"] = txTab["backup"] /\ txView'["backup"] = txView["backup"]
  BY <1>1 DEF TxTabs, Tx!Names
<1>4. TxTables'
  <2>1. txView = txTab => txView' = txTab'
    BY <1>1
  <2>2. txPc' = txPc /\ txJob' = txJob /\ txDest' = txDest /\ txReport' = txReport
    BY DEF Tx!OtherCreates
  <2>3. txPc \notin {"drop_old", "commit"}
        /\ ~(Tx!Pg /\ txJob.mode = "create"
             /\ txPc \in {"rows", "flush", "last", "verify", "swap", "rename", "commit"})
    BY <1>1 DEF TxInv, TxTables
  <2>4. QED
    BY <1>3, <2>1, <2>2, <2>3 DEF TxInv, TxTables, Tx!Pg
<1>5. TransferTrue'
  BY <1>1 DEF Tx!OtherCreates, TransferTrue, Tx!TransferTrue
<1>6. QED
  BY <1>2, <1>4, <1>5 DEF TxInv

\* The rows: a page of the source, the answer of a fetch, a row written, a window closed.
LEMMA TxPage ==
  ASSUME TxInv, NEW n \in 1 .. FetchRows, Tx!PageArrives(n)
  PROVE  TxInv'
<1> USE DEF Tx!writing, Tx!tables
<1>1. TxShape /\ TxRows /\ TxLive /\ txBatch = <<>> /\ txPage = <<>> /\ ~txEnded
      /\ n \in Nat /\ FetchRows \in Nat
  BY EnginesAssumption DEF Tx!PageArrives, Tx!Fetching, TxInv, TxLive
<1>2. txPage' = [i \in 1 .. n |-> txTaken + i] /\ txTaken' = txTaken + n /\ txTaken + n <= txJob.rows
  BY DEF Tx!PageArrives
<1>3. /\ txPage' \in Seq(1 .. SourceRows) /\ Len(txPage') = n
      /\ \A i \in 1 .. n : txPage'[i] = txTaken + i
  <2>1. txTaken \in Nat /\ txTaken + n <= SourceRows /\ SourceRows \in Nat
    BY <1>1, <1>2, TxTyped
  <2>2. txPage' \in [1 .. n -> 1 .. SourceRows]
    BY <1>1, <1>2, <2>1
  <2>3. QED
    BY <1>1, <1>2, <2>2, SeqOfLength
<1>4. TxShape'
  BY <1>1, <1>2, <1>3, TxTyped DEF Tx!PageArrives, TxShape, Tx!TypeOK, TxLive
<1>5. Len(txPage) = 0 /\ Len(txBatch) = 0
  BY <1>1
<1>6. TxRows'
  BY <1>1, <1>2, <1>3, <1>5, TxTyped DEF Tx!PageArrives, TxRows
<1>7. TxTables' /\ TransferTrue'
  BY <1>1 DEF Tx!PageArrives, TxInv, TxTables, TransferTrue, Tx!TransferTrue, Tx!Pg, TxLive
<1>8. QED
  BY <1>4, <1>6, <1>7 DEF TxInv

LEMMA TxFetched ==
  ASSUME TxInv, Tx!Fetched
  PROVE  TxInv'
<1> USE DEF Tx!writing, Tx!tables, Tx!Goto
<1>1. TxShape /\ TxRows /\ TxLive /\ txBatch = <<>> /\ ~txEnded /\ txPc \in {"first", "rows"}
  BY DEF Tx!Fetched, Tx!Fetching, TxInv, TxLive
<1>2. /\ txBatch' = txPage /\ txPage' = <<>> /\ txEnded' = (txPage = <<>>)
      /\ txPage # <<>> \/ txTaken = txJob.rows
      /\ txPc' = IF txPc = "first" THEN "begin" ELSE "rows"
  BY DEF Tx!Fetched
<1>3. Len(txBatch) = 0 /\ Len(txPage') = 0 /\ txPage' \in Seq(1 .. SourceRows)
  BY <1>1, <1>2, EmptySeq
<1>4. TxShape'
  BY <1>1, <1>2, <1>3, TxTyped DEF Tx!Fetched, TxShape, Tx!TypeOK, TxLive
<1>5. TxRows'
  BY <1>1, <1>2, <1>3, TxTyped DEF Tx!Fetched, TxRows
<1>6. TxTables' /\ TransferTrue'
  BY <1>1, <1>2 DEF Tx!Fetched, TxInv, TxTables, TransferTrue, Tx!TransferTrue, Tx!Pg, TxLive
<1>7. QED
  BY <1>4, <1>5, <1>6 DEF TxInv

LEMMA TxAppend ==
  ASSUME TxInv, Tx!AppendRow
  PROVE  TxInv'
<1> USE DEF Tx!tables, Tx!Goto
<1>1. TxShape /\ TxRows /\ TxLive /\ txBatch # <<>> /\ txPc = "rows" /\ ~txEnded /\ txPage = <<>>
  BY DEF Tx!AppendRow, TxInv, TxLive, TxRows
<1>2. /\ txWindow' = Append(txWindow, Head(txBatch)) /\ txBatch' = Tail(txBatch)
      /\ txRowsRead' = txRowsRead + 1 /\ txPc' \in {"flush", "rows"}
      /\ txTaken' = txTaken /\ txPage' = txPage /\ txEnded' = txEnded /\ txAcked' = txAcked
      /\ txStored' = txStored /\ txJob' = txJob
  BY DEF Tx!AppendRow
<1>3. /\ Head(txBatch) \in 1 .. SourceRows /\ Head(txBatch) = txBatch[1] /\ Len(txBatch) \in Nat
      /\ Len(txBatch) > 0
      /\ Tail(txBatch) \in Seq(1 .. SourceRows) /\ Len(Tail(txBatch)) = Len(txBatch) - 1
      /\ \A i \in 1 .. Len(Tail(txBatch)) : Tail(txBatch)[i] = txBatch[i + 1]
  BY <1>1, TxTyped, HeadTailProperties
<1>4. /\ txWindow' \in Seq(1 .. SourceRows) /\ Len(txWindow') = Len(txWindow) + 1
      /\ Len(txWindow) \in Nat
      /\ \A i \in 1 .. Len(txWindow) : txWindow'[i] = txWindow[i]
      /\ txWindow'[Len(txWindow) + 1] = txBatch[1]
  BY <1>1, <1>2, <1>3, TxTyped, AppendProperties
<1>5. Len(txStored) \in Nat /\ Len(txPage) = 0 /\ Len(txPage) \in Nat
  BY <1>1, TxTyped
<1>6. txRowsRead + 1 \in 0 .. SourceRows
  BY <1>1, <1>3, <1>5, TxTyped DEF TxRows
<1>7. TxShape'
  BY <1>1, <1>2, <1>3, <1>4, <1>6, TxTyped DEF Tx!AppendRow, TxShape, Tx!TypeOK, TxLive
<1>8. TxRows'
  <2>1. \A i \in 1 .. Len(txWindow') : txWindow'[i] = Len(txStored') + i
    <3>1. \A i \in 1 .. Len(txWindow) : txWindow[i] = Len(txStored) + i
      BY <1>1 DEF TxRows
    <3>2. txBatch[1] = Len(txStored) + Len(txWindow) + 1
      BY <1>1, <1>3, <1>4, <1>5 DEF TxRows
    <3>3. TAKE i \in 1 .. Len(txWindow')
    <3>4. CASE i \in 1 .. Len(txWindow)
      BY <1>2, <1>4, <3>1, <3>4
    <3>5. CASE i = Len(txWindow) + 1
      <4>1. txWindow'[i] = txBatch[1] /\ txStored' = txStored
        BY <1>2, <1>4, <3>5
      <4>2. QED
        BY <1>4, <1>5, <3>2, <3>5, <4>1
    <3>6. QED
      BY <1>4, <3>4, <3>5
  <2>2. \A i \in 1 .. Len(txBatch') : txBatch'[i] = txRowsRead' + i
    <3>1. \A i \in 1 .. Len(txBatch) : txBatch[i] = txRowsRead + i
      BY <1>1 DEF TxRows
    <3>2. TAKE i \in 1 .. Len(txBatch')
    <3>3. i + 1 \in 1 .. Len(txBatch) /\ txBatch'[i] = txBatch[i + 1] /\ txRowsRead \in Nat
      BY <1>1, <1>2, <1>3, TxTyped
    <3>4. QED
      BY <1>2, <3>1, <3>3
  <2>3. /\ txRowsRead' = Len(txStored') + Len(txWindow') /\ txAcked' = Len(txStored')
        /\ txTaken' = txRowsRead' + Len(txBatch') + Len(txPage') /\ txTaken' <= txJob'.rows
    BY <1>1, <1>2, <1>3, <1>4, <1>5, TxTyped DEF TxRows
  <2>4. QED
    BY <1>1, <1>2, <1>5, <2>1, <2>2, <2>3 DEF TxRows
<1>9. TxTables' /\ TransferTrue'
  BY <1>1, <1>2 DEF Tx!AppendRow, TxInv, TxTables, TransferTrue, Tx!TransferTrue, Tx!Pg, TxLive
<1>10. QED
  BY <1>7, <1>8, <1>9 DEF TxInv

LEMMA TxFlush ==
  ASSUME TxInv, Tx!Flush
  PROVE  TxInv'
<1> USE DEF Tx!reading, Tx!Goto
<1>1. TxShape /\ TxRows /\ TxLive /\ txPc \in {"flush", "last"}
  BY DEF Tx!Flush, TxInv, TxLive
<1>2. /\ txStored' = txStored \o txWindow /\ txAcked' = txAcked + Len(txWindow) /\ txWindow' = <<>>
      /\ txPc' = IF txPc = "flush" THEN "rows" ELSE "verify"
      /\ txTaken' = txTaken /\ txPage' = txPage /\ txEnded' = txEnded /\ txBatch' = txBatch
      /\ txRowsRead' = txRowsRead /\ txJob' = txJob
  BY DEF Tx!Flush
<1>3. /\ Len(txStored) \in Nat /\ Len(txWindow) \in Nat /\ Len(txBatch) \in Nat /\ Len(txPage) \in Nat
      /\ txStored' \in Seq(1 .. SourceRows) /\ Len(txStored') = Len(txStored) + Len(txWindow)
      /\ \A i \in 1 .. Len(txStored') :
           txStored'[i] = IF i <= Len(txStored) THEN txStored[i] ELSE txWindow[i - Len(txStored)]
      /\ txWindow' \in Seq(1 .. SourceRows) /\ Len(txWindow') = 0
  BY <1>1, <1>2, TxTyped, ConcatProperties, EmptySeq
<1>4. \A i \in 1 .. Len(txStored') : txStored'[i] = i
  <2>1. /\ \A i \in 1 .. Len(txStored) : txStored[i] = i
        /\ \A i \in 1 .. Len(txWindow) : txWindow[i] = Len(txStored) + i
    BY <1>1 DEF TxRows
  <2>2. TAKE i \in 1 .. Len(txStored')
  <2>3. CASE i <= Len(txStored)
    BY <1>3, <2>1, <2>3
  <2>4. CASE i > Len(txStored)
    <3>1. i - Len(txStored) \in 1 .. Len(txWindow)
      BY <1>3, <2>4
    <3>2. QED
      BY <1>3, <2>1, <2>4, <3>1
  <2>5. QED
    BY <1>3, <2>3, <2>4
<1>5. txAcked' \in 0 .. SourceRows
  BY <1>1, <1>2, <1>3, TxTyped DEF TxRows
<1>6. TxShape'
  BY <1>1, <1>2, <1>3, <1>5, TxTyped DEF Tx!Flush, TxShape, Tx!TypeOK, TxLive
<1>7. TxRows'
  <2>1. /\ txRowsRead' = Len(txStored') + Len(txWindow') /\ txAcked' = Len(txStored')
        /\ txTaken' = txRowsRead' + Len(txBatch') + Len(txPage') /\ txTaken' <= txJob'.rows
    BY <1>1, <1>2, <1>3, TxTyped DEF TxRows
  <2>2. \A i \in 1 .. Len(txWindow') : txWindow'[i] = Len(txStored') + i
    BY <1>3
  <2>3. /\ \A i \in 1 .. Len(txBatch') : txBatch'[i] = txRowsRead' + i
        /\ \A i \in 1 .. Len(txPage') : txPage'[i] = txRowsRead' + Len(txBatch') + i
        /\ txBatch' # <<>> => txPage' = <<>>
        /\ txEnded' => txTaken' = txJob'.rows /\ txBatch' = <<>> /\ txPage' = <<>>
        /\ txPc = "last" => txEnded
    BY <1>1, <1>2 DEF TxRows
  <2>4. QED
    BY <1>1, <1>2, <1>4, <2>1, <2>2, <2>3 DEF TxRows
<1>8. TxTables' /\ TransferTrue'
  BY <1>1, <1>2 DEF Tx!Flush, TxInv, TxTables, TransferTrue, Tx!TransferTrue, Tx!Pg, TxLive
<1>9. QED
  BY <1>6, <1>7, <1>8 DEF TxInv

LEMMA TxFlushFails ==
  ASSUME TxInv, NEW n \in 0 .. WriteRows, Tx!FlushFails(n)
  PROVE  TxInv'
<1> USE DEF Tx!reading, Tx!Goto, Tx!Fail
<1>1. TxShape /\ TxLive /\ txPc \in {"flush", "last"} /\ txPc' = "abort" /\ n \in Nat
      /\ n < Len(txWindow)
  BY EnginesAssumption DEF Tx!FlushFails, TxInv, TxLive
<1>a. Len(txWindow) \in Nat /\ n <= Len(txWindow) /\ txWindow \in Seq(1 .. SourceRows)
      /\ txStored \in Seq(1 .. SourceRows)
  BY <1>1, TxTyped, LenProperties
<1>2. SubSeq(txWindow, 1, n) \in Seq(1 .. SourceRows)
  BY <1>1, <1>a, SeqPrefix
<1>b. /\ txStored \o SubSeq(txWindow, 1, n) \in Seq(1 .. SourceRows)
      /\ txStored \o txWindow \in Seq(1 .. SourceRows)
      /\ <<>> \in Seq(1 .. SourceRows)
  BY <1>2, <1>a, ConcatProperties, EmptySeq
<1>c. txStored' \in {txStored \o SubSeq(txWindow, 1, n), <<>>, txStored, txStored \o txWindow}
      /\ txWindow' = <<>>
  BY DEF Tx!FlushFails, Tx!Cut
<1>3. txStored' \in Seq(1 .. SourceRows) /\ txWindow' \in Seq(1 .. SourceRows)
  BY <1>a, <1>b, <1>c
<1>4. txReport' \in TxReports /\ txReport'.result = "failed"
  BY <1>1, TxTyped DEF Tx!FlushFails, TxReports
<1>5. /\ txDest' \in TxDests /\ txDest'.transaction = txDest.transaction
      /\ txDest'.created = txDest.created
      /\ txTab' = txTab /\ txView' \in {txView, txTab}
  BY <1>1, TxTyped DEF Tx!FlushFails, Tx!Cut, Tx!LostAnswer, TxDests
<1>6. /\ ~txDest.transaction => txView = txTab
      /\ txTab["target"] # "new" /\ txTab["backup"] = "none"
      /\ Tx!Pg => txTab["scratch"] = "none" /\ txView["backup"] = "none"
      /\ ~Tx!Pg /\ txTab["scratch"] # "none" => txDest.created
  BY <1>1 DEF TxInv, TxTables, TxLive
<1>7. QED
  BY <1>1, <1>3, <1>4, <1>5, <1>6, TxTyped, TxAborts DEF Tx!FlushFails


\* What is verified is the whole of the source.
LEMMA TxWhole ==
  ASSUME TxInv, txPc \in {"swap", "rename", "commit", "drop_old"}
  PROVE  txStored = Tx!Whole
<1>1. /\ Len(txStored) \in Nat /\ Len(txStored) = txJob.rows /\ txStored \in Seq(1 .. SourceRows)
      /\ \A i \in 1 .. Len(txStored) : txStored[i] = i
  <2>1. TxRows /\ txEnded /\ txWindow = <<>> /\ txBatch = <<>> /\ txPage = <<>>
    BY DEF TxInv, TxLive, TxRows
  <2>2. Len(txWindow) = 0 /\ Len(txBatch) = 0 /\ Len(txPage) = 0
    BY <2>1
  <2>3. txStored \in Seq(1 .. SourceRows)
    BY TxTyped DEF TxInv
  <2>4. QED
    BY <2>1, <2>2, <2>3 DEF TxRows
<1>2. txStored = [i \in 1 .. Len(txStored) |-> txStored[i]]
  BY <1>1
<1>3. QED
  BY <1>1, <1>2 DEF Tx!Whole

\* The table takes its name, in one statement or in the transaction's two.
LEMMA TxSwap ==
  ASSUME TxInv, Tx!Swap
  PROVE  TxInv'
<1> USE TxTyped DEF Tx!Goto, Tx!reading, Tx!writing, TxData, TxPlaces, TxLive
<1>1. /\ TxShape /\ TxRows /\ TxTables /\ txPc \in {"swap", "rename"} /\ txEnded /\ txWindow = <<>>
      /\ txStored = Tx!Whole /\ txReport.result = "none" /\ ~txDest.lost /\ txTab["backup"] = "none"
      /\ (txDest.transaction <=> Tx!Pg)
  BY TxWhole DEF Tx!Swap, TxInv, TxShape, TxRows, TxTables
<1>2. /\ UNCHANGED TxData /\ txCancel' = txCancel /\ Tx!Pg' = Tx!Pg /\ Tx!Whole' = Tx!Whole
      /\ txDest' = [txDest EXCEPT !.created = Tx!Pg]
      /\ txReport' = IF txPc' = "end" THEN [txReport EXCEPT !.result = "done"] ELSE txReport
  BY DEF Tx!Swap, Tx!Pg, Tx!Whole
<1>3. /\ txDest' \in TxDests /\ txDest'.transaction = txDest.transaction /\ txDest'.lost = txDest.lost
      /\ txReport' \in TxReports /\ txReport'.result = IF txPc' = "end" THEN "done" ELSE "none"
  BY <1>1, <1>2 DEF TxDests, TxReports, Tx!Pg
<1>4. CASE Tx!Pg /\ txPc = "swap" /\ txJob.mode = "create"
  <2>1. txPc' = "commit" /\ txTab' = txTab /\ txView' = txView
    BY <1>4 DEF Tx!Swap
  <2>2. TxShape' /\ (TxLive => TxRows)'
    BY <1>1, <1>2, <1>3, <2>1, TxQuiet
  <2>3. TxTables' /\ TransferTrue'
    BY <1>1, <1>2, <1>3, <1>4, <2>1 DEF TxTables, TransferTrue, Tx!TransferTrue
  <2>4. QED
    BY <2>2, <2>3 DEF TxInv
<1>5. CASE Tx!Pg /\ txPc = "swap" /\ txJob.mode # "create"
  <2>1. txPc' = "rename" /\ txTab' = txTab /\ txView' = [txView EXCEPT !["target"] = "none"]
    <3>1. Tx!Visible /\ txView' = Tx!Swapped(txView)
      BY <1>5 DEF Tx!Swap
    <3>2. txPc' = "rename"
      BY <1>5 DEF Tx!Swap, Tx!Double
    <3>3. Tx!Swapped(txView) = [txView EXCEPT !["target"] = "none"]
      BY <1>5 DEF Tx!Swapped, Tx!Double
    <3>4. txTab' = txTab
      BY <1>1, <1>5, <3>1 DEF Tx!Visible
    <3>5. QED
      BY <3>1, <3>2, <3>3, <3>4
  <2>2. txView' \in TxTabs /\ txView'["backup"] = txView["backup"]
    BY <1>1, <2>1 DEF TxTabs, Tx!Names
  <2>3. TxShape' /\ (TxLive => TxRows)'
    BY <1>1, <1>2, <1>3, <2>1, <2>2, TxQuiet
  <2>4. TxTables' /\ TransferTrue'
    BY <1>1, <1>2, <1>3, <1>5, <2>1, <2>2 DEF TxTables, TransferTrue, Tx!TransferTrue
  <2>5. QED
    BY <2>3, <2>4 DEF TxInv
<1>6. CASE txPc = "rename"
  <2>0. Tx!Pg
    BY <1>1, <1>6 DEF TxTables
  <2>1. /\ txPc' = "commit" /\ txTab' = txTab
        /\ txView' = [txView EXCEPT !["target"] = "new", !["scratch"] = "none"]
    <3>1. Tx!Visible /\ txView' = Tx!Swapped(txView)
      BY <1>6 DEF Tx!Swap
    <3>2. txPc' = "commit"
      BY <1>6, <2>0 DEF Tx!Swap, Tx!Double
    <3>3. Tx!Swapped(txView) = [txView EXCEPT !["target"] = "new", !["scratch"] = "none"]
      BY <1>6, <2>0 DEF Tx!Swapped, Tx!Double
    <3>4. txTab' = txTab
      BY <1>1, <2>0, <3>1 DEF Tx!Visible
    <3>5. QED
      BY <3>1, <3>2, <3>3, <3>4
  <2>2. /\ txView' \in TxTabs /\ txView'["backup"] = txView["backup"]
        /\ txView'["target"] = "new" /\ txView'["scratch"] = "none"
    BY <1>1, <2>1 DEF TxTabs, Tx!Names
  <2>3. TxShape' /\ (TxLive => TxRows)'
    BY <1>1, <1>2, <1>3, <2>1, <2>2, TxQuiet
  <2>4. TxTables' /\ TransferTrue'
    BY <1>1, <1>2, <1>3, <1>6, <2>0, <2>1, <2>2 DEF TxTables, TransferTrue, Tx!TransferTrue
  <2>5. QED
    BY <2>3, <2>4 DEF TxInv
<1>7. CASE ~Tx!Pg /\ Tx!Double
  <2>0. txPc = "swap" /\ txJob.mode = "replace" /\ txView = txTab
    BY <1>1, <1>7 DEF TxTables, Tx!Double
  <2>1. /\ txPc' = "drop_old" /\ txTab' = txView'
        /\ txView' = [target |-> "new", scratch |-> "none", backup |-> txView["target"]]
    BY <1>1, <1>7, <2>0 DEF Tx!Swap, Tx!Swapped, Tx!Visible
  <2>2. txView' \in TxTabs /\ txView'["target"] = "new" /\ txView'["scratch"] = "none"
    BY <1>1, <2>1 DEF TxTabs, Tx!Names
  <2>3. TxShape' /\ (TxLive => TxRows)'
    BY <1>1, <1>2, <1>3, <2>1, <2>2, TxQuiet
  <2>4. TxTables' /\ TransferTrue'
    BY <1>1, <1>2, <1>3, <1>7, <2>0, <2>1, <2>2 DEF TxTables, TransferTrue, Tx!TransferTrue
  <2>5. QED
    BY <2>3, <2>4 DEF TxInv
<1>8. CASE ~Tx!Pg /\ ~Tx!Double
  <2>0. txPc = "swap" /\ txView = txTab
    BY <1>1, <1>8 DEF TxTables
  <2>1. /\ txPc' = "end" /\ txTab' = txView'
        /\ txView' = [txView EXCEPT !["target"] = "new", !["scratch"] = "none"]
    BY <1>1, <1>8, <2>0 DEF Tx!Swap, Tx!Swapped, Tx!Visible
  <2>2. /\ txView' \in TxTabs /\ txView'["target"] = "new" /\ txView'["scratch"] = "none"
        /\ txView'["backup"] = "none"
    BY <1>1, <2>0, <2>1 DEF TxTabs, Tx!Names
  <2>3. TxShape' /\ (TxLive => TxRows)'
    BY <1>1, <1>2, <1>3, <2>1, <2>2, TxQuiet
  <2>4. TxTables' /\ TransferTrue'
    <3>1. TxTables'
      BY <1>1, <1>2, <1>3, <1>8, <2>0, <2>1, <2>2 DEF TxTables
    <3>2. TransferTrue'
      BY <1>1, <1>2, <1>3, <2>1, <2>2 DEF TransferTrue, Tx!TransferTrue
    <3>3. QED
      BY <3>1, <3>2
  <2>5. QED
    BY <2>3, <2>4 DEF TxInv
<1>9. QED
  BY <1>1, <1>4, <1>5, <1>6, <1>7, <1>8

\* A statement of the swap that fails, is cut, or acts without an answer.
LEMMA TxSwapFails ==
  ASSUME TxInv, Tx!SwapFails
  PROVE  TxInv'
<1> USE TxTyped DEF Tx!Goto, Tx!reading, Tx!writing, TxLive
<1>1. /\ TxShape /\ TxTables /\ txPc \in {"swap", "rename"} /\ txTab["backup"] = "none"
      /\ txReport' \in TxReports /\ txReport'.result = "failed" /\ txPc' = "abort"
  BY DEF Tx!SwapFails, Tx!Fail, TxInv, TxTables, TxReports
<1>2. CASE Tx!Errs
  BY <1>1, <1>2, TxErrs DEF Tx!SwapFails
<1>3. CASE ~Tx!Errs
  <2>1. /\ ~Tx!Pg /\ txView' = Tx!Swapped(txView) /\ txTab' = txView' /\ txStored' = txStored
        /\ txDest' = [txDest EXCEPT !.lost = TRUE, !.link = ~Tx!Pg]
    BY <1>3 DEF Tx!SwapFails, Tx!LostAnswer
  <2>2. txPc = "swap"
    BY <1>1, <2>1 DEF TxTables
  <2>3. txDest' \in TxDests /\ txDest'.transaction = txDest.transaction /\ txDest'.lost
    BY <1>1, <2>1 DEF TxDests
  <2>4. txView' \in TxTabs /\ txView'["scratch"] = "none"
    <3>1. CASE Tx!Double
      <4>1. txView' = [target |-> "new", scratch |-> "none", backup |-> txView["target"]]
        BY <2>1, <2>2, <3>1 DEF Tx!Swapped
      <4>2. QED
        BY <1>1, <4>1 DEF TxTabs, Tx!Names
    <3>2. CASE ~Tx!Double
      <4>1. txView' = [txView EXCEPT !["target"] = "new", !["scratch"] = "none"]
        BY <2>1, <2>2, <3>2 DEF Tx!Swapped
      <4>2. QED
        BY <1>1, <4>1 DEF TxTabs, Tx!Names
    <3>3. QED
      BY <3>1, <3>2
  <2>5. QED
    BY <1>1, <2>1, <2>3, <2>4, TxAborts DEF Tx!SwapFails
<1>4. QED
  BY <1>2, <1>3

LEMMA TxCommits ==
  ASSUME TxInv, Tx!Commit \/ Tx!CommitFails
  PROVE  TxInv'
<1> USE TxTyped DEF Tx!Goto, Tx!reading, Tx!writing, TxLive, TxData, TxPlaces
<1>1. /\ TxShape /\ TxTables /\ txPc = "commit" /\ Tx!Pg /\ txView["target"] = "new"
      /\ txView["scratch"] = "none" /\ txView["backup"] = "none" /\ txStored = Tx!Whole
      /\ txDest.transaction
  BY TxWhole DEF Tx!Commit, Tx!CommitFails, TxInv, TxTables
<1>2. CASE Tx!Commit
  <2>1. /\ txTab' = txView /\ txView' = txView /\ UNCHANGED TxData /\ txPc' = "end"
        /\ txCancel' = txCancel /\ Tx!Pg' = Tx!Pg /\ Tx!Whole' = Tx!Whole
    BY <1>2 DEF Tx!Commit, Tx!Pg, Tx!Whole
  <2>2. /\ txDest' \in TxDests /\ txDest'.lost = txDest.lost /\ ~txDest'.transaction
        /\ txReport' \in TxReports /\ txReport'.result = "done"
    BY <1>1, <1>2 DEF Tx!Commit, TxDests, TxReports
  <2>3. TxShape' /\ (TxLive => TxRows)'
    BY <1>1, <2>1, <2>2, TxQuiet
  <2>4. TxTables' /\ TransferTrue'
    BY <1>1, <2>1, <2>2 DEF TxTables, TransferTrue, Tx!TransferTrue
  <2>5. QED
    BY <2>3, <2>4 DEF TxInv
<1>3. CASE Tx!CommitFails
  <2>1. txReport' \in TxReports /\ txReport'.result = "failed" /\ txPc' = "abort"
    BY <1>1, <1>3 DEF Tx!CommitFails, Tx!Fail, TxReports
  <2>2. CASE Tx!Cut
    BY <1>1, <1>3, <2>2, TxErrs DEF Tx!CommitFails, Tx!Errs
  <2>3. CASE ~Tx!Cut
    <3>1. /\ txTab' = txView /\ txView' = txView /\ txStored' = txStored
          /\ txDest' = [txDest EXCEPT !.lost = TRUE, !.link = ~Tx!Pg]
      BY <1>3, <2>3 DEF Tx!CommitFails, Tx!LostAnswer
    <3>2. txDest' \in TxDests /\ txDest'.transaction = txDest.transaction /\ txDest'.lost
      BY <1>1, <3>1 DEF TxDests
    <3>3. QED
      BY <1>1, <1>3, <2>1, <3>1, <3>2, TxAborts DEF Tx!CommitFails
  <2>4. QED
    BY <2>2, <2>3
<1>4. QED
  BY <1>2, <1>3

LEMMA TxDropOld ==
  ASSUME TxInv, Tx!DropOld
  PROVE  TxInv'
<1> USE TxTyped DEF Tx!Goto, Tx!reading, Tx!writing, TxLive, TxData, TxPlaces
<1>1. /\ TxShape /\ TxTables /\ txPc = "drop_old" /\ ~Tx!Pg /\ txView["target"] = "new"
      /\ txView["scratch"] = "none" /\ txStored = Tx!Whole /\ ~txDest.transaction /\ txView = txTab
  BY TxWhole DEF Tx!DropOld, TxInv, TxTables
<1>2. /\ txTab' = txView' /\ UNCHANGED TxData /\ txPc' = "end"
      /\ txCancel' = txCancel /\ Tx!Pg' = Tx!Pg /\ Tx!Whole' = Tx!Whole
  BY DEF Tx!DropOld, Tx!Pg, Tx!Whole
<1>3. txDest' \in TxDests /\ ~txDest'.transaction
  BY <1>1 DEF Tx!DropOld, Tx!LostAnswer, TxDests
<1>4. /\ txReport' \in TxReports /\ txReport'.result = "done"
      /\ \/ txView' = [txView EXCEPT !["backup"] = "none"]
         \/ txView' = txView /\ "kept" \in txReport'.warnings
  <2>1. CASE txReport' = [txReport EXCEPT !.result = "done"]
    <3>1. txView' = [txView EXCEPT !["backup"] = "none"] \/ "kept" \in txReport'.warnings
      BY <1>1, <2>1 DEF Tx!DropOld, TxReports
    <3>2. txReport' \in TxReports /\ txReport'.result = "done"
      BY <1>1, <2>1 DEF TxReports
    <3>3. QED
      BY <3>1, <3>2 DEF Tx!DropOld
  <2>2. CASE txReport' = [result |-> "done", warnings |-> txReport.warnings \cup {"kept"}]
    <3>1. txReport' \in TxReports /\ txReport'.result = "done" /\ "kept" \in txReport'.warnings
      BY <1>1, <2>2 DEF TxReports
    <3>2. QED
      BY <3>1 DEF Tx!DropOld
  <2>3. QED
    BY <2>1, <2>2 DEF Tx!DropOld
<1>5. /\ txView' \in TxTabs /\ txView'["target"] = "new" /\ txView'["scratch"] = "none"
      /\ txView'["backup"] # "none" => "kept" \in txReport'.warnings
  BY <1>1, <1>4 DEF TxTabs, Tx!Names
<1>6. TxShape' /\ (TxLive => TxRows)'
  BY <1>1, <1>2, <1>3, <1>4, <1>5, TxQuiet
<1>7. TxTables' /\ TransferTrue'
  BY <1>1, <1>2, <1>3, <1>4, <1>5 DEF TxTables, TransferTrue, Tx!TransferTrue
<1>8. QED
  BY <1>6, <1>7 DEF TxInv

LEMMA TxAbort ==
  ASSUME TxInv, Tx!Abort
  PROVE  TxInv'
<1> USE TxTyped DEF Tx!Goto, Tx!reading, Tx!writing, TxLive, TxData, TxPlaces
<1>1. /\ TxShape /\ TxTables /\ txPc = "abort" /\ txReport.result \in {"stopped", "failed"}
      /\ txTab["target"] = "new" => txReport.result = "failed" /\ txDest.lost
      /\ Tx!Pg => txTab["scratch"] = "none" /\ txTab["backup"] = "none"
      /\ ~Tx!Pg /\ txTab["scratch"] # "none" => txDest.created
      /\ ~txDest.transaction => txView = txTab
      /\ txDest.transaction => Tx!Pg
  BY DEF Tx!Abort, TxInv, TxShape, TxTables
<1>2. /\ UNCHANGED TxData /\ txPc' = "end" /\ txCancel' = txCancel /\ Tx!Pg' = Tx!Pg
  BY DEF Tx!Abort, Tx!Pg
<1>3. /\ txDest' \in TxDests /\ txDest'.transaction = txDest.transaction
      /\ txDest.lost => txDest'.lost
      /\ txReport' \in TxReports /\ txReport'.result = txReport.result
  BY <1>1 DEF Tx!Abort, Tx!LostAnswer, TxDests, TxReports
<1>4. /\ txTab' \in TxTabs /\ txTab'["target"] = txTab["target"]
      /\ txView' = txTab'
      /\ Tx!Pg => txTab' = txTab
      /\ txTab'["scratch"] # "none" => "leftover" \in txReport'.warnings
  <2>1. CASE txDest.transaction
    BY <1>1, <2>1 DEF Tx!Abort
  <2>2. CASE ~txDest.transaction /\ txView' = [txTab EXCEPT !["scratch"] = "none"] /\ txTab' = txView'
             /\ Tx!Leaves
    BY <1>1, <2>2 DEF TxTabs, Tx!Names, Tx!Leaves
  <2>3. CASE ~txDest.transaction /\ txView' = txView /\ txTab' = txTab /\ Tx!Leaves
             /\ txReport' = [txReport EXCEPT !.warnings = @ \cup {"leftover"}]
    BY <1>1, <2>3 DEF TxReports, Tx!Leaves
  <2>4. CASE ~txDest.transaction /\ txView' = txView /\ txTab' = txTab /\ ~Tx!Leaves
    BY <1>1, <2>4 DEF Tx!Leaves
  <2>5. QED
    BY <2>1, <2>2, <2>3, <2>4 DEF Tx!Abort
<1>5. TxShape' /\ (TxLive => TxRows)'
  BY <1>1, <1>2, <1>3, <1>4, TxQuiet
<1>6. TransferTrue'
  BY <1>1, <1>2, <1>3, <1>4 DEF TransferTrue, Tx!TransferTrue
<1>7. TxTables'
  BY <1>1, <1>2, <1>3, <1>4 DEF TxTables
<1>8. QED
  BY <1>5, <1>6, <1>7 DEF TxInv

LEMMA TxInit ==
  ASSUME EnginesInit
  PROVE  TxInv
<1>1. Tx!Init
  BY DEF EnginesInit
<1>2. Tx!TypeOK
  <2>1. <<>> \in Seq(1 .. SourceRows) /\ SourceRows \in Nat
    BY EmptySeq, EnginesAssumption
  <2>2. txTab \in TxTabs /\ txView \in TxTabs /\ txDest \in TxDests
    BY <1>1 DEF Tx!Init, TxTabs, TxDests, Tx!Names
  <2>3. /\ txPc = "setup" /\ txReport.result = "none" /\ txReport.warnings = {}
        /\ txCancel = FALSE /\ txEnded = FALSE /\ txTaken = 0 /\ txRowsRead = 0 /\ txAcked = 0
        /\ txPage = <<>> /\ txBatch = <<>> /\ txWindow = <<>> /\ txStored = <<>>
    BY <1>1 DEF Tx!Init
  <2>4. \A s \in {txPage, txBatch, txWindow, txStored} : s \in Seq(1 .. SourceRows)
    BY <2>1, <2>3
  <2>5. txTaken \in 0 .. SourceRows /\ txRowsRead \in 0 .. SourceRows /\ txAcked \in 0 .. SourceRows
    BY <2>1, <2>3
  <2>6. QED
    BY <2>2, <2>3, <2>4, <2>5 DEF Tx!TypeOK, TxTabs, TxDests
<1>3. TxShape
  BY <1>1, <1>2 DEF Tx!Init, TxShape, TxLive
<1>4. TxRows
  <2>1. Len(<<>>) = 0 /\ txJob.rows \in 0 .. SourceRows /\ SourceRows \in Nat
    BY <1>1, EnginesAssumption DEF Tx!Init
  <2>2. QED
    BY <1>1, <2>1 DEF Tx!Init, TxRows
<1>5. TxTables
  <2>1. /\ txPc = "setup" /\ txView = txTab /\ ~txDest.transaction /\ ~txDest.created
        /\ txTab["target"] = txJob.first /\ txTab["scratch"] = "none" /\ txTab["backup"] = "none"
        /\ txJob.first \in {"old", "none"}
    BY <1>1 DEF Tx!Init, Tx!Names
  <2>2. QED
    BY <2>1 DEF TxTables, TxLive
<1>6. TransferTrue
  BY <1>1 DEF Tx!Init, TransferTrue, Tx!TransferTrue
<1>7. QED
  BY <1>3, <1>4, <1>5, <1>6 DEF TxInv

LEMMA TxStep ==
  ASSUME TxInv, [EnginesNext]_EnginesVars
  PROVE  TxInv'
<1>1. CASE Tx!Next
  BY <1>1, TxQuietSteps, TxFailSteps, TxCreateSteps, TxOther, TxPage, TxFetched, TxAppend, TxFlush,
     TxFlushFails, TxSwap, TxSwapFails, TxCommits, TxDropOld, TxAbort DEF Tx!Next
<1>2. CASE UNCHANGED txVars
  BY <1>2 DEF txVars, TxInv, TxShape, TxRows, TxTables, TxLive, Tx!TypeOK, Tx!Pg, TransferTrue,
     Tx!TransferTrue, Tx!Whole
<1>3. Tx!Next \/ UNCHANGED txVars
  BY DEF EnginesNext, EnginesVars, SwapStep, MysqlSessionStep, TrinoSessionStep,
     PostgresSessionStep, ImportStep, TransferStep, HostKeysStep, ValueCopyStep
<1>4. QED
  BY <1>1, <1>2, <1>3

\* What a transfer reports is what the destination holds (fetch, flush_all, conclude, abort's
\* warnings), for every number of rows, every page and every size of a write.
THEOREM TransferIsTrue == EnginesSpec => []TransferTrue
<1>1. EnginesInit => TxInv
  BY TxInit
<1>2. TxInv /\ [EnginesNext]_EnginesVars => TxInv'
  BY TxStep
<1>3. TxInv => TransferTrue
  BY DEF TxInv
<1>4. QED
  BY <1>1, <1>2, <1>3, PTL DEF EnginesSpec

\* A table leaves its name only for the whole of the source's rows.
LEMMA TxKeeps ==
  ASSUME TxInv, Tx!Next, txTab["target"] \in {"old", "other"},
         txTab'["target"] # txTab["target"]
  PROVE  txJob.mode = "replace" /\ txTab'["target"] = "new" /\ txStored' = Tx!Whole
<1> USE TxTyped DEF Tx!tables, TxLive
<1>1. TxShape /\ TxTables /\ txTab \in TxTabs /\ txView \in TxTabs /\ txTab["target"] # "none"
  BY DEF TxInv
<1>2. CASE Tx!Create \/ Tx!CreateFails
  <2>1. Tx!WriteInto = "scratch" \/ Tx!Pg
    BY <1>1 DEF Tx!WriteInto
  <2>2. txView = txTab /\ (txDest.transaction <=> Tx!Pg)
    BY <1>1, <1>2 DEF TxTables, Tx!Create, Tx!CreateFails
  <2>3. txTab' = txTab \/ (~Tx!Pg /\ txTab' = [txTab EXCEPT !["scratch"] = "new"])
    BY <1>1, <1>2, <2>1, <2>2 DEF Tx!Create, Tx!CreateFails, Tx!Visible
  <2>4. QED
    BY <1>1, <2>3 DEF TxTabs, Tx!Names
<1>3. CASE Tx!Swap \/ Tx!SwapFails
  <2>1. /\ txPc \in {"swap", "rename"} /\ txStored = Tx!Whole /\ (txStored' = txStored \/ txTab' = txTab)
    BY <1>3, TxWhole DEF Tx!Swap, Tx!SwapFails, Tx!Errs, Tx!Refused, Tx!Cut
  <2>2. (txDest.transaction <=> Tx!Pg) /\ (~Tx!Pg => txView = txTab /\ txPc = "swap")
    BY <1>1, <2>1 DEF TxTables
  <2>3. ~Tx!Pg /\ Tx!RenameFits /\ txTab' = Tx!Swapped(txView) /\ txStored' = txStored
    BY <1>3, <2>1, <2>2
       DEF Tx!Swap, Tx!SwapFails, Tx!Errs, Tx!Refused, Tx!Cut, Tx!Visible
  <2>4. Tx!Double
    BY <1>1, <2>2, <2>3 DEF Tx!RenameFits
  <2>5. txTab' = [target |-> "new", scratch |-> "none", backup |-> txView["target"]]
    BY <2>2, <2>3, <2>4 DEF Tx!Swapped
  <2>6. QED
    BY <2>1, <2>3, <2>4, <2>5, TxWhole DEF Tx!Double
<1>4. CASE Tx!Commit \/ Tx!CommitFails
  <2>1. txPc = "commit" /\ (txTab' = txTab \/ (txTab' = txView /\ txStored' = txStored))
    BY <1>4 DEF Tx!Commit, Tx!CommitFails, Tx!Cut
  <2>2. Tx!Pg /\ txView["target"] = "new" /\ txJob.mode = "replace"
    BY <1>1, <2>1 DEF TxTables
  <2>3. QED
    BY <2>1, <2>2, TxWhole
<1>5. CASE Tx!Abort
  BY <1>1, <1>5 DEF Tx!Abort, TxTabs, Tx!Names
<1>6. CASE Tx!DropOld \/ Tx!OtherCreates
  BY <1>1, <1>6 DEF Tx!DropOld, Tx!OtherCreates, TxTables
<1>7. CASE txTab' = txTab
  BY <1>7
<1>8. QED
  BY <1>2, <1>3, <1>4, <1>5, <1>6, <1>7
     DEF Tx!Next, Tx!ConnectSetup, Tx!ConnectSetupFails, Tx!OpenSource, Tx!OpenSourceFails,
         Tx!StoppedEarly, Tx!Begin, Tx!BeginFails, Tx!PageArrives, Tx!Fetched, Tx!SourceFails,
         Tx!WindowTimer, Tx!AppendRow, Tx!AppendRowFails, Tx!RowsEnd, Tx!Stopped, Tx!Flush,
         Tx!FlushFails, Tx!Verify, Tx!VerifyFails, Tx!Stop, Tx!Errs, Tx!Refused, Tx!Cut, Tx!LostAnswer

\* Nobody's table is overwritten by a create, and nobody sees a replaced name empty
\* (WritePlan::build, swap).
THEOREM TransferKeepsTables == EnginesSpec => TablesKept
<1>1. EnginesInit => TxInv
  BY TxInit
<1>2. TxInv /\ [EnginesNext]_EnginesVars => TxInv'
  BY TxStep
<1>3. TxInv /\ [EnginesNext]_EnginesVars
        => [txTab["target"] \in {"old", "other"} /\ txTab'["target"] # txTab["target"] =>
               txJob.mode = "replace" /\ txTab'["target"] = "new" /\ txStored' = Tx!Whole]_txVars
  <2>1. [EnginesNext]_EnginesVars => Tx!Next \/ UNCHANGED txVars
    BY DEF EnginesNext, EnginesVars, SwapStep, MysqlSessionStep, TrinoSessionStep,
       PostgresSessionStep, ImportStep, TransferStep, HostKeysStep, ValueCopyStep
  <2>2. QED
    BY <2>1, TxKeeps
<1>4. TablesKept <=>
        [][txTab["target"] \in {"old", "other"} /\ txTab'["target"] # txTab["target"] =>
               txJob.mode = "replace" /\ txTab'["target"] = "new" /\ txStored' = Tx!Whole]_txVars
  BY DEF TablesKept, Tx!TablesKept, Tx!vars, txVars
<1>5. QED
  BY <1>1, <1>2, <1>3, <1>4, PTL DEF EnginesSpec
-----------------------------------------------------------------------------
(* PostgreSQL sessions.                                                    *)

PgServers == [timeout : Pg!Wanted \cup {"user"}, readOnly : BOOLEAN,
              txn : {"none", "open", "failed"}, before : Pg!Wanted \cup {"user"},
              prepared : BOOLEAN]
PgRunsHeld == [at : {"idle", "fencing", "running"}, bound : Pg!Wanted, fence : BOOLEAN,
               own : BOOLEAN, sent : Nat]
\* The driver's copy is true of the backend whenever it says what the run wants.
PgTrue(sv, tr, b) ==
    /\ tr = b => sv.timeout = b
    /\ sv.txn # "none" => sv.before = b

\* A refusal keeps everything but an open transaction.
LEMMA PgFails ==
  ASSUME NEW sv \in PgServers
  PROVE  /\ Pg!Fail(sv) \in PgServers /\ Pg!Fail(sv).timeout = sv.timeout
         /\ Pg!Fail(sv).before = sv.before /\ Pg!Fail(sv).readOnly = sv.readOnly
         /\ (Pg!Fail(sv).txn = "none" <=> sv.txn = "none")
         /\ sv.txn = "none" => Pg!Fail(sv) = sv
BY DEF Pg!Fail, PgServers

\* After the SET, sent or left out, the bound in force is the one wanted.
LEMMA PgSets ==
  ASSUME pgServer \in PgServers, NEW b \in Pg!Wanted, PgTrue(pgServer, pgTracker, b)
  PROVE  /\ Pg!SetTimeout(pgServer, b) \in PgServers
         /\ Pg!SetTimeout(pgServer, b).timeout = b
         /\ Pg!SetTimeout(pgServer, b).before = pgServer.before
         /\ Pg!SetTimeout(pgServer, b).txn = pgServer.txn
BY DEF Pg!SetTimeout, Pg!NeedsSet, PgServers, PgTrue

\* A statement leaves a bound that holds inside and after its transaction.
LEMMA PgEffects ==
  ASSUME NEW sv \in PgServers, NEW b, sv.timeout = b, sv.txn # "none" => sv.before = b,
         NEW k \in Pg!Kinds
  PROVE  /\ Pg!Effect(k, sv) \in PgServers
         /\ k # "set" => Pg!Effect(k, sv).timeout = b
                             /\ (Pg!Effect(k, sv).txn # "none" => Pg!Effect(k, sv).before = b)
<1>1. CASE k = "read"
  BY <1>1 DEF Pg!Effect
<1>2. CASE k = "set"
  BY <1>2 DEF Pg!Effect, PgServers
<1>3. CASE k = "prepare"
  BY <1>3 DEF Pg!Effect, PgServers
<1>4. CASE k = "begin"
  BY <1>4 DEF Pg!Effect, PgServers
<1>5. CASE k = "commit"
  BY <1>5 DEF Pg!Effect, PgServers
<1>6. CASE k = "rollback"
  BY <1>6 DEF Pg!Effect, PgServers
<1>7. QED
  BY <1>1, <1>2, <1>3, <1>4, <1>5, <1>6 DEF Pg!Kinds

LEMMA PgTyped ==
  ASSUME PgInv
  PROVE  pgOpen \in BOOLEAN /\ pgRun \in PgRunsHeld /\ pgServer \in PgServers /\ Pg!PgBound
BY DEF PgInv, PgRunsHeld, PgServers

\* The idle steps: a run begins, a run ends, the connection dies.
LEMMA PgPool ==
  ASSUME PgInv, (\E b \in Pg!Wanted, f \in BOOLEAN : Pg!BeginRun(b, f)) \/ Pg!EndRun \/ Pg!Lost
  PROVE  PgInv'
<1> USE PgTyped DEF PgRunsHeld
<1>1. CASE \E b \in Pg!Wanted, f \in BOOLEAN : Pg!BeginRun(b, f)
  <2>1. PICK b \in Pg!Wanted, f \in BOOLEAN : Pg!BeginRun(b, f)
    BY <1>1
  <2>2. /\ pgRun' \in PgRunsHeld /\ pgRun'.bound = b /\ pgRun'.own = FALSE
        /\ pgRun'.at \in {"fencing", "running"} /\ UNCHANGED <<pgOpen, pgServer, pgTracker, pgSeen>>
        /\ pgRun.at = "idle" /\ pgOpen
    BY <2>1 DEF Pg!BeginRun
  <2>3. pgServer = Pg!Fresh /\ pgTracker = None
    BY <2>2 DEF PgInv
  <2>4. QED
    BY <2>2, <2>3 DEF PgInv, PgServers, Pg!Fresh, Pg!PgBound
<1>2. CASE Pg!EndRun
  <2>1. /\ pgRun' = Pg!NoRun /\ pgRun' \in PgRunsHeld /\ pgSeen' = pgSeen /\ pgOpen' \in BOOLEAN
        /\ pgOpen' => pgServer' = Pg!Fresh /\ pgTracker' = None
        /\ pgServer' \in {pgServer, Pg!Fresh} /\ Pg!Fresh \in PgServers
    BY <1>2 DEF Pg!EndRun, Pg!NoRun, Pg!Reset, Pg!Wanted, Pg!Fresh, PgServers
  <2>2. QED
    BY <2>1 DEF PgInv, PgServers, Pg!NoRun, Pg!PgBound
<1>3. CASE Pg!Lost
  BY <1>3 DEF Pg!Lost, PgInv, PgServers, Pg!PgBound
<1>4. QED
  BY <1>1, <1>2, <1>3

\* What a step of a run must show.
LEMMA PgRunning ==
  ASSUME PgInv, pgOpen, pgOpen' = pgOpen, pgServer' \in PgServers, pgRun' \in PgRunsHeld,
         pgRun'.at = "running", Pg!PgBound',
         ~pgRun'.own /\ pgRun'.sent < PgStatements => PgTrue(pgServer', pgTracker', pgRun'.bound)
  PROVE  PgInv'
BY DEF PgInv, PgServers, PgRunsHeld, PgTrue

\* A run after its fence, after a statement, and after one of the user's own.
PgFenced(r, n) == [r EXCEPT !.at = "running", !.sent = n]
PgSent(r, n) == [r EXCEPT !.sent = n]
PgSaid(r, n, o) == [r EXCEPT !.sent = n, !.own = o]

LEMMA PgMoves ==
  ASSUME NEW r \in PgRunsHeld, NEW n \in Nat
  PROVE  /\ PgFenced(r, n) \in PgRunsHeld /\ PgFenced(r, n).at = "running"
         /\ PgFenced(r, n).bound = r.bound /\ PgFenced(r, n).own = r.own
         /\ PgSent(r, n) \in PgRunsHeld /\ PgSent(r, n).at = r.at
         /\ PgSent(r, n).bound = r.bound /\ PgSent(r, n).own = r.own
BY DEF PgRunsHeld, PgFenced, PgSent

LEMMA PgSays ==
  ASSUME NEW r \in PgRunsHeld, NEW n \in Nat, NEW o \in BOOLEAN
  PROVE  /\ PgSaid(r, n, o) \in PgRunsHeld /\ PgSaid(r, n, o).at = r.at
         /\ PgSaid(r, n, o).bound = r.bound /\ PgSaid(r, n, o).own = o
BY DEF PgRunsHeld, PgSaid

LEMMA PgFence ==
  ASSUME PgInv, Pg!Fence
  PROVE  PgInv'
<1> USE PgTyped
<1>1. /\ pgOpen /\ pgRun.at = "fencing" /\ pgServer = Pg!Fresh /\ pgTracker = None /\ ~pgRun.own
      /\ None \in Pg!Wanted /\ PgStatements \in Nat /\ pgOpen' = pgOpen
      /\ pgRun \in PgRunsHeld /\ 0 \in Nat
  BY EnginesAssumption DEF Pg!Fence, PgInv, Pg!Wanted
<1>2. /\ Pg!SetTimeout(pgServer, None) = Pg!Fresh /\ ~Pg!SetRefused(None) /\ Pg!Fail(Pg!Fresh) = Pg!Fresh
      /\ Pg!Fresh \in PgServers /\ Pg!Fresh.readOnly = FALSE
  BY <1>1 DEF Pg!SetTimeout, Pg!NeedsSet, Pg!SetRefused, Pg!Fail, Pg!Fresh, PgServers
<1>3. CASE Pg!DescribeFails(None)
  <2>1. pgServer' = Pg!Fresh /\ pgTracker' = None /\ pgSeen' = pgSeen
    BY <1>1, <1>2, <1>3 DEF Pg!DescribeFails
  <2>2. /\ pgRun' \in PgRunsHeld /\ pgRun'.at = "running"
        /\ pgRun'.bound = pgRun.bound
        /\ ~(pgRun'.own) /\ PgTrue(pgServer', pgTracker', pgRun'.bound)
    <3>1. PICK n \in Nat : pgRun' = PgFenced(pgRun, n)
      BY <1>1 DEF Pg!Fence, PgFenced
    <3>2. /\ pgRun' \in PgRunsHeld /\ pgRun'.at = "running" /\ pgRun'.bound = pgRun.bound
          /\ pgRun'.own = pgRun.own
      BY <1>1, <3>1, PgMoves
    <3>3. QED
      BY <1>1, <2>1, <3>2 DEF PgTrue, Pg!Fresh
  <2>3. QED
    BY <1>1, <1>2, <2>1, <2>2, PgRunning DEF Pg!PgBound
<1>4. CASE Pg!Executes("fence", None)
  <2>1. /\ pgServer' = [Pg!Fresh EXCEPT !.readOnly = TRUE] \/ pgServer' = Pg!Fresh
        /\ pgTracker' = None /\ pgSeen' = [wanted |-> None, got |-> None, own |-> pgRun.own]
    <3>1. Pg!Fresh.timeout = None
      BY DEF Pg!Fresh
    <3>2. QED
      BY <1>1, <1>2, <1>4, <3>1 DEF Pg!Executes, Pg!Effect, Pg!Note
  <2>2. /\ pgServer' \in PgServers /\ pgServer'.timeout = None /\ pgServer'.txn = "none"
        /\ Pg!PgBound'
    <3>1. /\ Pg!Fresh \in PgServers /\ Pg!Fresh.timeout = None /\ Pg!Fresh.txn = "none"
      BY DEF PgServers, Pg!Fresh, Pg!Wanted
    <3>2. pgServer' \in PgServers /\ pgServer'.timeout = None /\ pgServer'.txn = "none"
      BY <2>1, <3>1 DEF PgServers
    <3>3. Pg!PgBound'
      BY <2>1 DEF Pg!PgBound
    <3>4. QED
      BY <3>2, <3>3
  <2>3. /\ pgRun' \in PgRunsHeld /\ pgRun'.at = "running" /\ pgRun'.bound = pgRun.bound
        /\ PgTrue(pgServer', pgTracker', pgRun'.bound)
    <3>1. PICK n \in Nat : pgRun' = PgFenced(pgRun, n)
      BY <1>1 DEF Pg!Fence, PgFenced
    <3>2. pgRun' \in PgRunsHeld /\ pgRun'.at = "running" /\ pgRun'.bound = pgRun.bound
      BY <1>1, <3>1, PgMoves
    <3>3. QED
      BY <2>1, <2>2, <3>2 DEF PgTrue
  <2>4. QED
    BY <1>1, <2>2, <2>3, PgRunning
<1>5. QED
  BY <1>3, <1>4 DEF Pg!Fence

\* One statement of the run, through execute, copy_in, execute_bound or browse.
LEMMA PgStatement ==
  ASSUME PgInv, (\E k \in Pg!Kinds : Pg!Execute(k)) \/ Pg!ExecuteBound \/ Pg!Browse
  PROVE  PgInv'
<1> USE PgTyped
<1> DEFINE b == pgRun.bound
           sv == Pg!SetTimeout(pgServer, b)
<1>1. /\ pgOpen /\ pgOpen' = pgOpen /\ pgRun.at = "running" /\ pgRun.sent < PgStatements
      /\ b \in Pg!Wanted /\ pgRun \in PgRunsHeld
      /\ ~pgRun.own => PgTrue(pgServer, pgTracker, b)
  BY DEF Pg!Execute, Pg!ExecuteBound, Pg!Browse, PgInv, PgTrue, PgRunsHeld
<1>2. /\ sv \in PgServers
      /\ ~pgRun.own => sv.timeout = b /\ (sv.txn # "none" => sv.before = b)
  <2>1. CASE pgRun.own
    BY <1>1, <2>1 DEF Pg!SetTimeout, PgServers
  <2>2. CASE ~pgRun.own
    BY <1>1, <2>2, PgSets DEF PgTrue
  <2>3. pgRun.own \in BOOLEAN
    BY <1>1 DEF PgRunsHeld
  <2>4. QED
    BY <2>1, <2>2, <2>3
<1>3. /\ Pg!Fail(sv) \in PgServers /\ Pg!Fail(pgServer) \in PgServers
      /\ ~pgRun.own => PgTrue(Pg!Fail(sv), pgTracker', b)
      /\ ~pgRun.own => (pgServer.txn # "none" => pgServer.before = b)
      /\ ~pgRun.own => PgTrue(Pg!Fail(pgServer), pgTracker, b)
  BY <1>1, <1>2, PgFails DEF PgTrue
<1>4. /\ pgRun' \in PgRunsHeld /\ pgRun'.at = "running" /\ pgRun'.bound = b
      /\ pgRun'.own = FALSE => pgRun.own = FALSE
  <2>1. pgRun.sent + 1 \in Nat /\ pgRun.own \in BOOLEAN
    BY <1>1 DEF PgRunsHeld
  <2>2. CASE pgRun' = PgSent(pgRun, pgRun.sent + 1)
    BY <1>1, <2>1, <2>2, PgMoves
  <2>3. ASSUME NEW k \in Pg!Kinds,
               pgRun' = PgSaid(pgRun, pgRun.sent + 1, pgRun.own \/ k = "set")
        PROVE  /\ pgRun' \in PgRunsHeld /\ pgRun'.at = "running" /\ pgRun'.bound = b
               /\ pgRun'.own = (pgRun.own \/ k = "set")
    <3>1. PICK o \in BOOLEAN : o = (pgRun.own \/ k = "set")
      OBVIOUS
    <3>2. pgRun' = PgSaid(pgRun, pgRun.sent + 1, o)
      BY <2>3, <3>1
    <3>3. QED
      BY <1>1, <2>1, <3>1, <3>2, PgSays
  <2>4. QED
    BY <2>1, <2>2, <2>3 DEF Pg!Execute, Pg!ExecuteBound, Pg!Browse, PgSent, PgSaid
<1>5. CASE \E k \in Pg!Kinds : Pg!Execute(k)
  <2>1. PICK k \in Pg!Kinds : Pg!Execute(k)
    BY <1>5
  <2>2. CASE Pg!DescribeFails(b)
    <3>1. pgSeen' = pgSeen /\ pgTracker' = pgTracker /\ pgServer' \in {pgServer, Pg!Fail(sv)}
      BY <2>2 DEF Pg!DescribeFails
    <3>2. QED
      BY <1>1, <1>3, <1>4, <3>1, PgRunning DEF Pg!PgBound
  <2>3. CASE Pg!Executes(k, b) /\ pgRun' = [pgRun EXCEPT !.sent = @ + 1, !.own = @ \/ k = "set"]
    <3>1. /\ pgTracker' = b /\ pgServer' \in {Pg!Effect(k, sv), Pg!Fail(sv)}
          /\ pgSeen' = [wanted |-> b, got |-> sv.timeout, own |-> pgRun.own]
      BY <2>3 DEF Pg!Executes, Pg!Note
    <3>2. k = "set" => pgRun'.own
      <4>1. (pgRun.own \/ k = "set") \in BOOLEAN
        OBVIOUS
      <4>2. pgRun.sent + 1 \in Nat
        BY <1>1 DEF PgRunsHeld
      <4>3. pgRun' = PgSaid(pgRun, pgRun.sent + 1, pgRun.own \/ k = "set")
        BY <2>3 DEF PgSaid
      <4>4. QED
        BY <1>1, <4>1, <4>2, <4>3, PgSays
    <3>3. Pg!PgBound'
      BY <1>2, <3>1 DEF Pg!PgBound
    <3>4. pgServer' \in PgServers
      <4>1. Pg!Effect(k, sv) \in PgServers
        <5>1. CASE k \in {"read", "set", "prepare"}
          BY <1>2, <5>1 DEF Pg!Effect, PgServers
        <5>2. CASE k \in {"begin", "commit", "rollback"}
          BY <1>2, <5>2 DEF Pg!Effect, PgServers
        <5>3. QED
          BY <5>1, <5>2 DEF Pg!Kinds
      <4>2. QED
        BY <1>3, <3>1, <4>1
    <3>5. ~pgRun'.own => PgTrue(pgServer', pgTracker', b)
      BY <1>2, <1>3, <1>4, <3>1, <3>2, PgEffects DEF PgTrue
    <3>6. QED
      BY <1>1, <1>4, <3>3, <3>4, <3>5, PgRunning
  <2>4. QED
    BY <2>1, <2>2, <2>3 DEF Pg!Execute
<1>6. CASE Pg!ExecuteBound
  <2>1. /\ pgServer' \in {pgServer, sv, Pg!Fail(sv)}
        /\ pgSeen' \in {pgSeen, [wanted |-> b, got |-> sv.timeout, own |-> pgRun.own]}
        /\ pgTracker' = b \/ (pgServer' = pgServer /\ pgTracker' = pgTracker)
        /\ pgServer' = pgServer => (pgTracker' = pgTracker \/ pgServer' \in {sv, Pg!Fail(sv)})
    BY <1>6 DEF Pg!ExecuteBound, Pg!Note
  <2>2. Pg!PgBound'
    BY <1>2, <2>1 DEF Pg!PgBound
  <2>3. ~pgRun.own => PgTrue(pgServer', pgTracker', b)
    <3>1. pgServer' \in {sv, Pg!Fail(sv)} \/ (pgServer' = pgServer /\ pgTracker' = pgTracker)
      BY <2>1
    <3>2. QED
      BY <1>1, <1>2, <1>3, <3>1 DEF PgTrue
  <2>4. QED
    BY <1>1, <1>2, <1>3, <1>4, <2>1, <2>2, <2>3, PgRunning
<1>7. CASE Pg!Browse
  <2>1. pgServer' \in {pgServer, Pg!Fail(pgServer)} /\ pgTracker' = pgTracker /\ pgSeen' = pgSeen
    BY <1>7 DEF Pg!Browse
  <2>2. QED
    BY <1>1, <1>3, <1>4, <2>1, PgRunning DEF Pg!PgBound
<1>8. QED
  BY <1>5, <1>6, <1>7

LEMMA PgStep ==
  ASSUME PgInv, [EnginesNext]_EnginesVars
  PROVE  PgInv'
<1>1. CASE Pg!Next
  BY <1>1, PgPool, PgFence, PgStatement DEF Pg!Next
<1>2. CASE UNCHANGED pgVars
  BY <1>2 DEF pgVars, PgInv, Pg!PgBound
<1>3. Pg!Next \/ UNCHANGED pgVars
  BY DEF EnginesNext, EnginesVars, SwapStep, MysqlSessionStep, TrinoSessionStep,
     PostgresSessionStep, ImportStep, TransferStep, HostKeysStep, ValueCopyStep
<1>4. QED
  BY <1>1, <1>2, <1>3

LEMMA PgStarts ==
  ASSUME EnginesInit
  PROVE  PgInv
<1>1. Pg!Init
  BY DEF EnginesInit
<1>2. QED
  BY <1>1 DEF Pg!Init, PgInv, Pg!NoRun, Pg!Fresh, Pg!Wanted, Pg!PgBound
-----------------------------------------------------------------------------
(* Trino sessions.                                                         *)

\* The rows handed out and still to hand out, how far the cursor has read, and the order they are in.
TrOut == trSeen \o trCursor.pending
TrUpTo == IF trCursor.next = 0 THEN trQuery[trCursor.id].pages ELSE trCursor.next - 1
TrOrdered(s, full, p) ==
    /\ {s[i] : i \in 1 .. Len(s)} = full \cap (1 .. p)
    /\ \A i, j \in 1 .. Len(s) : i < j => s[i] < s[j]
TrCapped == trCursor.limit # 0 => Len(trSeen) <= trCursor.limit
TrMarked(q, st) == [trQuery EXCEPT ![q].st = st]

LEMMA TrRead ==
  ASSUME trSeen \in Seq(Nat), trCursor \in TrCursors
  PROVE  /\ TrOut \in Seq(Nat)
         /\ Tr!RowsInOrder <=> (trCursor # None => TrOrdered(TrOut, trQuery[trCursor.id].full, TrUpTo)
                                                   /\ TrCapped)
<1>1. TrOut \in Seq(Nat) /\ DOMAIN TrOut = 1 .. Len(TrOut)
  BY ConcatProperties, LenProperties DEF TrOut, TrCursors
<1>2. QED
  BY <1>1 DEF Tr!RowsInOrder, TrOut, TrUpTo, TrOrdered, TrCapped

LEMMA TrReadNext ==
  ASSUME trSeen' \in Seq(Nat), trCursor' \in TrCursors
  PROVE  Tr!RowsInOrder' <=>
           (trCursor' # None => TrOrdered(TrOut', trQuery'[trCursor'.id].full, TrUpTo') /\ TrCapped')
<1>1. TrOut' \in Seq(Nat) /\ DOMAIN TrOut' = 1 .. Len(TrOut')
  BY ConcatProperties, LenProperties DEF TrOut, TrCursors
<1>2. QED
  BY <1>1 DEF Tr!RowsInOrder, TrOut, TrUpTo, TrOrdered, TrCapped

\* Reading one more page keeps the rows in order.
LEMMA TrGrows ==
  ASSUME NEW s \in Seq(Nat), NEW full, NEW p \in Nat \ {0}, NEW m, m = p - 1, TrOrdered(s, full, m),
         NEW r, r = IF p \in full THEN <<p>> ELSE <<>>
  PROVE  s \o r \in Seq(Nat) /\ TrOrdered(s \o r, full, p)
<1>1. CASE p \in full
  <2>1. r \in Seq(Nat) /\ Len(r) = 1 /\ r[1] = p
    BY <1>1
  <2>2. /\ s \o r \in Seq(Nat) /\ Len(s \o r) = Len(s) + 1 /\ Len(s) \in Nat
        /\ \A i \in 1 .. Len(s) : (s \o r)[i] = s[i]
        /\ (s \o r)[Len(s) + 1] = p
    BY <2>1, ConcatProperties, LenProperties
  <2>3. \A i \in 1 .. Len(s) : s[i] \in full /\ s[i] \in 1 .. p - 1
    BY DEF TrOrdered
  <2>4. {(s \o r)[i] : i \in 1 .. Len(s \o r)} = full \cap (1 .. p)
    <3>1. ASSUME NEW i \in 1 .. Len(s \o r)
          PROVE  (s \o r)[i] \in full \cap (1 .. p)
      BY <1>1, <2>2, <2>3
    <3>2. ASSUME NEW x \in full \cap (1 .. p)
          PROVE  \E i \in 1 .. Len(s \o r) : (s \o r)[i] = x
      <4>1. CASE x = p
        BY <2>2, <4>1
      <4>2. CASE x # p
        <5>1. x \in full \cap (1 .. p - 1)
          BY <4>2
        <5>2. PICK i \in 1 .. Len(s) : s[i] = x
          BY <5>1 DEF TrOrdered
        <5>3. QED
          BY <2>2, <5>2
      <4>3. QED
        BY <4>1, <4>2
    <3>3. QED
      BY <3>1, <3>2
  <2>5. ASSUME NEW i \in 1 .. Len(s \o r), NEW j \in 1 .. Len(s \o r), i < j
        PROVE  (s \o r)[i] < (s \o r)[j]
    <3>1. CASE j = Len(s) + 1
      BY <2>2, <2>3, <2>5, <3>1
    <3>2. CASE j # Len(s) + 1
      <4>1. i \in 1 .. Len(s) /\ j \in 1 .. Len(s)
        BY <2>2, <2>5, <3>2
      <4>2. QED
        BY <2>2, <2>5, <4>1 DEF TrOrdered
    <3>3. QED
      BY <3>1, <3>2
  <2>6. QED
    BY <2>2, <2>4, <2>5 DEF TrOrdered
<1>2. CASE p \notin full
  <2>1. s \o r = s
    BY <1>2, ConcatEmptySeq
  <2>2. full \cap (1 .. p) = full \cap (1 .. p - 1)
    BY <1>2
  <2>3. QED
    BY <2>1, <2>2 DEF TrOrdered
<1>3. QED
  BY <1>1, <1>2

\* A query that ends keeps its pages and their rows.
LEMMA TrMarks ==
  ASSUME trQuery \in Seq(TrQueryRecords), NEW q \in 1 .. Len(trQuery),
         NEW st \in {"running", "ended", "failed"}
  PROVE  /\ TrMarked(q, st) \in Seq(TrQueryRecords) /\ Len(TrMarked(q, st)) = Len(trQuery)
         /\ \A i \in 1 .. Len(trQuery) :
              /\ TrMarked(q, st)[i].pages = trQuery[i].pages
              /\ TrMarked(q, st)[i].full = trQuery[i].full
              /\ TrMarked(q, st)[i].st = IF i = q THEN st ELSE trQuery[i].st
<1>1. trQuery[q] \in TrQueryRecords /\ [trQuery[q] EXCEPT !.st = st] \in TrQueryRecords
  <2>1. trQuery[q] \in TrQueryRecords
    BY ElementOfSeq
  <2>2. QED
    BY <2>1 DEF TrQueryRecords
<1>2. TrMarked(q, st) = [trQuery EXCEPT ![q] = [trQuery[q] EXCEPT !.st = st]]
  BY DEF TrMarked
<1>3. TrMarked(q, st) \in Seq(TrQueryRecords) /\ Len(TrMarked(q, st)) = Len(trQuery)
  BY <1>1, <1>2, ExceptSeq
<1>4. \A i \in 1 .. Len(trQuery) : TrMarked(q, st)[i] = IF i = q THEN [trQuery[q] EXCEPT !.st = st]
                                                            ELSE trQuery[i]
  BY <1>2, LenProperties
<1>5. ASSUME NEW i \in 1 .. Len(trQuery)
      PROVE  /\ TrMarked(q, st)[i].pages = trQuery[i].pages
             /\ TrMarked(q, st)[i].full = trQuery[i].full
             /\ TrMarked(q, st)[i].st = IF i = q THEN st ELSE trQuery[i].st
  BY <1>1, <1>4 DEF TrQueryRecords
<1>6. QED
  BY <1>3, <1>5

\* What the invariant says of a cursor that is read.
LEMMA TrReading ==
  ASSUME TrInv, trCursor # None
  PROVE  /\ trQuery \in Seq(TrQueryRecords) /\ trSeen \in Seq(Nat) /\ trBusy = "free"
         /\ trCursor \in TrCursors /\ trCursor.id \in 1 .. Len(trQuery)
         /\ trQuery[trCursor.id] \in TrQueryRecords /\ trCursor.pending \in Seq(Nat)
         /\ trCursor.next \in Nat /\ trCursor.emitted \in Nat /\ trCursor.emitted = Len(trSeen)
         /\ TrOut \in Seq(Nat) /\ TrOrdered(TrOut, trQuery[trCursor.id].full, TrUpTo) /\ TrCapped
<1>1. /\ trQuery \in Seq(TrQueryRecords) /\ trSeen \in Seq(Nat) /\ trBusy = "free"
      /\ trCursor \in TrCursors /\ trCursor.id \in 1 .. Len(trQuery)
      /\ trCursor.emitted = Len(trSeen)
  BY DEF TrInv, TrShape
<1>2. trCursor.pending \in Seq(Nat) /\ trCursor.next \in Nat /\ trCursor.emitted \in Nat
  BY <1>1 DEF TrCursors
<1>3. trQuery[trCursor.id] \in TrQueryRecords
  BY <1>1, ElementOfSeq
<1>4. TrOut \in Seq(Nat) /\ TrOrdered(TrOut, trQuery[trCursor.id].full, TrUpTo) /\ TrCapped
  BY <1>1, TrRead DEF TrInv
<1>5. QED
  BY <1>1, <1>2, <1>3, <1>4

\* A query that still ran ends with an error, and the cell may forget it.
LEMMA TrEnds ==
  ASSUME TrInv, NEW q \in 1 .. Len(trQuery),
         trQuery' = trQuery \/ trQuery' = Tr!Stopped(q),
         trRunning' = trRunning \/ (trRunning' = None /\ trRunning # None /\ trRunning.id = q
                                      /\ trQuery' = Tr!Stopped(q)),
         UNCHANGED <<trCursor, trGot, trSeen, trBusy>>
  PROVE  TrInv'
<1>1. trQuery \in Seq(TrQueryRecords) /\ trQuery[q] \in TrQueryRecords
  BY ElementOfSeq DEF TrInv, TrShape
<1>2. /\ trQuery' \in Seq(TrQueryRecords) /\ Len(trQuery') = Len(trQuery)
      /\ \A i \in 1 .. Len(trQuery) :
           /\ trQuery'[i].pages = trQuery[i].pages /\ trQuery'[i].full = trQuery[i].full
           /\ trQuery'[i].st = trQuery[i].st
                \/ (i = q /\ trQuery[i].st = "running" /\ trQuery'[i].st = "failed")
  <2>1. CASE trQuery' = trQuery
    BY <1>1, <2>1
  <2>2. CASE trQuery' = Tr!Stopped(q)
    <3>1. \E st \in {"running", "ended", "failed"} :
            /\ trQuery' = TrMarked(q, st)
            /\ st = IF trQuery[q].st = "running" THEN "failed" ELSE trQuery[q].st
      BY <1>1, <2>2 DEF Tr!Stopped, TrMarked, TrQueryRecords
    <3>2. QED
      BY <1>1, <3>1, TrMarks
  <2>3. QED
    BY <2>1, <2>2
<1>3. trQuery' = Tr!Stopped(q) => trQuery'[q].st # "running"
  <2>1. trQuery' = Tr!Stopped(q) =>
          trQuery'[q] = [trQuery[q] EXCEPT !.st = IF @ = "running" THEN "failed" ELSE @]
    BY <1>1, LenProperties DEF Tr!Stopped
  <2>2. QED
    BY <1>1, <2>1 DEF TrQueryRecords
<1>4. TrShape'
  BY <1>2 DEF TrInv, TrShape, Tr!PageRows, Tr!NextOf
<1>5. Tr!RowsInOrder'
  <2>1. CASE trCursor # None
    <3>1. trQuery'[trCursor.id].pages = trQuery[trCursor.id].pages
          /\ trQuery'[trCursor.id].full = trQuery[trCursor.id].full
      BY <1>2, <2>1, TrReading
    <3>2. TrOut' = TrOut /\ TrUpTo' = TrUpTo /\ TrCapped' = TrCapped
      BY <3>1 DEF TrOut, TrUpTo, TrCapped
    <3>3. QED
      BY <2>1, <3>1, <3>2, TrReading, TrReadNext
  <2>2. CASE trCursor = None
    BY <2>2 DEF Tr!RowsInOrder
  <2>3. QED
    BY <2>1, <2>2
<1>6. Tr!CancelReaches'
  BY <1>2, <1>3 DEF TrInv, TrShape, Tr!CancelReaches, Tr!Alive
<1>7. QED
  BY <1>4, <1>5, <1>6 DEF TrInv

LEMMA TrCancels ==
  ASSUME TrInv, Tr!Cancel \/ \E q \in Tr!QueryIds : Tr!QueryFails(q)
  PROVE  TrInv'
<1>1. CASE Tr!Cancel
  <2>1. trRunning # None /\ trRunning.id \in 1 .. Len(trQuery)
    BY <1>1 DEF Tr!Cancel, Tr!Deleted, Tr!NotDeleted, TrInv, TrShape
  <2>2. QED
    BY <1>1, <2>1, TrEnds DEF Tr!Cancel, Tr!Deleted, Tr!NotDeleted
<1>2. CASE \E q \in Tr!QueryIds : Tr!QueryFails(q)
  BY <1>2, TrEnds DEF Tr!QueryFails, Tr!QueryIds
<1>3. QED
  BY <1>1, <1>2

\* The steps that leave no cursor: execute, a refused or a lost answer, a reset.
LEMMA TrIdles ==
  ASSUME TrInv, Tr!Execute \/ Tr!PostRefused \/ Tr!Downgrade \/ Tr!ResetRefused \/ Tr!Reset
  PROVE  TrInv'
<1>1. trQuery \in Seq(TrQueryRecords) /\ trSeen \in Seq(Nat) /\ <<>> \in Seq(Nat)
  BY EmptySeq DEF TrInv, TrShape
<1>2. /\ trCursor' = None \/ (trCursor' = trCursor /\ trBusy' = trBusy)
      /\ trGot' = None \/ (trGot' = trGot /\ trCursor' = trCursor)
  BY DEF Tr!Execute, Tr!PostRefused, Tr!Downgrade, Tr!ResetRefused, Tr!Reset, TrInv, TrShape
<1>3. trQuery' = trQuery \/ (trCursor' = None /\ \E q \in 1 .. Len(trQuery) : trQuery' = Tr!Stopped(q))
  BY DEF Tr!Execute, Tr!PostRefused, Tr!Downgrade, Tr!ResetRefused, Tr!Reset, Tr!Deleted, TrInv, TrShape
<1>4. trQuery' \in Seq(TrQueryRecords) /\ Len(trQuery') = Len(trQuery)
  <2>1. CASE trQuery' = trQuery
    BY <1>1, <2>1
  <2>2. ASSUME NEW q \in 1 .. Len(trQuery), trQuery' = Tr!Stopped(q)
        PROVE  trQuery' \in Seq(TrQueryRecords) /\ Len(trQuery') = Len(trQuery)
    <3>1. trQuery[q] \in TrQueryRecords
      BY <1>1, ElementOfSeq
    <3>2. \E st \in {"running", "ended", "failed"} : trQuery' = TrMarked(q, st)
      BY <2>2, <3>1 DEF Tr!Stopped, TrMarked, TrQueryRecords
    <3>3. QED
      BY <1>1, <3>2, TrMarks
  <2>3. QED
    BY <1>3, <2>1, <2>2
<1>5. /\ trSeen' = <<>> \/ trSeen' = trSeen
      /\ trRunning' \in {None, trRunning}
      /\ trBusy' = "post" => trSeen' = <<>>
      /\ trCursor' # None => UNCHANGED <<trQuery, trRunning, trGot, trSeen, trCursor>>
  BY DEF Tr!Execute, Tr!PostRefused, Tr!Downgrade, Tr!ResetRefused, Tr!Reset, Tr!Deleted, TrInv, TrShape
<1>6. TrShape'
  BY <1>1, <1>2, <1>4, <1>5 DEF TrInv, TrShape, Tr!PageRows, Tr!NextOf
<1>7. Tr!RowsInOrder' /\ Tr!CancelReaches'
  BY <1>2, <1>5 DEF TrInv, Tr!RowsInOrder, Tr!CancelReaches, Tr!Alive
<1>8. QED
  BY <1>6, <1>7 DEF TrInv

\* The answer of a POST: the new query's first page.
LEMMA TrPosts ==
  ASSUME TrInv, NEW pages \in 1 .. TrPages, NEW full \in SUBSET (1 .. pages),
         (\E limit \in {0, TrLimit} : Tr!PostAnswered(pages, full, limit)) \/ Tr!PostLost(pages, full)
  PROVE  TrInv'
<1>1. /\ trQuery \in Seq(TrQueryRecords) /\ Len(trQuery) \in Nat /\ pages \in Nat \ {0}
      /\ trCursor = None /\ trGot = None /\ trSeen = <<>> /\ trBusy = "post" /\ trBusy' = "free"
      /\ trGot' = trGot /\ trSeen' = trSeen /\ full \in SUBSET Nat
  BY LenProperties, EnginesAssumption DEF Tr!PostAnswered, Tr!PostLost, TrInv, TrShape
<1>2. /\ trQuery' \in Seq(TrQueryRecords) /\ Len(trQuery') = Len(trQuery) + 1
      /\ trQuery'[Len(trQuery) + 1] = [st |-> IF pages = 1 THEN "ended" ELSE "running",
                                       pages |-> pages, full |-> full]
  <2>1. [st |-> IF pages = 1 THEN "ended" ELSE "running", pages |-> pages, full |-> full]
          \in TrQueryRecords
    BY <1>1 DEF TrQueryRecords
  <2>2. trQuery' = Append(trQuery, [st |-> IF pages = 1 THEN "ended" ELSE "running",
                                    pages |-> pages, full |-> full])
    BY DEF Tr!PostAnswered, Tr!PostLost, Tr!Started
  <2>3. QED
    BY <1>1, <2>1, <2>2, AppendProperties
<1>3. CASE Tr!PostLost(pages, full)
  <2>1. trCursor' = None /\ trRunning' = trRunning
    BY <1>1, <1>3 DEF Tr!PostLost
  <2>2. TrShape'
    BY <1>1, <1>2, <2>1 DEF TrInv, TrShape
  <2>3. QED
    BY <2>1, <2>2 DEF TrInv, Tr!RowsInOrder, Tr!CancelReaches
<1>4. CASE \E limit \in {0, TrLimit} : Tr!PostAnswered(pages, full, limit)
  <2>1. PICK limit \in {0, TrLimit} : Tr!PostAnswered(pages, full, limit)
    BY <1>4
  <2> DEFINE q == Len(trQuery) + 1
             next == IF pages > 1 THEN 2 ELSE 0
             page == IF 1 \in full THEN <<1>> ELSE <<>>
  <2>2. /\ trCursor' = [id |-> q, next |-> next, pending |-> page, finished |-> pages = 1,
                        emitted |-> 0, limit |-> limit]
        /\ trRunning' = IF pages > 1 THEN [id |-> q, page |-> 2] ELSE trRunning
    BY <2>1 DEF Tr!PostAnswered
  <2>3. limit \in Nat /\ q \in Nat /\ next \in Nat /\ page \in Seq(Nat) /\ (pages = 1) \in BOOLEAN
        /\ Len(<<>>) = 0 /\ <<>> \in Seq(Nat)
    BY <1>1, EnginesAssumption, EmptySeq
  <2>4. /\ trCursor' \in TrCursors /\ trCursor'.id = q /\ trCursor'.next = next
        /\ trCursor'.pending = page /\ trCursor'.emitted = 0
        /\ trCursor'.finished = (pages = 1) /\ trCursor'.limit = limit
    <3>1. [id |-> q, next |-> next, pending |-> page, finished |-> pages = 1,
           emitted |-> 0, limit |-> limit] \in TrCursors
      BY <2>3 DEF TrCursors
    <3>2. QED
      BY <2>2, <3>1
  <2>5. /\ trQuery'[q].pages = pages /\ trQuery'[q].full = full
        /\ trQuery'[q].st = IF pages = 1 THEN "ended" ELSE "running"
    BY <1>2
  <2>6. TrShape'
    <3>1. trRunning' # None => trRunning'.id \in 1 .. Len(trQuery')
      BY <1>1, <1>2, <2>2 DEF TrInv, TrShape
    <3>2. trSeen' \in Seq(Nat) /\ Len(trSeen') = 0
      BY <1>1, <2>3
    <3>3. q \in 1 .. Len(trQuery') /\ next <= pages /\ (next = 0 <=> pages = 1)
      BY <1>1, <1>2
    <3>4. QED
      BY <1>1, <1>2, <2>4, <2>5, <3>1, <3>2, <3>3 DEF TrShape
  <2>7. Tr!RowsInOrder'
    <3>1. TrOrdered(<<>>, full, 0) /\ <<>> \o page = page
      BY <2>3, ConcatEmptySeq DEF TrOrdered
    <3>2. TrOrdered(page, full, 1)
      <4>1. 0 = 1 - 1 /\ 1 \in Nat \ {0}
        OBVIOUS
      <4>2. TrOrdered(<<>> \o page, full, 1)
        <5>1. PICK r, s, p : r = page /\ s = <<>> /\ p = 1
          OBVIOUS
        <5>2. /\ s \in Seq(Nat) /\ p \in Nat \ {0} /\ 0 = p - 1 /\ TrOrdered(s, full, 0)
              /\ r = IF p \in full THEN <<p>> ELSE <<>>
          BY <2>3, <3>1, <5>1
        <5>a. TrOrdered(s \o r, full, p)
          BY <5>2, TrGrows
        <5>b. TrOrdered(<<>> \o r, full, 1)
          BY <5>1, <5>a
        <5>3. QED
          BY <5>1, <5>b
      <4>3. QED
        BY <3>1, <4>2
    <3>3. TrOut' = page /\ TrUpTo' = 1
      BY <1>1, <2>4, <2>5, <3>1 DEF TrOut, TrUpTo
    <3>4. Len(trSeen') = 0 /\ trSeen' \in Seq(Nat)
      BY <1>1, <2>3
    <3>5. TrCapped'
      BY <2>3, <2>4, <3>4 DEF TrCapped
    <3>6. Tr!RowsInOrder' <=> (trCursor' # None => TrOrdered(TrOut', trQuery'[trCursor'.id].full, TrUpTo')
                                                     /\ TrCapped')
      BY <2>4, <3>4, TrReadNext
    <3>7. QED
      BY <2>4, <2>5, <3>2, <3>3, <3>5, <3>6
  <2>8. Tr!CancelReaches'
    BY <1>1, <2>2, <2>4, <2>5 DEF Tr!CancelReaches, Tr!Alive
  <2>9. QED
    BY <2>6, <2>7, <2>8 DEF TrInv
<1>5. QED
  BY <1>3, <1>4

\* One row of what is pending goes to the caller.
LEMMA TrTakes ==
  ASSUME TrInv, Tr!TakeRow
  PROVE  TrInv'
<1>1. /\ trCursor # None /\ trGot = None /\ trCursor.pending # <<>> /\ Tr!Budget > 0
      /\ trCursor' = [trCursor EXCEPT !.pending = Tail(trCursor.pending),
                                      !.emitted = trCursor.emitted + 1]
      /\ trSeen' = Append(trSeen, Head(trCursor.pending))
      /\ UNCHANGED <<trQuery, trRunning, trGot, trBusy>>
  BY DEF Tr!TakeRow, Tr!Reading
<1>2. /\ Head(trCursor.pending) \in Nat /\ Tail(trCursor.pending) \in Seq(Nat)
      /\ trCursor.emitted + 1 \in Nat
  BY <1>1, TrReading, HeadTailProperties
<1>3. /\ trCursor' \in TrCursors /\ trCursor'.id = trCursor.id /\ trCursor'.next = trCursor.next
      /\ trCursor'.pending = Tail(trCursor.pending) /\ trCursor'.emitted = trCursor.emitted + 1
      /\ trCursor'.finished = trCursor.finished /\ trCursor'.limit = trCursor.limit
  <2>1. trCursor \in TrCursors
    BY <1>1, TrReading
  <2>2. ASSUME NEW n \in Nat, NEW s \in Seq(Nat), trCursor' = [trCursor EXCEPT !.pending = s, !.emitted = n]
        PROVE  /\ trCursor' \in TrCursors /\ trCursor'.id = trCursor.id /\ trCursor'.next = trCursor.next
               /\ trCursor'.pending = s /\ trCursor'.emitted = n
               /\ trCursor'.finished = trCursor.finished /\ trCursor'.limit = trCursor.limit
    BY <2>1, <2>2 DEF TrCursors
  <2>3. QED
    BY <1>1, <1>2, <2>2
<1>4. trSeen' \in Seq(Nat) /\ Len(trSeen') = Len(trSeen) + 1
  BY <1>1, <1>2, TrReading, AppendProperties
<1>5. TrOut' = TrOut
  <2>1. Append(trSeen, Head(trCursor.pending)) = trSeen \o <<Head(trCursor.pending)>>
    BY <1>2, TrReading, AppendIsConcat, <1>1
  <2>2. trCursor.pending = <<Head(trCursor.pending)>> \o Tail(trCursor.pending)
    BY <1>1, TrReading, HeadThenTail
  <2>3. <<Head(trCursor.pending)>> \in Seq(Nat)
    BY <1>2
  <2>4. QED
    <3>1. TrOut' = (trSeen \o <<Head(trCursor.pending)>>) \o Tail(trCursor.pending)
      BY <1>1, <1>3, <2>1 DEF TrOut
    <3>2. (trSeen \o <<Head(trCursor.pending)>>) \o Tail(trCursor.pending)
            = trSeen \o (<<Head(trCursor.pending)>> \o Tail(trCursor.pending))
      <4>1. trSeen \in Seq(Nat)
        BY <1>1, TrReading
      <4>2. PICK t \in Seq(Nat), u \in Seq(Nat) :
              t = <<Head(trCursor.pending)>> /\ u = Tail(trCursor.pending)
        BY <1>2, <2>3
      <4>3. (trSeen \o t) \o u = trSeen \o (t \o u)
        BY <4>1, ConcatAssociative
      <4>4. QED
        BY <4>2, <4>3
    <3>3. QED
      BY <2>2, <3>1, <3>2 DEF TrOut
<1>6. TrShape'
  BY <1>1, <1>3, <1>4, TrReading DEF TrInv, TrShape
<1>7. TrCapped'
  BY <1>1, <1>3, <1>4, TrReading DEF TrCapped, Tr!Budget, TrCursors
<1>8. Tr!RowsInOrder'
  <2>1. TrUpTo' = TrUpTo /\ trQuery'[trCursor'.id].full = trQuery[trCursor.id].full
    BY <1>1, <1>3 DEF TrUpTo
  <2>2. TrOrdered(TrOut', trQuery'[trCursor'.id].full, TrUpTo')
    BY <1>1, <1>5, <2>1, TrReading
  <2>3. QED
    BY <1>3, <1>4, <1>7, <2>2, TrReadNext
<1>9. Tr!CancelReaches'
  BY <1>1, <1>3 DEF TrInv, Tr!CancelReaches, Tr!Alive
<1>10. QED
  BY <1>6, <1>8, <1>9 DEF TrInv

\* The cursor stops at its row cap, at a page that carries an error, or asks again after a lost answer.
LEMMA TrCloses ==
  ASSUME TrInv, Tr!LimitReached \/ Tr!PageFailed \/ Tr!PageLost
  PROVE  TrInv'
<1>1. CASE Tr!PageLost
  BY <1>1 DEF Tr!PageLost, TrInv, TrShape, Tr!RowsInOrder, Tr!CancelReaches, Tr!Alive
<1>2. CASE Tr!LimitReached \/ Tr!PageFailed
  <2>1. /\ trCursor # None /\ trCursor' = [trCursor EXCEPT !.finished = TRUE]
        /\ trGot' = None /\ UNCHANGED <<trQuery, trRunning, trSeen, trBusy>>
    BY <1>2 DEF Tr!LimitReached, Tr!PageFailed, Tr!Reading, TrInv, TrShape
  <2>2. trCursor \in TrCursors
    BY <2>1, TrReading
  <2>3. /\ trCursor' \in TrCursors /\ trCursor'.id = trCursor.id /\ trCursor'.next = trCursor.next
        /\ trCursor'.pending = trCursor.pending /\ trCursor'.emitted = trCursor.emitted
        /\ trCursor'.finished = TRUE /\ trCursor'.limit = trCursor.limit
    BY <2>1, <2>2 DEF TrCursors
  <2>4. TrShape'
    BY <2>1, <2>3 DEF TrInv, TrShape
  <2>5. Tr!RowsInOrder'
    <3>1. TrOut' = TrOut /\ TrUpTo' = TrUpTo /\ (TrCapped' <=> TrCapped)
      BY <2>1, <2>3 DEF TrOut, TrUpTo, TrCapped
    <3>2. QED
      BY <2>1, <2>3, <3>1, TrReading, TrReadNext
  <2>6. Tr!CancelReaches'
    BY <2>3 DEF Tr!CancelReaches
  <2>7. QED
    BY <2>4, <2>5, <2>6 DEF TrInv
<1>3. QED
  BY <1>1, <1>2

\* The coordinator answers with the page the cursor is at.
LEMMA TrAsks ==
  ASSUME TrInv, Tr!AskPage
  PROVE  TrInv'
<1> DEFINE q == trCursor.id
           p == trCursor.next
<1>1. /\ trCursor # None /\ trGot = None /\ trCursor.pending = <<>> /\ ~trCursor.finished
      /\ UNCHANGED <<trRunning, trCursor, trSeen, trBusy>>
  BY DEF Tr!AskPage, Tr!Reading
<1>2. /\ trQuery \in Seq(TrQueryRecords) /\ q \in 1 .. Len(trQuery) /\ trQuery[q] \in TrQueryRecords
      /\ trCursor \in TrCursors
  BY <1>1, TrReading
<1>3. /\ trQuery' = trQuery \/ (Tr!NextOf(q, p) = 0 /\ trQuery[q].st = "running"
                                  /\ trQuery' = TrMarked(q, "ended"))
      /\ ~trGot'.error => trGot'.rows = Tr!PageRows(q, p) /\ trGot'.next = Tr!NextOf(q, p)
  <2>1. CASE Tr!Alive(q)
    <3>1. /\ trGot' = [rows |-> Tr!PageRows(q, p), next |-> Tr!NextOf(q, p), error |-> FALSE]
          /\ trQuery' = TrMarked(q, IF Tr!NextOf(q, p) = 0 THEN "ended" ELSE trQuery[q].st)
      BY <2>1 DEF Tr!AskPage, TrMarked
    <3>2. TrMarked(q, trQuery[q].st) = trQuery
      BY <1>2, LenProperties DEF TrMarked, TrQueryRecords
    <3>3. CASE Tr!NextOf(q, p) = 0
      BY <2>1, <3>1, <3>3 DEF Tr!Alive
    <3>4. CASE Tr!NextOf(q, p) # 0
      BY <3>1, <3>2, <3>4
    <3>5. QED
      BY <3>3, <3>4
  <2>2. CASE ~Tr!Alive(q)
    <3>1. /\ trGot' = [rows |-> Tr!PageRows(q, p), next |-> 0, error |-> (trQuery[q].st = "failed")]
          /\ trQuery' = trQuery
      BY <2>2 DEF Tr!AskPage
    <3>2. trQuery[q].st # "failed" => trQuery[q].st = "ended"
      BY <1>2, <2>2 DEF Tr!Alive, TrQueryRecords
    <3>3. trQuery[q].st = "ended" => p = trQuery[q].pages
      BY <1>1, <1>2 DEF TrInv, TrShape, TrCursors
    <3>4. trQuery[q].st = "ended" => Tr!NextOf(q, p) = 0
      BY <1>2, <3>3 DEF Tr!NextOf, TrQueryRecords
    <3>5. QED
      BY <3>1, <3>2, <3>4
  <2>3. QED
    BY <2>1, <2>2
<1>4. /\ trQuery' \in Seq(TrQueryRecords) /\ Len(trQuery') = Len(trQuery)
      /\ \A i \in 1 .. Len(trQuery) :
           /\ trQuery'[i].pages = trQuery[i].pages /\ trQuery'[i].full = trQuery[i].full
           /\ trQuery'[i].st = trQuery[i].st
                \/ (i = q /\ trQuery'[i].st = "ended" /\ Tr!NextOf(q, p) = 0)
  <2>1. CASE trQuery' = trQuery
    BY <1>2, <2>1
  <2>2. CASE trQuery' = TrMarked(q, "ended") /\ Tr!NextOf(q, p) = 0
    BY <1>2, <2>2, TrMarks
  <2>3. QED
    BY <1>3, <2>1, <2>2
<1>5. Tr!NextOf(q, p) = 0 => p = trQuery[q].pages
  BY <1>1, <1>2 DEF Tr!NextOf, TrInv, TrShape, TrCursors, TrQueryRecords
<1>6. TrShape'
  <2>1. /\ Tr!PageRows(q, p)' = Tr!PageRows(q, p) /\ Tr!NextOf(q, p)' = Tr!NextOf(q, p)
    BY <1>1, <1>2, <1>4 DEF Tr!PageRows, Tr!NextOf
  <2>2. trGot' # None =>
         /\ trCursor' # None /\ ~trCursor'.finished /\ trCursor'.pending = <<>>
         /\ ~trGot'.error => /\ trGot'.rows = Tr!PageRows(trCursor.id, trCursor.next)'
                             /\ trGot'.next = Tr!NextOf(trCursor.id, trCursor.next)'
    BY <1>1, <1>3, <2>1
  <2>3. QED
    BY <1>1, <1>2, <1>4, <1>5, <2>2 DEF TrInv, TrShape
<1>7. Tr!RowsInOrder'
  <2>1. TrOut' = TrOut /\ TrUpTo' = TrUpTo /\ (TrCapped' <=> TrCapped)
    BY <1>1, <1>2, <1>4 DEF TrOut, TrUpTo, TrCapped
  <2>2. QED
    BY <1>1, <1>2, <1>4, <2>1, TrReading, TrReadNext
<1>8. Tr!CancelReaches'
  BY <1>1, <1>2, <1>4 DEF TrInv, Tr!CancelReaches, Tr!Alive
<1>9. QED
  BY <1>6, <1>7, <1>8 DEF TrInv

\* The answer is taken: its rows are pending, and the next page is what a Stop would delete.
LEMMA TrArrives ==
  ASSUME TrInv, Tr!PageArrives
  PROVE  TrInv'
<1> DEFINE q == trCursor.id
           p == trCursor.next
<1>1. /\ trGot # None /\ ~trGot.error /\ trCursor # None /\ ~trCursor.finished
      /\ trCursor.pending = <<>> /\ trGot.rows = Tr!PageRows(q, p) /\ trGot.next = Tr!NextOf(q, p)
      /\ trCursor' = [trCursor EXCEPT !.pending = trCursor.pending \o trGot.rows, !.next = trGot.next,
                                      !.finished = (trGot.next = 0)]
      /\ trRunning' = IF trGot.next = 0 THEN None ELSE [id |-> q, page |-> trGot.next]
      /\ trGot' = None /\ UNCHANGED <<trQuery, trSeen, trBusy>>
  BY DEF Tr!PageArrives, TrInv, TrShape
<1>2. /\ trQuery \in Seq(TrQueryRecords) /\ q \in 1 .. Len(trQuery) /\ trQuery[q] \in TrQueryRecords
      /\ trCursor \in TrCursors /\ p \in Nat /\ p # 0 /\ p <= trQuery[q].pages
      /\ trQuery[q].pages \in Nat
  <2>1. trQuery[q] \in TrQueryRecords
    BY <1>1, TrReading
  <2>2. QED
    BY <1>1, <2>1, TrReading DEF TrInv, TrShape, TrQueryRecords
<1>3. /\ trGot.rows = IF p \in trQuery[q].full THEN <<p>> ELSE <<>>
      /\ trGot.next = IF p < trQuery[q].pages THEN p + 1 ELSE 0
      /\ trGot.rows \in Seq(Nat) /\ trGot.next \in Nat /\ (trGot.next = 0) \in BOOLEAN
  <2>1. <<p>> \in Seq(Nat) /\ <<>> \in Seq(Nat)
    BY <1>2, EmptySeq
  <2>2. QED
    BY <1>1, <1>2, <2>1 DEF Tr!PageRows, Tr!NextOf
<1>4. trCursor.pending \o trGot.rows = trGot.rows
  BY <1>1, <1>3, ConcatEmptySeq
<1>5. /\ trCursor' \in TrCursors /\ trCursor'.id = q /\ trCursor'.next = trGot.next
      /\ trCursor'.pending = trGot.rows /\ trCursor'.emitted = trCursor.emitted
      /\ trCursor'.finished = (trGot.next = 0) /\ trCursor'.limit = trCursor.limit
  <2>1. PICK f \in BOOLEAN : f = (trGot.next = 0)
    BY <1>3
  <2>2. trCursor' = [trCursor EXCEPT !.pending = trGot.rows, !.next = trGot.next, !.finished = f]
    BY <1>1, <1>4, <2>1
  <2>3. /\ trCursor' \in TrCursors /\ trCursor'.id = q /\ trCursor'.next = trGot.next
        /\ trCursor'.pending = trGot.rows /\ trCursor'.emitted = trCursor.emitted
        /\ trCursor'.finished = f /\ trCursor'.limit = trCursor.limit
    BY <1>2, <1>3, <2>2 DEF TrCursors
  <2>4. QED
    BY <2>1, <2>3
<1>6. TrShape'
  <2>1. trCursor'.next <= trQuery[q].pages /\ (trQuery[q].st = "ended" => trCursor'.next = 0)
    BY <1>1, <1>2, <1>3, <1>5 DEF TrInv, TrShape
  <2>2. trRunning' # None => trRunning'.id = q
    BY <1>1
  <2>3. QED
    BY <1>1, <1>2, <1>5, <2>1, <2>2, TrReading DEF TrInv, TrShape
<1>7. Tr!RowsInOrder'
  <2>1. TrOut = trSeen /\ TrUpTo = p - 1
    BY <1>1, <1>2, TrReading, ConcatEmptySeq DEF TrOut, TrUpTo
  <2>2. TrOrdered(trSeen, trQuery[q].full, p - 1)
    BY <1>1, <2>1, TrReading
  <2>3. TrOrdered(trSeen \o trGot.rows, trQuery[q].full, p)
    BY <1>1, <1>2, <1>3, <2>2, TrReading, TrGrows
  <2>4. TrOut' = trSeen \o trGot.rows /\ TrUpTo' = p /\ (TrCapped' <=> TrCapped)
    BY <1>1, <1>2, <1>3, <1>5 DEF TrOut, TrUpTo, TrCapped
  <2>5. QED
    BY <1>1, <1>5, <2>3, <2>4, TrReading, TrReadNext
<1>8. Tr!CancelReaches'
  BY <1>1, <1>5 DEF Tr!CancelReaches
<1>9. QED
  BY <1>6, <1>7, <1>8 DEF TrInv

LEMMA TrStep ==
  ASSUME TrInv, [EnginesNext]_EnginesVars
  PROVE  TrInv'
<1>1. CASE Tr!Next
  BY <1>1, TrPosts, TrIdles, TrTakes, TrCloses, TrAsks, TrArrives, TrCancels DEF Tr!Next
<1>2. CASE UNCHANGED trVars
  BY <1>2 DEF trVars, TrInv, TrShape, Tr!RowsInOrder, Tr!CancelReaches, Tr!Alive, Tr!PageRows, Tr!NextOf
<1>3. Tr!Next \/ UNCHANGED trVars
  BY DEF EnginesNext, EnginesVars, SwapStep, MysqlSessionStep, TrinoSessionStep,
     PostgresSessionStep, ImportStep, TransferStep, HostKeysStep, ValueCopyStep
<1>4. QED
  BY <1>1, <1>2, <1>3

LEMMA TrStarts ==
  ASSUME EnginesInit
  PROVE  TrInv
<1>1. Tr!Init
  BY DEF EnginesInit
<1>2. <<>> \in Seq(Nat) /\ <<>> \in Seq(TrQueryRecords)
  BY EmptySeq
<1>3. QED
  BY <1>1, <1>2 DEF Tr!Init, TrInv, TrShape, Tr!RowsInOrder, Tr!CancelReaches
-----------------------------------------------------------------------------
(* MySQL sessions.                                                         *)

\* No connection's bounds change, and no statement starts, in most steps.
MyConnCalm ==
    /\ myConn' \in [1 .. MyConns -> MyConnRecords]
    /\ \A c \in 1 .. MyConns : myConn'[c].st = "open" =>
         /\ myConn[c].st = "open"
         /\ myConn'[c].bound = myConn[c].bound /\ myConn'[c].limit = myConn[c].limit
MyTaskCalm ==
    /\ myTask' \in [1 .. MyConns -> MyTasks]
    /\ \A c \in 1 .. MyConns : myTask'[c].pc = "run" =>
         myTask[c].pc = "run" /\ myTask'[c].kind = myTask[c].kind

LEMMA MyCalmConns ==
  ASSUME MyShape, NEW c \in 1 .. MyConns
  PROVE  myConn' = myConn \/ myConn' = Ms!Dead(c) => MyConnCalm
<1>1. myConn' = myConn => MyConnCalm
  BY DEF MyShape, MyConnCalm
<1>2. ASSUME myConn' = Ms!Dead(c)
      PROVE  MyConnCalm
  <2>1. [Ms!NoConn EXCEPT !.st = "gone"] \in MyConnRecords /\ [Ms!NoConn EXCEPT !.st = "gone"].st = "gone"
    BY DEF Ms!NoConn, MyConnRecords
  <2>2. myConn' = [myConn EXCEPT ![c] = [Ms!NoConn EXCEPT !.st = "gone"]]
    BY <1>2 DEF Ms!Dead
  <2>3. QED
    BY <2>1, <2>2 DEF MyShape, MyConnCalm
<1>3. QED
  BY <1>1, <1>2

LEMMA MyCalmTasks ==
  ASSUME MyShape, NEW c \in 1 .. MyConns
  PROVE  /\ myTask' = myTask => MyTaskCalm
         /\ \A h \in BOOLEAN : myTask' = [myTask EXCEPT ![c] = [Ms!NoTask EXCEPT !.handed = h]] => MyTaskCalm
         /\ myTask' = [myTask EXCEPT ![c].handed = FALSE] => MyTaskCalm
<1>1. myTask' = myTask => MyTaskCalm
  BY DEF MyShape, MyTaskCalm
<1>2. ASSUME NEW h \in BOOLEAN, myTask' = [myTask EXCEPT ![c] = [Ms!NoTask EXCEPT !.handed = h]]
      PROVE  MyTaskCalm
  <2>1. [Ms!NoTask EXCEPT !.handed = h] \in MyTasks /\ [Ms!NoTask EXCEPT !.handed = h].pc = "off"
    BY DEF Ms!NoTask, MyTasks, MyKinds
  <2>2. QED
    BY <1>2, <2>1 DEF MyShape, MyTaskCalm
<1>3. ASSUME myTask' = [myTask EXCEPT ![c].handed = FALSE]
      PROVE  MyTaskCalm
  <2>1. myTask[c] \in MyTasks
    BY DEF MyShape
  <2>2. /\ [myTask[c] EXCEPT !.handed = FALSE] \in MyTasks
        /\ [myTask[c] EXCEPT !.handed = FALSE].pc = myTask[c].pc
        /\ [myTask[c] EXCEPT !.handed = FALSE].kind = myTask[c].kind
    BY <2>1 DEF MyTasks
  <2>3. myTask' = [myTask EXCEPT ![c] = [myTask[c] EXCEPT !.handed = FALSE]]
    BY <1>3
  <2>4. QED
    BY <2>2, <2>3 DEF MyShape, MyTaskCalm
<1>4. QED
  BY <1>1, <1>2, <1>3

\* A step that takes no connection from elsewhere and tells the server nothing new.
LEMMA MyKeeps ==
  ASSUME MyInv, MyConnCalm, MyTaskCalm, myCall' \in MyCalls,
         UNCHANGED <<myBound, myLimit, myInTxn, myWanted>>, myHome' \in {"a", None},
         myIdle' \in {None, myIdle} \/ (MyUsing /\ myIdle' = myCall.conn /\ myFlight' = None),
         myFlight' \in {None, myFlight},
         myIdle' # None => myCall'.pc \in {"free", "connection"},
         MyUsing' => MyUsing /\ myCall'.conn = myCall.conn /\ myCall'.kind = myCall.kind,
         myCall'.pc = "send" => myCall' = myCall,
         myUnsent' \in BOOLEAN, myUnsent \/ (MyEnding /\ ~MyUsing') => myUnsent',
         myBegan' = myBegan
           \/ (/\ myFlight # None /\ myTask[myFlight].pc = "run" /\ myTask[myFlight].kind = "begin"
               /\ myBegan' = myFlight /\ UNCHANGED <<myIdle, myFlight, myCall>>)
  PROVE  MyInv'
<1>1. MyShape'
  BY DEF MyInv, MyShape, MyConnCalm, MyTaskCalm, MyCalls, MyUsing
<1>2. MyTracked'
  <2>1. myIdle' # None => MyKnown(myIdle)'
    BY DEF MyInv, MyShape, MyTracked, MyConnCalm, MyKnown
  <2>2. myFlight' # None => MyKnown(myFlight)'
    BY DEF MyInv, MyShape, MyTracked, MyConnCalm, MyKnown
  <2>3. MyUsing' => MyKnown(myCall.conn)'
    BY DEF MyInv, MyShape, MyTracked, MyConnCalm, MyKnown
  <2>4. myCall'.pc = "send" => myBound' = Ms!BoundFor' /\ myLimit' = Ms!LimitFor'
    BY DEF MyInv, MyTracked, Ms!BoundFor, Ms!LimitFor
  <2>5. QED
    BY <2>1, <2>2, <2>3, <2>4 DEF MyTracked
<1>3. MyBegun'
  <2>1. myFlight # None => myFlight \in 1 .. MyConns
    BY DEF MyInv, MyShape
  <2>2. /\ MyUsing' /\ myCall'.kind = "begin" => myInTxn'
        /\ myFlight' # None /\ myTask'[myFlight'].pc = "run" /\ myTask'[myFlight'].kind = "begin" => myInTxn'
    BY <2>1 DEF MyInv, MyBegun, MyTaskCalm
  <2>3. CASE myBegan' = myBegan
    <3>1. CASE myBegan = None \/ myUnsent'
      BY <2>2, <2>3, <3>1 DEF MyBegun
    <3>2. CASE myBegan # None /\ ~myUnsent'
      <4>1. /\ myIdle \in {None, myBegan} /\ myFlight \in {None, myBegan} /\ (MyEnding \/ myInTxn)
            /\ (MyUsing /\ myCall.kind # "rollback" => myCall.conn = myBegan)
            /\ (MyEnding => MyUsing')
        BY <3>2 DEF MyInv, MyBegun
      <4>2. MyEnding => MyEnding'
        BY <4>1 DEF MyEnding
      <4>3. myIdle' \in {None, myBegan}
        BY <4>1 DEF MyEnding, MyUsing
      <4>4. MyUsing' /\ myCall'.kind # "rollback" => myCall'.conn = myBegan
        BY <4>1
      <4>5. QED
        BY <2>2, <2>3, <4>1, <4>2, <4>3, <4>4 DEF MyBegun
    <3>3. QED
      BY <3>1, <3>2
  <2>4. CASE myBegan' # myBegan
    <3>1. /\ myFlight # None /\ myInTxn /\ myBegan' = myFlight /\ UNCHANGED <<myIdle, myFlight, myCall>>
          /\ myIdle = None /\ ~MyUsing
      BY <2>4 DEF MyInv, MyBegun, MyShape
    <3>2. ~MyUsing'
      BY <3>1
    <3>3. QED
      BY <2>2, <3>1, <3>2 DEF MyBegun
  <2>5. QED
    BY <2>3, <2>4
<1>4. QED
  BY <1>1, <1>2, <1>3 DEF MyInv

\* The calls that end, or have not begun, and the session's own statement.
LEMMA MyCallSteps ==
  ASSUME MyInv,
         \/ \E s \in MyStatements : Ms!Execute(s)
         \/ Ms!StillRead \/ Ms!TransactionLost \/ Ms!OpenFails \/ Ms!NotApplied \/ Ms!Browse
         \/ Ms!Ready
  PROVE  MyInv'
<1> USE DEF Ms!driver, Ms!Failed
<1>1. MyShape /\ myCall \in MyCalls /\ myHome \in {"a", None} /\ 1 \in 1 .. MyConns
  BY EnginesAssumption DEF MyInv, MyShape
<1>2. /\ MyConnCalm /\ MyTaskCalm /\ UNCHANGED <<myBound, myLimit, myInTxn, myWanted, myHome, myBegan>>
      /\ myUnsent' \in BOOLEAN /\ (myUnsent \/ (MyEnding /\ ~MyUsing') => myUnsent')
  <2>1. /\ myConn' = myConn /\ myTask' = myTask
        /\ UNCHANGED <<myBound, myLimit, myInTxn, myWanted, myHome, myBegan>>
    BY DEF Ms!Execute, Ms!StillRead, Ms!TransactionLost, Ms!OpenFails, Ms!NotApplied, Ms!Browse, Ms!Ready
  <2>2. myUnsent' \in BOOLEAN /\ (myUnsent \/ (MyEnding /\ ~MyUsing') => myUnsent')
    <3>1. myUnsent \in BOOLEAN
      BY DEF MyInv, MyBegun
    <3>2. CASE Ms!NotApplied
      BY <3>1, <3>2 DEF Ms!NotApplied, Ms!Unsent, MyEnding, MyUsing
    <3>3. CASE Ms!Browse
      BY <3>1, <3>3 DEF Ms!Browse, MyEnding
    <3>4. CASE \/ \E s \in MyStatements : Ms!Execute(s)
               \/ Ms!StillRead \/ Ms!TransactionLost \/ Ms!OpenFails \/ Ms!Ready
      BY <3>1, <3>4
         DEF Ms!Execute, Ms!StillRead, Ms!TransactionLost, Ms!OpenFails, Ms!Ready, MyEnding, MyUsing
    <3>5. QED
      BY <3>2, <3>3, <3>4
  <2>3. QED
    BY <1>1, <2>1, <2>2, MyCalmConns, MyCalmTasks
<1>3. Ms!NoCall \in MyCalls /\ Ms!NoCall.pc = "free"
  BY DEF Ms!NoCall, MyCalls, MyKinds
<1>4. CASE \E s \in MyStatements : Ms!Execute(s)
  <2>1. PICK s \in MyStatements : Ms!Execute(s)
    BY <1>4
  <2>2. s.kind \in MyKinds /\ s.capped \in BOOLEAN /\ s.bound \in Nat
    BY EnginesAssumption DEF MyKinds
  <2>3. /\ myCall' = [pc |-> "connection", kind |-> s.kind, capped |-> s.capped, bound |-> s.bound,
                      conn |-> None]
        /\ UNCHANGED <<myIdle, myFlight>>
    BY <2>1 DEF Ms!Execute
  <2>4. myCall' \in MyCalls /\ myCall'.pc = "connection" /\ ~MyUsing'
    BY <2>2, <2>3 DEF MyCalls, MyUsing
  <2>5. QED
    BY <1>1, <1>2, <2>3, <2>4, MyKeeps
<1>5. CASE Ms!StillRead \/ Ms!TransactionLost \/ Ms!OpenFails \/ Ms!NotApplied \/ Ms!Browse \/ Ms!Ready
  <2>1. myCall' = Ms!NoCall /\ ~MyUsing' /\ myCall'.pc = "free" /\ myCall' \in MyCalls
    BY <1>3, <1>5
       DEF Ms!StillRead, Ms!TransactionLost, Ms!OpenFails, Ms!NotApplied, Ms!Browse, Ms!Ready, MyUsing
  <2>2. /\ myFlight' \in {None, myFlight}
        /\ myIdle' = myIdle \/ (MyUsing /\ myIdle' = myCall.conn /\ myFlight' = None)
    BY <1>1, <1>5
       DEF Ms!StillRead, Ms!TransactionLost, Ms!OpenFails, Ms!NotApplied, Ms!Browse, Ms!Ready, MyUsing,
           MyShape
  <2>3. QED
    BY <1>1, <1>2, <2>1, <2>2, MyKeeps
<1>6. QED
  BY <1>4, <1>5

\* A Stop drops the call where it stands.
LEMMA MyStops ==
  ASSUME MyInv, Ms!StopCall
  PROVE  MyInv'
<1>1. MyShape /\ myHome \in {"a", None} /\ 1 \in 1 .. MyConns
      /\ (MyUsing => myCall.conn \in 1 .. MyConns)
      /\ (myFlight # None => myFlight \in 1 .. MyConns)
  BY EnginesAssumption DEF MyInv, MyShape
<1>2. /\ myCall' = Ms!NoCall /\ Ms!NoCall \in MyCalls /\ Ms!NoCall.pc = "free"
      /\ UNCHANGED <<myIdle, myBound, myLimit, myInTxn, myWanted, myHome, myBegan>>
  BY DEF Ms!StopCall, Ms!Failed, Ms!driver, Ms!NoCall, MyCalls, MyKinds
<1>3. /\ ~MyUsing'
      /\ myUnsent' \in BOOLEAN /\ (myUnsent \/ (MyEnding /\ ~MyUsing') => myUnsent')
  <2>1. myUnsent \in BOOLEAN
    BY DEF MyInv, MyBegun
  <2>2. Ms!Unsent
    BY DEF Ms!StopCall
  <2>3. QED
    BY <1>2, <2>1, <2>2 DEF Ms!Unsent, MyEnding, MyUsing
<1>4. MyConnCalm /\ MyTaskCalm /\ myFlight' \in {None, myFlight}
  <2>1. CASE myCall.pc = "connection" /\ myIdle = None /\ myFlight # None
    <3>1. /\ myFlight' = None /\ myConn' \in {Ms!Dead(myFlight), myConn}
          /\ myTask' = [myTask EXCEPT ![myFlight].handed = FALSE]
      BY <2>1 DEF Ms!StopCall
    <3>2. QED
      BY <1>1, <2>1, <3>1, MyCalmConns, MyCalmTasks
  <2>2. CASE MyUsing
    <3>1. myConn' = Ms!Dead(myCall.conn) /\ UNCHANGED <<myFlight, myTask>>
      BY <2>2 DEF Ms!StopCall, MyUsing
    <3>2. QED
      BY <1>1, <2>2, <3>1, MyCalmConns, MyCalmTasks
  <2>3. CASE ~MyUsing /\ ~(myCall.pc = "connection" /\ myIdle = None /\ myFlight # None)
    <3>1. UNCHANGED <<myConn, myFlight, myTask>>
      BY <2>3 DEF Ms!StopCall, MyUsing
    <3>2. QED
      BY <1>1, <3>1, MyCalmConns, MyCalmTasks
  <2>4. QED
    BY <2>1, <2>2, <2>3
<1>5. QED
  BY <1>1, <1>2, <1>3, <1>4, MyKeeps

\* A call that got its connection: what the session's transaction is from here on.
LEMMA MyGets ==
  ASSUME MyInv, NEW c \in 1 .. MyConns, myCall.pc = "connection", Ms!Got(c),
         myConn' \in [1 .. MyConns -> MyConnRecords], MyTaskCalm,
         myIdle' = None, myFlight' = None, myBound' \in Nat, myLimit' \in Nat,
         MyKnown(c)',
         UNCHANGED <<myWanted, myHome>>,
         c \in {myIdle, myFlight} \/ ~myInTxn \/ myCall.kind = "rollback"
  PROVE  MyInv'
<1>1. /\ MyShape /\ myCall \in MyCalls /\ myCall' = [myCall EXCEPT !.pc = "use", !.conn = c]
      /\ None \notin 1 .. MyConns
  BY EnginesAssumption DEF MyInv, MyShape, Ms!Got
<1>2. /\ myCall' \in MyCalls /\ myCall'.pc = "use" /\ myCall'.conn = c /\ myCall'.kind = myCall.kind
  BY <1>1 DEF MyCalls
<1>3. /\ myCall.kind = "begin" => myInTxn' = TRUE
      /\ myCall.kind \in {"commit", "rollback"} => myInTxn' = FALSE
      /\ myCall.kind \notin {"begin", "commit", "rollback"} => myInTxn' = myInTxn
      /\ myBegan' = myBegan /\ myUnsent' = myUnsent
  BY DEF Ms!Got, Ms!Effect
<1>4. myInTxn' \in BOOLEAN
  BY <1>1, <1>3 DEF MyShape
<1>5. MyShape'
  BY <1>1, <1>2, <1>4 DEF MyShape, MyTaskCalm, MyUsing
<1>6. MyTracked'
  BY <1>2 DEF MyTracked, MyKnown, MyUsing
<1>7. MyBegun'
  <2>1. MyUsing' /\ ~MyUsing /\ ~MyEnding /\ (MyEnding' <=> myCall.kind \in {"commit", "rollback"})
    BY <1>2 DEF MyUsing, MyEnding
  <2>2. QED
    BY <1>1, <1>2, <1>3, <2>1 DEF MyInv, MyShape, MyBegun
<1>8. QED
  BY <1>5, <1>6, <1>7 DEF MyInv

LEMMA MyTakes ==
  ASSUME MyInv, Ms!TakeIdle \/ Ms!TakeBack \/ \E c \in Ms!Unopened : Ms!OpenAnother(c)
  PROVE  MyInv'
<1>1. MyShape /\ MyTracked /\ 1 \in 1 .. MyConns /\ None \notin 1 .. MyConns
      /\ (myIdle # None => myFlight = None)
  BY EnginesAssumption DEF MyInv, MyShape
<1>2. CASE Ms!TakeIdle
  <2>1. /\ myCall.pc = "connection" /\ myIdle \in 1 .. MyConns /\ Ms!Got(myIdle) /\ myIdle' = None
        /\ UNCHANGED <<myConn, myFlight, myWanted, myHome, myBound, myLimit, myTask>>
        /\ myFlight = None /\ MyKnown(myIdle)
    BY <1>1, <1>2 DEF Ms!TakeIdle, MyShape, MyTracked
  <2>2. MyTaskCalm
    BY <1>1, <2>1, MyCalmTasks
  <2>3. \E c \in 1 .. MyConns : c = myIdle /\ Ms!Got(c) /\ MyKnown(c)'
    BY <2>1 DEF MyKnown
  <2>4. QED
    BY <1>1, <2>1, <2>2, <2>3, MyGets DEF MyShape
<1>3. CASE Ms!TakeBack
  <2>1. /\ myCall.pc = "connection" /\ myFlight \in 1 .. MyConns /\ Ms!Got(myFlight) /\ myFlight' = None
        /\ myTask' = [myTask EXCEPT ![myFlight].handed = FALSE]
        /\ UNCHANGED <<myConn, myIdle, myWanted, myHome, myBound, myLimit>>
        /\ myIdle = None /\ MyKnown(myFlight)
    BY <1>1, <1>3 DEF Ms!TakeBack, MyShape, MyTracked
  <2>2. MyTaskCalm
    BY <1>1, <2>1, MyCalmTasks
  <2>3. \E c \in 1 .. MyConns : c = myFlight /\ Ms!Got(c) /\ MyKnown(c)'
    BY <2>1 DEF MyKnown
  <2>4. QED
    BY <1>1, <2>1, <2>2, <2>3, MyGets DEF MyShape
<1>4. CASE \E c \in Ms!Unopened : Ms!OpenAnother(c)
  <2>1. PICK c \in 1 .. MyConns : Ms!OpenAnother(c)
    BY <1>4 DEF Ms!Unopened
  <2>2. /\ myCall.pc = "connection" /\ Ms!Got(c) /\ myFlight' = None /\ myIdle = None
        /\ myConn' = [myConn EXCEPT ![c] = Ms!NewConn(myHome)] /\ myBound' = 0 /\ myLimit' = 0
        /\ UNCHANGED <<myIdle, myWanted, myHome, myTask>>
        /\ (~myInTxn \/ myCall.kind = "rollback")
    BY <2>1 DEF Ms!OpenAnother, Ms!Opened, Ms!MayReplace
  <2>3. MyTaskCalm
    BY <1>1, <2>2, MyCalmTasks
  <2>4. /\ Ms!NewConn(myHome) \in MyConnRecords
        /\ Ms!NewConn(myHome).bound = 0 /\ Ms!NewConn(myHome).limit = 0
    BY <1>1 DEF Ms!NewConn, Ms!NoConn, MyConnRecords, MyShape
  <2>5. myConn' \in [1 .. MyConns -> MyConnRecords] /\ MyKnown(c)'
    BY <1>1, <2>2, <2>4 DEF MyShape, MyKnown
  <2>6. QED
    BY <1>1, <2>1, <2>2, <2>3, <2>5, MyGets
<1>5. QED
  BY <1>2, <1>3, <1>4

\* USE, SET: what is sent before the statement, on the connection the call holds.
LEMMA MyUses ==
  ASSUME MyInv, Ms!UseWanted
  PROVE  MyInv'
<1>1. /\ MyShape /\ MyUsing /\ myCall.conn \in 1 .. MyConns /\ myCall \in MyCalls /\ myCall.pc = "use"
      /\ myConn \in [1 .. MyConns -> MyConnRecords] /\ myIdle = None /\ myFlight = None
      /\ UNCHANGED <<myIdle, myFlight, myWanted, myInTxn, myBound, myLimit, myTask, myBegan, myUnsent>>
      /\ myUnsent \in BOOLEAN
      /\ myCall' = [myCall EXCEPT !.pc = "set"]
  BY DEF Ms!UseWanted, MyInv, MyShape, MyBegun, MyUsing
<1>2. /\ myCall' \in MyCalls /\ myCall'.pc = "set" /\ myCall'.conn = myCall.conn
      /\ myCall'.kind = myCall.kind
  BY <1>1 DEF MyCalls
<1>3. MyConnCalm /\ myHome' \in {"a", None}
  <2>1. CASE UNCHANGED <<myConn, myHome>>
    BY <1>1, <2>1, MyCalmConns DEF MyShape
  <2>2. CASE myConn' = [myConn EXCEPT ![myCall.conn].db = myWanted] /\ myHome' = myWanted
    <3>1. myConn[myCall.conn] \in MyConnRecords /\ myWanted \in {"a", None}
      BY <1>1 DEF MyShape
    <3>2. PICK r \in MyConnRecords : r = myConn[myCall.conn]
      BY <3>1
    <3>3. PICK n \in MyConnRecords : n = [r EXCEPT !.db = myWanted]
      BY <3>1 DEF MyConnRecords
    <3>4. n.st = r.st /\ n.bound = r.bound /\ n.limit = r.limit
      BY <3>3 DEF MyConnRecords
    <3>5. myConn' = [myConn EXCEPT ![myCall.conn] = n]
      BY <1>1, <2>2, <3>2, <3>3
    <3>6. ASSUME NEW d \in 1 .. MyConns, myConn'[d].st = "open"
          PROVE  /\ myConn[d].st = "open"
                 /\ myConn'[d].bound = myConn[d].bound /\ myConn'[d].limit = myConn[d].limit
      <4>1. CASE d = myCall.conn
        BY <1>1, <3>2, <3>4, <3>5, <3>6, <4>1
      <4>2. CASE d # myCall.conn
        BY <1>1, <3>5, <3>6, <4>2
      <4>3. QED
        BY <4>1, <4>2
    <3>7. myConn' \in [1 .. MyConns -> MyConnRecords]
      BY <1>1, <3>5
    <3>8. QED
      BY <1>1, <2>2, <3>1, <3>6, <3>7 DEF MyConnCalm
  <2>3. QED
    BY <2>1, <2>2 DEF Ms!UseWanted
<1>4. MyTaskCalm
  BY <1>1, MyCalmTasks
<1>5. MyUsing'
  BY <1>2 DEF MyUsing
<1>6. QED
  BY <1>1, <1>2, <1>3, <1>4, <1>5, MyKeeps

LEMMA MyApplies ==
  ASSUME MyInv, Ms!ApplySettings
  PROVE  MyInv'
<1>1. /\ MyShape /\ MyTracked /\ MyUsing /\ myCall.conn \in 1 .. MyConns /\ myCall \in MyCalls
      /\ myCall.pc = "set" /\ myConn \in [1 .. MyConns -> MyConnRecords]
      /\ myIdle = None /\ myFlight = None /\ MyKnown(myCall.conn)
      /\ UNCHANGED <<myIdle, myFlight, myWanted, myHome, myInTxn, myTask, myBegan, myUnsent>>
      /\ myBound' = Ms!BoundFor /\ myLimit' = Ms!LimitFor
      /\ myCall' = [myCall EXCEPT !.pc = "send"]
  BY DEF Ms!ApplySettings, MyInv, MyShape, MyTracked, MyUsing
<1>2. Ms!BoundFor \in Nat /\ Ms!LimitFor \in Nat
  BY <1>1 DEF Ms!BoundFor, Ms!LimitFor, MyShape, MyCalls
<1>3. /\ myCall' \in MyCalls /\ myCall'.pc = "send" /\ myCall'.conn = myCall.conn
      /\ myCall'.kind = myCall.kind /\ myCall'.bound = myCall.bound /\ myCall'.capped = myCall.capped
  BY <1>1 DEF MyCalls
<1>4. /\ myConn' \in [1 .. MyConns -> MyConnRecords]
      /\ MyKnown(myCall.conn)'
  <2>1. CASE myConn' = myConn /\ <<myBound, myLimit>> = <<Ms!BoundFor, Ms!LimitFor>>
    BY <1>1, <1>3, <2>1 DEF MyKnown
  <2>2. CASE myConn' = [myConn EXCEPT ![myCall.conn].bound = Ms!BoundFor,
                                      ![myCall.conn].limit = Ms!LimitFor]
    <3>1. myConn[myCall.conn] \in MyConnRecords
      BY <1>1
    <3>2. PICK b \in Nat, l \in Nat : b = Ms!BoundFor /\ l = Ms!LimitFor
      BY <1>2
    <3>3. PICK o \in MyConnRecords : o = myConn[myCall.conn]
      BY <3>1
    <3>4. PICK r \in MyConnRecords : r = [o EXCEPT !.bound = b, !.limit = l] /\ r.bound = b /\ r.limit = l
      <4>1. [o EXCEPT !.bound = b, !.limit = l] \in MyConnRecords
        BY DEF MyConnRecords
      <4>2. [o EXCEPT !.bound = b, !.limit = l].bound = b /\ [o EXCEPT !.bound = b, !.limit = l].limit = l
        BY DEF MyConnRecords
      <4>3. QED
        BY <4>1, <4>2
    <3>5. myConn' = [myConn EXCEPT ![myCall.conn] = r]
      BY <1>1, <2>2, <3>2, <3>3, <3>4
    <3>6. QED
      BY <1>1, <1>3, <3>2, <3>4, <3>5 DEF MyKnown
  <2>3. QED
    BY <2>1, <2>2 DEF Ms!ApplySettings
<1>5. MyShape'
  BY <1>1, <1>2, <1>3, <1>4 DEF MyShape
<1>6. MyTracked'
  <2>1. Ms!BoundFor' = Ms!BoundFor /\ Ms!LimitFor' = Ms!LimitFor
    BY <1>1, <1>3 DEF Ms!BoundFor, Ms!LimitFor
  <2>2. QED
    BY <1>1, <1>4, <2>1 DEF MyTracked
<1>7. MyBegun'
  <2>1. MyUsing' /\ (MyEnding' <=> MyEnding)
    BY <1>1, <1>3 DEF MyEnding, MyUsing
  <2>2. QED
    BY <1>1, <1>3, <2>1 DEF MyInv, MyBegun
<1>8. QED
  BY <1>5, <1>6, <1>7 DEF MyInv

\* The producer takes the connection from the call.
LEMMA MySpawns ==
  ASSUME MyInv, NEW described \in BOOLEAN, Ms!Spawn(described)
  PROVE  MyInv'
<1> DEFINE c == myCall.conn
<1>1. /\ MyShape /\ MyTracked /\ MyUsing /\ c \in 1 .. MyConns /\ myCall \in MyCalls
      /\ myConn \in [1 .. MyConns -> MyConnRecords] /\ myTask \in [1 .. MyConns -> MyTasks]
      /\ myIdle = None /\ myFlight = None /\ MyKnown(c) /\ myFlight' = c
      /\ UNCHANGED <<myConn, myIdle, myWanted, myHome, myInTxn, myBound, myLimit>>
      /\ myCall' \in {Ms!NoCall, [myCall EXCEPT !.pc = "ready"]}
      /\ (MyEnding => myBegan' = None) /\ myBegan' \in {None, myBegan}
  BY DEF Ms!Spawn, Ms!driver, MyInv, MyShape, MyTracked, MyUsing, MyEnding
<1>2. myCall' \in MyCalls /\ myCall'.pc \in {"free", "ready"}
  <2>1. Ms!NoCall \in MyCalls /\ Ms!NoCall.pc = "free"
    BY DEF MyCalls, Ms!NoCall, MyKinds
  <2>2. [myCall EXCEPT !.pc = "ready"] \in MyCalls /\ [myCall EXCEPT !.pc = "ready"].pc = "ready"
    BY <1>1 DEF MyCalls
  <2>3. QED
    BY <1>1, <2>1, <2>2
<1>3. myTask' \in [1 .. MyConns -> MyTasks] /\ myTask'[c].kind = myCall.kind
  <2>1. PICK a \in BOOLEAN : a = ~described
    OBVIOUS
  <2>2. /\ [Ms!NoTask EXCEPT !.pc = "run", !.kind = myCall.kind, !.capped = myCall.capped, !.announce = a]
             \in MyTasks
        /\ [Ms!NoTask EXCEPT !.pc = "run", !.kind = myCall.kind, !.capped = myCall.capped,
                             !.announce = a].kind = myCall.kind
    BY <1>1 DEF Ms!NoTask, MyTasks, MyCalls, MyKinds
  <2>3. myTask' = [myTask EXCEPT ![c] = [Ms!NoTask EXCEPT !.pc = "run", !.kind = myCall.kind,
                                           !.capped = myCall.capped, !.announce = a]]
    BY <2>1 DEF Ms!Spawn
  <2>4. QED
    BY <1>1, <2>2, <2>3
<1>4. ~MyUsing'
  BY <1>2 DEF MyUsing
<1>5. MyShape'
  BY <1>1, <1>2, <1>3, <1>4 DEF MyShape
<1>6. MyTracked'
  BY <1>1, <1>2, <1>4 DEF MyTracked, MyKnown
<1>7. MyBegun'
  <2>1. myUnsent \in BOOLEAN /\ (MyUsing /\ myCall.kind = "begin" => myInTxn)
        /\ (myBegan # None /\ ~myUnsent =>
              (MyEnding \/ myInTxn) /\ (myCall.kind # "rollback" => c = myBegan))
    BY <1>1 DEF MyInv, MyBegun
  <2>2. /\ myUnsent' \in BOOLEAN
        /\ myBegan' # None /\ ~myUnsent' => myBegan # None /\ ~myUnsent /\ myBegan' = myBegan
    <3>1. CASE myCall.kind \in {"commit", "rollback"}
      BY <1>1, <2>1, <3>1 DEF Ms!Spawn, MyEnding
    <3>2. CASE myCall.kind = "begin"
      BY <1>1, <2>1, <3>2 DEF Ms!Spawn
    <3>3. CASE myCall.kind \notin {"begin", "commit", "rollback"}
      BY <1>1, <2>1, <3>3 DEF Ms!Spawn
    <3>4. QED
      BY <3>1, <3>2, <3>3
  <2>3. myBegan' # None /\ ~myUnsent' => myInTxn' /\ myFlight' = myBegan'
    BY <1>1, <2>1, <2>2 DEF MyEnding
  <2>4. QED
    BY <1>1, <1>3, <1>4, <2>1, <2>2, <2>3 DEF MyBegun
<1>8. QED
  BY <1>5, <1>6, <1>7 DEF MyInv

\* A step that is not the call's, and tells neither the driver nor the server anything new.
LEMMA MyPasses ==
  ASSUME MyInv, MyConnCalm, MyTaskCalm,
         UNCHANGED <<myIdle, myFlight, myWanted, myHome, myInTxn, myBound, myLimit, myCall, myBegan,
                    myUnsent>>
  PROVE  MyInv'
<1>1. /\ myCall \in MyCalls /\ myHome \in {"a", None} /\ myUnsent \in BOOLEAN
      /\ myIdle # None => myCall.pc \in {"free", "connection"}
  BY DEF MyInv, MyShape, MyBegun
<1>2. (MyUsing' <=> MyUsing) /\ (MyEnding => MyUsing)
  BY DEF MyUsing, MyEnding
<1>3. QED
  BY <1>1, <1>2, MyKeeps

\* The server's answer changes neither the bounds of the connection nor whether it is alive.
LEMMA MyActs ==
  ASSUME NEW c \in 1 .. MyConns, myConn[c] \in MyConnRecords, NEW k, NEW db \in {"a", None}
  PROVE  /\ [Ms!Acted(c, k) EXCEPT !.db = db] \in MyConnRecords
         /\ [Ms!Acted(c, k) EXCEPT !.db = db].st = myConn[c].st
         /\ [Ms!Acted(c, k) EXCEPT !.db = db].bound = myConn[c].bound
         /\ [Ms!Acted(c, k) EXCEPT !.db = db].limit = myConn[c].limit
<1>1. PICK r \in MyConnRecords : r = myConn[c]
  OBVIOUS
<1>2. \A n \in MyConnRecords : [n EXCEPT !.db = db] \in MyConnRecords
        /\ [n EXCEPT !.db = db].st = n.st /\ [n EXCEPT !.db = db].bound = n.bound
        /\ [n EXCEPT !.db = db].limit = n.limit
  BY DEF MyConnRecords
<1>3. Ms!Acted(c, k) \in {[r EXCEPT !.txn = TRUE], [r EXCEPT !.txn = FALSE], [r EXCEPT !.ro = TRUE], r}
  BY <1>1 DEF Ms!Acted
<1>4. /\ Ms!Acted(c, k) \in MyConnRecords /\ Ms!Acted(c, k).st = r.st
      /\ Ms!Acted(c, k).bound = r.bound /\ Ms!Acted(c, k).limit = r.limit
  BY <1>3 DEF MyConnRecords
<1>5. PICK n \in MyConnRecords : n = Ms!Acted(c, k)
  BY <1>4
<1>6. QED
  BY <1>1, <1>2, <1>4, <1>5

\* The statement that was answered, a BEGIN among them.
LEMMA MyRuns ==
  ASSUME MyInv, NEW c \in 1 .. MyConns, NEW db \in {"a", None}, NEW n \in Nat, Ms!Runs(c, db, n)
  PROVE  MyInv'
<1>1. /\ MyShape /\ myConn \in [1 .. MyConns -> MyConnRecords] /\ myTask \in [1 .. MyConns -> MyTasks]
      /\ myCall \in MyCalls /\ myHome \in {"a", None} /\ None \notin 1 .. MyConns
      /\ myIdle # None => myCall.pc \in {"free", "connection"}
  BY EnginesAssumption DEF MyInv, MyShape
<1>2. /\ UNCHANGED <<myIdle, myFlight, myWanted, myHome, myInTxn, myBound, myLimit, myCall, myUnsent>>
      /\ myTask[c].pc = "run" /\ myUnsent \in BOOLEAN
      /\ myBegan' = IF myTask[c].kind = "begin" /\ myFlight = c THEN c ELSE myBegan
  BY DEF Ms!Runs, Ms!driver, MyInv, MyBegun
<1>3. MyConnCalm
  <2>1. PICK r \in MyConnRecords :
          /\ r = [Ms!Acted(c, myTask[c].kind) EXCEPT !.db = db]
          /\ r.st = myConn[c].st /\ r.bound = myConn[c].bound /\ r.limit = myConn[c].limit
    BY <1>1, MyActs
  <2>2. myConn' = [myConn EXCEPT ![c] = r]
    BY <2>1 DEF Ms!Runs
  <2>3. ASSUME NEW d \in 1 .. MyConns, myConn'[d].st = "open"
        PROVE  /\ myConn[d].st = "open"
               /\ myConn'[d].bound = myConn[d].bound /\ myConn'[d].limit = myConn[d].limit
    <3>1. CASE d = c
      BY <1>1, <2>1, <2>2, <2>3, <3>1
    <3>2. CASE d # c
      BY <1>1, <2>2, <2>3, <3>2
    <3>3. QED
      BY <3>1, <3>2
  <2>4. myConn' \in [1 .. MyConns -> MyConnRecords]
    BY <1>1, <2>2
  <2>5. QED
    BY <2>3, <2>4 DEF MyConnCalm
<1>4. MyTaskCalm
  <2>1. PICK p \in {"announce", "rows"} : p = IF myTask[c].announce THEN "announce" ELSE "rows"
    OBVIOUS
  <2>2. PICK t \in MyTasks : t = myTask[c]
    BY <1>1
  <2>3. [t EXCEPT !.pc = p, !.left = n] \in MyTasks /\ [t EXCEPT !.pc = p, !.left = n].pc = p
    BY DEF MyTasks
  <2>4. myTask' = [myTask EXCEPT ![c] = [t EXCEPT !.pc = p, !.left = n]]
    BY <1>1, <2>1, <2>2 DEF Ms!Runs
  <2>5. QED
    BY <1>1, <2>1, <2>3, <2>4 DEF MyTaskCalm
<1>5. (MyUsing' <=> MyUsing) /\ (MyEnding => MyUsing)
  BY <1>2 DEF MyUsing, MyEnding
<1>6. \/ myBegan' = myBegan
      \/ (/\ myFlight # None /\ myTask[myFlight].pc = "run" /\ myTask[myFlight].kind = "begin"
          /\ myBegan' = myFlight /\ UNCHANGED <<myIdle, myFlight, myCall>>)
  BY <1>1, <1>2
<1>7. QED
  BY <1>1, <1>2, <1>3, <1>4, <1>5, <1>6, MyKeeps

\* The statement's end, whatever ended it.
LEMMA MyFinishes ==
  ASSUME MyInv, NEW c \in 1 .. MyConns, NEW clean \in BOOLEAN, NEW failed \in BOOLEAN,
         Ms!Finish(c, clean, failed), myConn' = myConn \/ myConn' = Ms!Dead(c)
  PROVE  MyConnCalm /\ MyTaskCalm
<1>1. MyShape
  BY DEF MyInv
<1>2. PICK h \in BOOLEAN : h = (clean /\ myFlight = c /\ Ms!Alive(c))
  OBVIOUS
<1>3. myTask' = [myTask EXCEPT ![c] = [Ms!NoTask EXCEPT !.handed = h]]
  BY <1>2 DEF Ms!Finish
<1>4. QED
  BY <1>1, <1>3, MyCalmConns, MyCalmTasks

LEMMA MyProduces ==
  ASSUME MyInv, NEW c \in 1 .. MyConns, Ms!Producer(c)
  PROVE  MyInv'
<1> USE DEF Ms!driver
<1>1. MyShape /\ myTask \in [1 .. MyConns -> MyTasks]
  BY DEF MyInv, MyShape
<1>2. CASE \E db \in {"a"} \cup {None}, n \in 0 .. MyBatches : Ms!Runs(c, db, n)
  <2>1. PICK db \in {"a", None}, n \in Nat : Ms!Runs(c, db, n)
    BY <1>2, EnginesAssumption
  <2>2. QED
    BY <2>1, MyRuns
<1>3. CASE Ms!Announce(c)
  <2>1. UNCHANGED <<myIdle, myFlight, myWanted, myHome, myInTxn, myBound, myLimit, myCall, myBegan,
                    myUnsent>>
    BY <1>3 DEF Ms!Announce
  <2>2. CASE c \in myCursors
    <3>1. myConn' = myConn /\ myTask' = [myTask EXCEPT ![c].pc = "rows"]
      BY <1>3, <2>2 DEF Ms!Announce
    <3>2. PICK t \in MyTasks : t = myTask[c]
      BY <1>1
    <3>3. [t EXCEPT !.pc = "rows"] \in MyTasks /\ [t EXCEPT !.pc = "rows"].pc = "rows"
      BY DEF MyTasks
    <3>4. myTask' = [myTask EXCEPT ![c] = [t EXCEPT !.pc = "rows"]]
      BY <1>1, <3>1, <3>2
    <3>5. MyConnCalm /\ MyTaskCalm
      BY <1>1, <3>1, <3>3, <3>4, MyCalmConns DEF MyTaskCalm
    <3>6. QED
      BY <2>1, <3>5, MyPasses
  <2>3. CASE c \notin myCursors
    <3>1. Ms!Finish(c, FALSE, FALSE) /\ Ms!AfterFinish(c, FALSE)
      BY <1>3, <2>3 DEF Ms!Announce
    <3>2. myConn' = Ms!Dead(c)
      BY <3>1 DEF Ms!AfterFinish
    <3>3. QED
      BY <2>1, <3>1, <3>2, MyFinishes, MyPasses
  <2>4. QED
    BY <2>2, <2>3
<1>4. CASE Ms!SendBatch(c)
  <2>1. UNCHANGED <<myIdle, myFlight, myWanted, myHome, myInTxn, myBound, myLimit, myCall, myBegan,
                    myUnsent>>
    BY <1>4 DEF Ms!SendBatch
  <2>2. CASE c \in myCursors
    <3>1. myConn' = myConn /\ myTask' = [myTask EXCEPT ![c].left = @ - 1] /\ myTask[c].left > 1
      BY <1>4, <2>2 DEF Ms!SendBatch
    <3>2. PICK t \in MyTasks : t = myTask[c]
      BY <1>1
    <3>3. PICK n \in Nat : n = t.left - 1
      BY <3>1, <3>2 DEF MyTasks
    <3>4. /\ [t EXCEPT !.left = n] \in MyTasks /\ [t EXCEPT !.left = n].pc = t.pc
          /\ [t EXCEPT !.left = n].kind = t.kind
      BY DEF MyTasks
    <3>5. myTask' = [myTask EXCEPT ![c] = [t EXCEPT !.left = n]]
      BY <1>1, <3>1, <3>2, <3>3
    <3>6. MyConnCalm /\ MyTaskCalm
      BY <1>1, <3>1, <3>2, <3>4, <3>5, MyCalmConns DEF MyTaskCalm
    <3>7. QED
      BY <2>1, <3>6, MyPasses
  <2>3. CASE c \notin myCursors
    <3>1. Ms!Finish(c, FALSE, FALSE) /\ Ms!AfterFinish(c, FALSE)
      BY <1>4, <2>3 DEF Ms!SendBatch
    <3>2. myConn' = Ms!Dead(c)
      BY <3>1 DEF Ms!AfterFinish
    <3>3. QED
      BY <2>1, <3>1, <3>2, MyFinishes, MyPasses
  <2>4. QED
    BY <2>2, <2>3
<1>5. CASE Ms!CapReached(c)
  <2>1. /\ UNCHANGED <<myIdle, myFlight, myWanted, myHome, myInTxn, myBound, myLimit, myCall, myBegan,
                    myUnsent>>
        /\ Ms!Finish(c, FALSE, FALSE) /\ myConn' = Ms!Dead(c)
    BY <1>5 DEF Ms!CapReached, Ms!AfterFinish
  <2>2. QED
    BY <2>1, MyFinishes, MyPasses
<1>6. CASE Ms!Exhausted(c)
  <2>1. /\ UNCHANGED <<myIdle, myFlight, myWanted, myHome, myInTxn, myBound, myLimit, myCall, myBegan,
                    myUnsent>>
        /\ myConn' = myConn \/ myConn' = Ms!Dead(c)
    BY <1>6 DEF Ms!Exhausted, Ms!AfterFinish
  <2>2. PICK h \in BOOLEAN : h = (myFlight = c)
    OBVIOUS
  <2>3. myTask' = [myTask EXCEPT ![c] = [Ms!NoTask EXCEPT !.handed = h]]
    BY <1>6, <2>2 DEF Ms!Exhausted
  <2>4. MyConnCalm /\ MyTaskCalm
    BY <1>1, <2>1, <2>3, MyCalmConns, MyCalmTasks
  <2>5. QED
    BY <2>1, <2>4, MyPasses
<1>7. CASE Ms!Refused(c)
  <2>1. /\ UNCHANGED <<myIdle, myFlight, myWanted, myHome, myInTxn, myBound, myLimit, myCall, myBegan,
                    myUnsent>>
        /\ Ms!Finish(c, TRUE, TRUE) /\ (myConn' = myConn \/ myConn' = Ms!Dead(c))
    BY <1>7 DEF Ms!Refused, Ms!AfterFinish
  <2>2. QED
    BY <2>1, MyFinishes, MyPasses
<1>8. CASE Ms!Cut(c)
  <2>1. /\ UNCHANGED <<myIdle, myFlight, myWanted, myHome, myInTxn, myBound, myLimit, myCall, myBegan,
                    myUnsent>>
        /\ Ms!Finish(c, FALSE, TRUE) /\ myConn' = myConn
    BY <1>8 DEF Ms!Cut
  <2>2. QED
    BY <2>1, MyFinishes, MyPasses
<1>9. QED
  BY <1>2, <1>3, <1>4, <1>5, <1>6, <1>7, <1>8 DEF Ms!Producer

\* The reset between two runs puts the server and the driver's copies back together.
LEMMA MyResets ==
  ASSUME MyInv, NEW db \in {"a", None}, Ms!NextRun(db)
  PROVE  MyInv'
<1>1. /\ MyShape /\ myTask \in [1 .. MyConns -> MyTasks] /\ myConn \in [1 .. MyConns -> MyConnRecords]
      /\ None \notin 1 .. MyConns
  BY EnginesAssumption DEF MyInv, MyShape
<1>2. PICK c \in 1 .. MyConns : c = Ms!ToReset
  BY <1>1 DEF Ms!NextRun, Ms!ToReset, MyShape
<1>3. /\ myCall.pc = "free" /\ UNCHANGED <<myHome, myCall>> /\ myIdle' = c /\ myFlight' = None
      /\ myWanted' = db /\ myInTxn' = FALSE /\ myBound' = 0 /\ myLimit' = 0 /\ myBegan' = None
      /\ myUnsent' = FALSE
      /\ myTask' = [myTask EXCEPT ![c].handed = FALSE]
      /\ myConn' = [myConn EXCEPT ![c] = Ms!NewConn(myConn[c].db)]
  BY <1>1, <1>2 DEF Ms!NextRun, MyShape
<1>4. MyTaskCalm
  BY <1>1, <1>3, MyCalmTasks
<1>5. /\ Ms!NewConn(myConn[c].db) \in MyConnRecords
      /\ Ms!NewConn(myConn[c].db).bound = 0 /\ Ms!NewConn(myConn[c].db).limit = 0
  <2>1. PICK d \in {"a", None} : d = myConn[c].db
    BY <1>1 DEF MyConnRecords
  <2>2. Ms!NewConn(d) \in MyConnRecords /\ Ms!NewConn(d).bound = 0 /\ Ms!NewConn(d).limit = 0
    BY DEF Ms!NewConn, Ms!NoConn, MyConnRecords
  <2>3. QED
    BY <2>1, <2>2
<1>6. /\ myConn' \in [1 .. MyConns -> MyConnRecords]
      /\ myConn'[c].bound = 0 /\ myConn'[c].limit = 0
  BY <1>1, <1>3, <1>5
<1>7. ~MyUsing' /\ myCall'.pc = "free"
  BY <1>3 DEF MyUsing
<1>8. MyShape'
  BY <1>1, <1>3, <1>4, <1>6, <1>7 DEF MyShape, MyTaskCalm
<1>9. MyTracked'
  BY <1>3, <1>6, <1>7 DEF MyTracked, MyKnown
<1>10. MyBegun'
  BY <1>3, <1>7 DEF MyBegun
<1>11. QED
  BY <1>8, <1>9, <1>10 DEF MyInv

LEMMA MyRests ==
  ASSUME MyInv, Ms!Session
  PROVE  MyInv'
<1>1. MyShape
  BY DEF MyInv
<1>2. CASE \E c \in 1 .. MyConns : Ms!NextBatch(c) \/ Ms!DropCursor(c) \/ Ms!ConnectionDies(c)
  <2>1. PICK c \in 1 .. MyConns : Ms!NextBatch(c) \/ Ms!DropCursor(c) \/ Ms!ConnectionDies(c)
    BY <1>2
  <2>2. /\ UNCHANGED <<myIdle, myFlight, myWanted, myHome, myInTxn, myBound, myLimit, myCall, myBegan,
                    myUnsent>>
        /\ myTask' = myTask /\ (myConn' = myConn \/ myConn' = Ms!Dead(c))
    BY <2>1 DEF Ms!NextBatch, Ms!DropCursor, Ms!ConnectionDies, Ms!driver
  <2>3. MyConnCalm /\ MyTaskCalm
    BY <1>1, <2>2, MyCalmConns, MyCalmTasks
  <2>4. QED
    BY <2>2, <2>3, MyPasses
<1>3. CASE \E db \in {"a"} \cup {None} : Ms!NextRun(db)
  BY <1>3, MyResets
<1>4. QED
  BY <1>2, <1>3 DEF Ms!Session

LEMMA MyStep ==
  ASSUME MyInv, Ms!Next
  PROVE  MyInv'
<1>1. CASE Ms!Call
  <2>1. CASE \E c \in 1 .. MyConns : Ms!OpenAnother(c)
    <3>1. \E c \in Ms!Unopened : Ms!OpenAnother(c)
      BY <2>1 DEF Ms!OpenAnother
    <3>2. QED
      BY <3>1, MyTakes
  <2>2. QED
    BY <1>1, <2>1, MyCallSteps, MyTakes, MyUses, MyApplies, MySpawns, MyStops DEF Ms!Call
<1>2. CASE Ms!Session
  BY <1>2, MyRests
<1>3. CASE \E c \in 1 .. MyConns : Ms!Producer(c)
  BY <1>3, MyProduces
<1>4. QED
  BY <1>1, <1>2, <1>3 DEF Ms!Next

LEMMA MyStarts ==
  ASSUME Ms!Init
  PROVE  MyInv
<1>1. 1 \in 1 .. MyConns /\ None \notin 1 .. MyConns /\ \A x \in 1 .. MyConns : x \in Nat /\ 1 <= x
  BY EnginesAssumption
<1>2. PICK db \in {"a"} \cup {None} :
        LET c == CHOOSE x \in 1 .. MyConns : \A y \in 1 .. MyConns : x <= y IN
        /\ myConn = [x \in 1 .. MyConns |-> IF x = c THEN Ms!NewConn(db) ELSE Ms!NoConn]
        /\ myIdle = c /\ myFlight = None
        /\ myWanted = db /\ myHome = db /\ myInTxn = FALSE /\ myBound = 0 /\ myLimit = 0
        /\ myCall = Ms!NoCall /\ myTask = [x \in 1 .. MyConns |-> Ms!NoTask] /\ myBegan = None
        /\ myUnsent = FALSE
  BY DEF Ms!Init
<1>3. PICK c \in 1 .. MyConns : c = CHOOSE x \in 1 .. MyConns : \A y \in 1 .. MyConns : x <= y
  BY <1>1
<1>4. /\ Ms!NewConn(db) \in MyConnRecords /\ Ms!NewConn(db).bound = 0 /\ Ms!NewConn(db).limit = 0
      /\ Ms!NoConn \in MyConnRecords
  BY DEF Ms!NewConn, Ms!NoConn, MyConnRecords
<1>5. Ms!NoTask \in MyTasks /\ Ms!NoCall \in MyCalls /\ Ms!NoCall.pc = "free"
  BY DEF Ms!NoTask, MyTasks, MyKinds, Ms!NoCall, MyCalls
<1>6. /\ myConn \in [1 .. MyConns -> MyConnRecords] /\ myConn[c].bound = 0 /\ myConn[c].limit = 0
      /\ myIdle = c /\ ~MyUsing /\ myCall.pc = "free"
  BY <1>2, <1>3, <1>4, <1>5 DEF MyUsing
<1>7. MyShape
  BY <1>2, <1>5, <1>6 DEF MyShape
<1>8. MyTracked /\ MyBegun
  BY <1>2, <1>6 DEF MyTracked, MyBegun, MyKnown
<1>9. QED
  BY <1>7, <1>8 DEF MyInv

LEMMA MyKept ==
  ASSUME MyInv
  PROVE  Ms!BoundsInForce /\ Ms!TransactionWhole
BY DEF MyInv, MyTracked, MyBegun, MyKnown, MyUsing, Ms!BoundsInForce, Ms!TransactionWhole, Ms!Sending,
       Ms!Alive

LEMMA MyAll ==
  ASSUME MyInv, [EnginesNext]_EnginesVars
  PROVE  MyInv'
<1>1. CASE Ms!Next
  BY <1>1, MyStep
<1>2. CASE UNCHANGED myVars
  BY <1>2 DEF myVars, MyInv, MyShape, MyTracked, MyBegun, MyEnding, MyKnown, MyUsing, Ms!BoundFor,
              Ms!LimitFor
<1>3. Ms!Next \/ UNCHANGED myVars
  BY DEF EnginesNext, EnginesVars, SwapStep, MysqlSessionStep, TrinoSessionStep,
     PostgresSessionStep, ImportStep, TransferStep, HostKeysStep, ValueCopyStep
<1>4. QED
  BY <1>1, <1>2, <1>3

-----------------------------------------------------------------------------
(* The sessions together.                                                  *)

\* Every statement runs under the bound and the cap of its own call, a transaction stays on its
\* connection, and a Trino cursor hands out each row once (the drivers' apply_session_settings,
\* fence, may_replace, TrinoCursor::next_batch, cancel), for every number of connections, bounds,
\* queries, pages, statements and runs.
THEOREM SessionsAreTrue == EnginesSpec => []SessionsTrue
<1> DEFINE Inv == MyInv /\ PgInv /\ TrInv
<1>1. EnginesInit => Inv
  <2>1. EnginesInit => Ms!Init
    BY DEF EnginesInit
  <2>2. QED
    BY <2>1, MyStarts, PgStarts, TrStarts
<1>2. Inv /\ [EnginesNext]_EnginesVars => Inv'
  BY MyAll, PgStep, TrStep
<1>3. Inv => SessionsTrue
  BY MyKept DEF SessionsTrue, PgInv, TrInv
<1>4. QED
  BY <1>1, <1>2, <1>3, PTL DEF EnginesSpec

-----------------------------------------------------------------------------
(* The trust in a bastion's key: HostKeysProofs, of this module's HostKeys. *)

Hp == INSTANCE HostKeysProofs WITH
    MaxEvents <- KeyEvents,
    user <- hkUser, system <- hkSystem, app <- hkApp, broken <- hkBroken, att <- hkAtt,
    recorded <- hkRecorded, events <- hkEvents

\* The two instances are of one module: every step of the one is a step of the other.
LEMMA KeysFirst == Hk!Init => Hp!KeysInv
<1>1. Hk!Init => Hp!Init
  BY DEF Hk!Init, Hp!Init, Hk!Line, Hp!Line, Hk!Idle, Hp!Idle, Hk!HostKeysOf, Hp!HostKeysOf
<1> QED BY <1>1, Hp!KeysInit

LEMMA KeysStay == Hp!KeysInv /\ Hk!Next => Hp!KeysInv'
<1> USE DEF Hk!Line, Hp!Line, Hk!Lines, Hp!Lines, Hk!Idle, Hp!Idle, Hk!HostKeysOf, Hp!HostKeysOf,
            Hk!RevokedOf, Hp!RevokedOf
<1>1. Hk!Edit => Hp!Edit
  BY DEF Hk!Edit, Hp!Edit
<1>2. ASSUME NEW a \in Attempts, NEW p PROVE Hk!Open(a, p) => Hp!Open(a, p)
  BY DEF Hk!Open, Hp!Open
<1>3. ASSUME NEW a \in Attempts
      PROVE  /\ Hk!Timeout(a) => Hp!Timeout(a)
             /\ Hk!Connected(a) => Hp!Connected(a)
             /\ Hk!Authenticated(a) => Hp!Authenticated(a)
             /\ Hk!Gone(a) => Hp!Gone(a)
             /\ Hk!SessionLost(a) => Hp!SessionLost(a)
             /\ Hk!ReadUser(a) => Hp!ReadUser(a)
             /\ Hk!ReadSystem(a) => Hp!ReadSystem(a)
  BY DEF Hk!Timeout, Hp!Timeout, Hk!Connected, Hp!Connected, Hk!Authenticated, Hp!Authenticated,
         Hk!Gone, Hp!Gone, Hk!SessionLost, Hp!SessionLost, Hk!ReadUser, Hp!ReadUser,
         Hk!ReadSystem, Hp!ReadSystem, Hk!Over, Hp!Over
<1>4. ASSUME NEW a \in Attempts, NEW k PROVE Hk!KeyArrives(a, k) => Hp!KeyArrives(a, k)
  BY DEF Hk!KeyArrives, Hp!KeyArrives, Hk!Over, Hp!Over
<1>5. ASSUME NEW a \in Attempts
      PROVE  /\ Hk!ReadApp(a) => Hp!ReadApp(a)
             /\ Hk!AppendRead(a) => Hp!AppendRead(a)
             /\ Hk!AppendLine(a) => Hp!AppendLine(a)
             /\ Hk!AppendFails(a) => Hp!AppendFails(a)
  BY DEF Hk!ReadApp, Hp!ReadApp, Hk!Verdict, Hp!Verdict, Hk!Unknown, Hp!Unknown, Hk!AppendRead,
         Hp!AppendRead, Hk!AppendLine, Hp!AppendLine, Hk!AppendFails, Hp!AppendFails, Hk!Accepted,
         Hp!Accepted, Hk!Over, Hp!Over
<1>6. Hk!Next => Hp!Next
  BY <1>1, <1>2, <1>3, <1>4, <1>5 DEF Hk!Next, Hp!Next, Hk!Policies, Hp!Policies
<1> QED BY <1>6, Hp!KeysStep

\* What the invariant of HostKeysProofs says of every attempt, of the attempts here.
LEMMA KeysAuth == Hp!KeysInv => AuthOnRecord
BY DEF Hp!KeysInv, Hp!AttemptOK, Hp!OnRecord, Hp!NotRevoked, AuthOnRecord, Hk!AuthOnRecord

LEMMA KeysSteps == Hp!KeysInv /\ [EnginesNext]_EnginesVars => Hp!KeysInv'
<1>1. ASSUME Hp!KeysInv, UNCHANGED hkVars PROVE Hp!KeysInv'
  BY <1>1 DEF hkVars, Hp!KeysInv, Hp!ShapeOK, Hp!FilesOK, Hp!AttemptOK, Hp!OnRecord, Hp!NotRevoked
<1>2. [EnginesNext]_EnginesVars => UNCHANGED hkVars \/ Hk!Next
  BY DEF EnginesNext, SwapStep, MysqlSessionStep, TrinoSessionStep, PostgresSessionStep, ImportStep,
         TransferStep, HostKeysStep, ValueCopyStep, EnginesVars
<1> QED BY <1>1, <1>2, KeysStay

\* Credentials go only to a key that is on record or that the caller named, and to none whose
\* revocation stood in one of the files all along, for every number of calls, keys and edits (tunnel.rs decide,
\* known_hosts.rs check_all and append_if_absent).
THEOREM AuthIsOnRecord == EnginesSpec => []AuthOnRecord
<1>1. EnginesInit => Hp!KeysInv
  BY KeysFirst DEF EnginesInit
<1> QED BY <1>1, KeysSteps, KeysAuth, PTL DEF EnginesSpec

-----------------------------------------------------------------------------
(* A replace of a table keeps SafeReplace's promise: the inductive         *)
(* invariant, its proof, and the step that maps every step of TableSwap to *)
(* one of SafeReplace or to a stutter.                                     *)

\* What the three names may hold: the user's rows are under at most one of
\* target and backup, and under none only when the new rows are the target.
Shape ==
    /\ tab["scratch"] # "old" /\ tab["backup"] # "new"
    /\ tab["target"] = "old" => first = "old" /\ tab["backup"] = "none"
    /\ tab["backup"] = "old" => first = "old"
    /\ tab["target"] = "new" => tab["scratch"] = "none"
    /\ first = "old" /\ tab["target"] # "old" /\ tab["backup"] # "old" => tab["target"] = "new"
    /\ late => pc \in {"discard", "end", "crashed"} /\ tab["target"] # "new"

\* Before the swap nothing but the scratch table has changed.
Untouched == tab["target"] = first /\ tab["backup"] = "none"

\* What PostgreSQL's transaction has made of the tables, statement by statement.
Staged ==
    /\ Untouched /\ tab["scratch"] = "new" /\ view["backup"] = "none"
    /\ index \in 1 .. 2 => view = tab
    /\ index = 3 => view["target"] = "none" /\ view["scratch"] = "new"
    /\ index = 4 => view["target"] = "new" /\ view["scratch"] = "none"

Phase ==
    /\ pc \in {"build", "probe"} => Untouched /\ view = tab
    /\ pc = "probe" => tab["scratch"] = "new" /\ ~late
    /\ pc \in {"build", "probe"} => index = 1
    /\ pc = "swap" => existed = (first = "old")
    /\ pc = "swap" /\ kind = "Postgres" => Staged
    /\ pc = "swap" /\ kind # "Postgres" =>
          /\ view = tab /\ tab["scratch"] = "new" /\ index \in 1 .. 2
          /\ index = 1 => Untouched
    /\ pc \in {"undo", "drop_old", "end", "crashed"} => view = tab
    /\ pc = "drop_old" => tab["target"] = "new"

SwapInv == TypeOK /\ Shape /\ Phase

\* The initial state satisfies the invariant, and maps to one of the promise's.
LEMMA SwapInit == Init => SwapInv /\ Promise!Init
<1> SUFFICES ASSUME Init PROVE SwapInv /\ Promise!Init
  OBVIOUS
<1>1. TypeOK
  <2>1. tab \in [Names -> {"none", "old", "new"}] /\ view = tab
    BY DEF Init
  <2>2. kind \in {"Postgres", "Mysql", "Trino"} /\ index \in 1 .. 5
    BY SwapAssumption DEF Init
  <2> QED BY <2>1, <2>2 DEF Init, TypeOK
<1>2. tab["target"] = first /\ tab["scratch"] = "none" /\ tab["backup"] = "none"
  BY DEF Init, Names
<1>3. Shape
  BY <1>2 DEF Init, Shape
<1>4. Phase
  BY <1>2 DEF Init, Phase, Untouched
<1>5. Promise!Init
  BY <1>2 DEF Init, Promise!Init, OldAt, NewAt
<1> QED BY <1>1, <1>3, <1>4, <1>5 DEF SwapInv

\* The step of the promise a change of the tables is.
PromiseStep == [Promise!Next]_<<OldAt, NewAt>>

\* A step that leaves the tables alone is a stutter of the promise.
LEMMA SameTables ==
  ASSUME tab' = tab, first' = first
  PROVE  PromiseStep
  BY DEF PromiseStep, OldAt, NewAt

\* A scratch table appears.
LEMMA BuildStep ==
  ASSUME SwapInv, first' = first, tab["target"] # "new", tab["scratch"] = "none",
         tab' = [tab EXCEPT !["scratch"] = "new"]
  PROVE  PromiseStep
  BY DEF PromiseStep, Promise!Next, Promise!Build, OldAt, NewAt, SwapInv, TypeOK, Names

\* The scratch table is dropped: the user's rows are still somewhere.
LEMMA DiscardStep ==
  ASSUME SwapInv, first' = first, tab' = [tab EXCEPT !["scratch"] = "none"]
  PROVE  PromiseStep
  BY DEF PromiseStep, Promise!Next, Promise!Discard, OldAt, NewAt, SwapInv, TypeOK, Shape, Names

USE DEF Goto, Say

\* The build, answered, refused, stopped, or finished by a server nobody waits for.
LEMMA BuildKeeps ==
  ASSUME SwapInv, BuildDone \/ BuildFails \/ (\E r \in BOOLEAN : BuildStopped(r)) \/ LateBuild
  PROVE  SwapInv' /\ PromiseStep
<1>1. CASE BuildDone
  <2>1. SwapInv'
    BY <1>1 DEF BuildDone, Answered, Acts, Possible, Done, InTransaction, SwapInv, TypeOK, Shape,
       Phase, Untouched, Staged, Names
  <2>2. PromiseStep
    BY <1>1, BuildStep DEF BuildDone, Answered, Acts, Possible, Done, InTransaction, SwapInv,
       Phase, Untouched, TypeOK
  <2> QED BY <2>1, <2>2
<1>2. CASE BuildFails
  <2>1. SwapInv'
    <3>1. view' = tab' /\ (tab' = tab \/ tab' = [tab EXCEPT !["scratch"] = "new"])
      BY <1>2 DEF BuildFails, Errs, Unacted, RolledBack, Acts, Done, SwapInv, Phase
    <3>2. TypeOK'
      BY <1>2, <3>1 DEF BuildFails, Errs, SwapInv, TypeOK, Names
    <3>3. Shape' /\ Phase'
      BY <1>2, <3>1 DEF BuildFails, Errs, SwapInv, TypeOK, Shape, Phase, Untouched, Names
    <3> QED BY <3>2, <3>3 DEF SwapInv
  <2>2. PromiseStep
    BY <1>2, BuildStep, SameTables DEF BuildFails, Errs, Unacted, RolledBack, Acts, Possible,
       Done, InTransaction, SwapInv, Phase, Untouched, TypeOK
  <2> QED BY <2>1, <2>2
<1>3. ASSUME NEW r \in BOOLEAN, BuildStopped(r) PROVE SwapInv' /\ PromiseStep
  <2>1. SwapInv'
    BY <1>3 DEF BuildStopped, Unacted, Acts, Possible, Done, InTransaction, SwapInv, TypeOK,
       Shape, Phase, Untouched, Staged, Names
  <2>2. PromiseStep
    BY <1>3, BuildStep, SameTables DEF BuildStopped, Unacted, Acts, Possible, Done,
       InTransaction, SwapInv, Phase, Untouched, TypeOK
  <2> QED BY <2>1, <2>2
<1>4. CASE LateBuild
  <2>1. SwapInv'
    <3>1. \/ view' = view /\ tab' = tab
          \/ view' = tab' /\ tab' = [tab EXCEPT !["scratch"] = "new"]
      BY <1>4 DEF LateBuild, Unacted, Done
    <3>2. pc \in {"discard", "end", "crashed"} /\ tab["target"] # "new"
      BY <1>4 DEF LateBuild, SwapInv, Shape
    <3>3. TypeOK'
      <4>1. /\ tab' \in [Names -> {"none", "old", "new"}]
            /\ view' \in [Names -> {"none", "old", "new"}]
        BY <3>1 DEF SwapInv, TypeOK, Names
      <4> QED BY <1>4, <4>1 DEF LateBuild, SwapInv, TypeOK
    <3>4. Shape'
      BY <1>4, <3>1, <3>2 DEF LateBuild, SwapInv, TypeOK, Shape, Names
    <3>5. Phase'
      BY <1>4, <3>1, <3>2 DEF LateBuild, SwapInv, Phase
    <3> QED BY <3>3, <3>4, <3>5 DEF SwapInv
  <2>2. PromiseStep
    BY <1>4, BuildStep, SameTables DEF LateBuild, Unacted, Possible, Done, SwapInv, Shape
  <2> QED BY <2>1, <2>2
<1> QED BY <1>1, <1>2, <1>3, <1>4

\* The probe changes nothing.
LEMMA ProbeKeeps ==
  ASSUME SwapInv, Probe \/ ProbeFails
  PROVE  SwapInv' /\ PromiseStep
<1>1. CASE Probe
  <2>1. SwapInv'
    BY <1>1 DEF Probe, server, SwapInv, TypeOK, Shape, Phase, Untouched, Staged, Names
  <2> QED BY <1>1, <2>1, SameTables DEF Probe, server
<1>2. CASE ProbeFails
  <2>1. tab' = tab /\ view' = tab
    BY <1>2 DEF ProbeFails, Errs, Unacted, RolledBack, Acts, Done, InTransaction, SwapInv, Phase
  <2>2. SwapInv'
    BY <1>2, <2>1 DEF ProbeFails, Errs, SwapInv, TypeOK, Shape, Phase, Untouched, Staged, Names
  <2> QED BY <1>2, <2>1, <2>2, SameTables DEF ProbeFails
<1> QED BY <1>1, <1>2

\* One statement of MySQL's or Trino's swap acts.
LEMMA PlainActs ==
  ASSUME SwapInv, pc = "swap", kind # "Postgres", index <= Len(Steps(kind, existed)),
         first' = first, Acts(Steps(kind, existed)[index])
  PROVE  /\ PromiseStep /\ tab' = view' /\ tab' \in [Names -> {"none", "old", "new"}]
         /\ tab'["backup"] # "new" /\ tab'["scratch"] # "old"
         /\ (tab'["target"] = "old" => first = "old" /\ tab'["backup"] = "none")
         /\ (tab'["backup"] = "old" => first = "old")
         /\ (tab'["target"] = "new" => tab'["scratch"] = "none")
         /\ (first = "old" /\ tab'["target"] # "old" /\ tab'["backup"] # "old"
               => tab'["target"] = "new")
         /\ (index = Len(Steps(kind, existed)) => tab'["target"] = "new")
         /\ (index < Len(Steps(kind, existed)) => tab'["scratch"] = "new" /\ index = 1)
<1> DEFINE s == Steps(kind, existed)[index]
<1>1. tab' = Done(s, tab) /\ view' = tab' /\ Possible(s, tab)
  BY DEF Acts, InTransaction, SwapInv, Phase
<1>2. tab \in [Names -> {"none", "old", "new"}] /\ tab["scratch"] = "new" /\ first \in {"old", "none"}
  BY DEF SwapInv, TypeOK, Phase
<1>3. CASE kind = "Mysql" /\ existed
  <2>1. s = "swap" /\ index = 1 /\ Len(Steps(kind, existed)) = 1
    BY <1>3 DEF Steps, SwapInv, TypeOK
  <2>2. tab["target"] = "old" /\ tab["backup"] = "none"
    BY <1>3, <2>1 DEF SwapInv, Phase, Untouched
  <2>3. tab' = [tab EXCEPT !["backup"] = "old", !["target"] = "new", !["scratch"] = "none"]
    BY <1>1, <1>2, <2>1, <2>2 DEF Done, Move, Names
  <2>4. PromiseStep
    BY <1>2, <2>2, <2>3 DEF PromiseStep, Promise!Next, Promise!Install, OldAt, NewAt, Names,
       SwapInv, Shape
  <2> QED BY <1>1, <1>2, <2>1, <2>2, <2>3, <2>4 DEF Names, SwapInv, Shape
<1>4. CASE kind = "Trino" /\ existed /\ index = 1
  <2>1. s = "aside" /\ Len(Steps(kind, existed)) = 2
    BY <1>4 DEF Steps
  <2>2. tab["target"] = "old" /\ tab["backup"] = "none"
    BY <1>4 DEF SwapInv, Phase, Untouched
  <2>3. tab' = [tab EXCEPT !["backup"] = "old", !["target"] = "none"]
    BY <1>1, <1>2, <2>1, <2>2 DEF Done, Move, Names
  <2>4. PromiseStep
    BY <1>2, <2>2, <2>3 DEF PromiseStep, Promise!Next, Promise!MoveAside, OldAt, NewAt, Names,
       SwapInv, Shape
  <2>5. /\ tab' \in [Names -> {"none", "old", "new"}]
        /\ tab'["backup"] = "old" /\ tab'["target"] = "none" /\ tab'["scratch"] = "new"
    BY <1>2, <2>3 DEF Names
  <2>6. first = "old"
    BY <2>2 DEF SwapInv, Shape
  <2>7. tab' = view'
    BY <1>1
  <2>8. index = 1 /\ index < Len(Steps(kind, existed)) /\ index # Len(Steps(kind, existed))
    BY <1>4 DEF Steps
  <2> HIDE DEF s
  <2> QED BY <2>4, <2>5, <2>6, <2>7, <2>8
<1>5. CASE ~existed \/ (kind = "Trino" /\ existed /\ index = 2)
  <2>1. s = "rename" /\ index = Len(Steps(kind, existed))
    BY <1>5 DEF Steps, SwapInv, TypeOK
  <2>2. tab["target"] = "none"
    BY <1>1, <2>1 DEF Possible
  <2>3. tab' = [tab EXCEPT !["target"] = "new", !["scratch"] = "none"]
    BY <1>1, <1>2, <2>1 DEF Done, Move, Names
  <2>4. PromiseStep
    BY <1>2, <2>2, <2>3 DEF PromiseStep, Promise!Next, Promise!Install, OldAt, NewAt, Names
  <2> QED BY <1>1, <1>2, <2>1, <2>2, <2>3, <2>4 DEF Names, SwapInv, Shape
<1>6. index \in 1 .. 2 /\ existed \in BOOLEAN /\ kind \in {"Mysql", "Trino"}
  BY DEF SwapInv, TypeOK, Phase
<1> QED BY <1>3, <1>4, <1>5, <1>6

\* One statement of PostgreSQL's transaction acts: only COMMIT shows.
LEMMA StagedActs ==
  ASSUME SwapInv, pc = "swap", kind = "Postgres", index <= Len(Steps(kind, existed)),
         first' = first, Acts(Steps(kind, existed)[index])
  PROVE  /\ view' \in [Names -> {"none", "old", "new"}] /\ view'["backup"] = "none"
         /\ index \in 1 .. 4 /\ Len(Steps(kind, existed)) = 4
         /\ (index = 1 => tab' = tab /\ view' = tab)
         /\ (index = 2 => tab' = tab /\ view'["target"] = "none" /\ view'["scratch"] = "new")
         /\ (index = 3 => tab' = tab /\ view'["target"] = "new" /\ view'["scratch"] = "none")
         /\ (index = 4 => tab' = view' /\ tab'["target"] = "new" /\ tab'["scratch"] = "none")
         /\ PromiseStep
<1>1. index \in 1 .. 4 /\ Len(Steps(kind, existed)) = 4
  BY DEF Steps, SwapInv, TypeOK
<1>2. Staged /\ view \in [Names -> {"none", "old", "new"}] /\ tab \in [Names -> {"none", "old", "new"}]
  BY DEF SwapInv, Phase, TypeOK
<1>3. CASE index = 1
  <2>1. tab' = tab /\ view' = tab
    BY <1>2, <1>3 DEF Steps, Acts, Done, Staged, InTransaction
  <2> QED BY <1>1, <1>2, <1>3, <2>1, SameTables DEF Staged, Untouched
<1>4. CASE index = 2
  <2>1. tab' = tab /\ view' = [tab EXCEPT !["target"] = "none"]
    BY <1>2, <1>4 DEF Steps, Acts, Done, Staged, InTransaction
  <2> QED BY <1>1, <1>2, <1>4, <2>1, SameTables DEF Staged, Untouched, Names
<1>5. CASE index = 3
  <2>1. tab' = tab /\ view' = Move(view, "scratch", "target")
    BY <1>2, <1>5 DEF Steps, Acts, Done, Staged, InTransaction
  <2> QED BY <1>1, <1>2, <1>5, <2>1, SameTables DEF Staged, Untouched, Names, Move
<1>6. CASE index = 4
  <2>1. tab' = view /\ view' = view
    BY <1>2, <1>6 DEF Steps, Acts, Done, Staged, InTransaction
  <2>2. PromiseStep
    BY <1>2, <1>6, <2>1 DEF PromiseStep, Promise!Next, Promise!Install, OldAt, NewAt, Staged,
       Untouched, Names, SwapInv, TypeOK
  <2> QED BY <1>1, <1>2, <1>6, <2>1, <2>2 DEF Staged
<1> QED BY <1>1, <1>3, <1>4, <1>5, <1>6

\* One statement of the swap, answered or not.
LEMMA SwapKeeps ==
  ASSUME SwapInv, Swap \/ SwapFails
  PROVE  SwapInv' /\ PromiseStep
<1> DEFINE steps == Steps(kind, existed)
<1>1. CASE Swap
  <2> USE <1>1
  <2>1. Acts(steps[index]) /\ pc = "swap" /\ index <= Len(steps)
    BY DEF Swap, Answered
  <2>2. CASE kind # "Postgres"
    <3> HIDE DEF steps
    <3>1. PromiseStep /\ tab' = view' /\ tab' \in [Names -> {"none", "old", "new"}]
      BY <2>1, <2>2, PlainActs DEF Swap, steps
    <3>2. TypeOK'
      BY <2>2, <3>1 DEF Swap, Answered, SwapInv, TypeOK, Phase
    <3>3. Shape'
      BY <2>1, <2>2, PlainActs DEF Swap, Answered, SwapInv, Shape, steps
    <3>4. Phase'
      BY <2>1, <2>2, <3>1, PlainActs DEF Swap, Answered, SwapInv, Phase, TypeOK, steps
    <3> QED BY <3>1, <3>2, <3>3, <3>4 DEF SwapInv
  <2>3. CASE kind = "Postgres"
    <3> HIDE DEF steps
    <3>1. /\ PromiseStep /\ view' \in [Names -> {"none", "old", "new"}]
          /\ tab' = tab \/ tab' = view'
          /\ index \in 1 .. 4 /\ Len(steps) = 4
      BY <2>1, <2>3, StagedActs DEF Swap, steps
    <3>2. TypeOK'
      BY <2>3, <3>1 DEF Swap, Answered, SwapInv, TypeOK
    <3>3. Shape'
      BY <2>1, <2>3, StagedActs DEF Swap, Answered, SwapInv, Shape, Phase, Staged, Untouched, steps
    <3>4. Phase'
      <4>1. index < 4 => pc' = "swap" /\ index' = index + 1 /\ Staged'
        BY <2>1, <2>3, <3>1, StagedActs DEF Swap, SwapInv, Phase, Staged, Untouched, steps
      <4>2. ASSUME index = 4 PROVE pc' = "end" /\ view' = tab'
        <5>1. view' = tab'
          BY <2>1, <2>3, <4>2, StagedActs DEF Swap, steps
        <5>2. ~(index < Len(steps))
          BY <3>1, <4>2
        <5> QED BY <2>3, <5>1, <5>2 DEF Swap, steps
      <4>3. existed' = existed /\ first' = first /\ existed = (first = "old") /\ kind' = kind
        BY <2>1 DEF Swap, SwapInv, Phase
      <4> QED BY <2>3, <3>1, <4>1, <4>2, <4>3 DEF Phase
    <3> QED BY <3>1, <3>2, <3>3, <3>4 DEF SwapInv
  <2> QED BY <2>2, <2>3
<1>2. CASE SwapFails
  <2> USE <1>2
  <2>1. pc = "swap" /\ index <= Len(steps) /\ first' = first /\ kind' = kind
    BY DEF SwapFails
  <2>2. CASE tab' = tab
    <3>1. view' = view \/ view' = tab
      BY <2>2 DEF SwapFails, Errs, Unacted, RolledBack
    <3>2. TypeOK'
      BY <2>2, <3>1 DEF SwapFails, Errs, SwapInv, TypeOK
    <3>3. Shape'
      BY <2>2 DEF SwapFails, Errs, SwapInv, Shape
    <3>4. Phase'
      BY <2>2, <3>1 DEF SwapFails, Errs, SwapInv, Phase, TypeOK
    <3> QED BY <2>1, <2>2, <3>2, <3>3, <3>4, SameTables DEF SwapInv
  <2>3. CASE Acts(steps[index]) /\ tab' = view'
    <3>1. CASE kind # "Postgres"
      <4> HIDE DEF steps
      <4>1. PromiseStep /\ tab' \in [Names -> {"none", "old", "new"}]
        BY <2>1, <2>3, <3>1, PlainActs DEF steps
      <4>2. TypeOK'
        BY <2>3, <4>1 DEF SwapFails, Errs, SwapInv, TypeOK
      <4>3. Shape'
        BY <2>1, <2>3, <3>1, PlainActs DEF SwapFails, Errs, SwapInv, Shape, steps
      <4>4. Phase'
        BY <2>3 DEF SwapFails, SwapInv, Phase
      <4> QED BY <4>1, <4>2, <4>3, <4>4 DEF SwapInv
    <3>2. CASE kind = "Postgres"
      <4> HIDE DEF steps
      <4>1. PromiseStep /\ view' \in [Names -> {"none", "old", "new"}]
        BY <2>1, <2>3, <3>2, StagedActs DEF steps
      <4>2. TypeOK'
        BY <2>3, <4>1 DEF SwapFails, Errs, SwapInv, TypeOK
      <4>3. Shape'
        BY <2>1, <2>3, <3>2, StagedActs DEF SwapFails, Errs, SwapInv, Shape, Phase, Staged,
           Untouched, steps
      <4>4. Phase'
        BY <2>3 DEF SwapFails, SwapInv, Phase
      <4> QED BY <4>1, <4>2, <4>3, <4>4 DEF SwapInv
    <3> QED BY <3>1, <3>2
  <2> QED BY <2>2, <2>3 DEF SwapFails, Errs, Unacted, RolledBack
<1> QED BY <1>1, <1>2

\* The old table goes back to its name.
LEMMA UndoKeeps ==
  ASSUME SwapInv, Undo \/ UndoFails
  PROVE  SwapInv' /\ PromiseStep
<1>1. pc = "undo" /\ view = tab /\ first' = first /\ ~late
  BY DEF Undo, UndoFails, SwapInv, Phase, Shape
<1>2. CASE tab' = tab
  <2>1. view' = tab
    BY <1>1, <1>2 DEF Undo, UndoFails, Answered, Errs, Unacted, RolledBack, Acts, InTransaction
  <2>2. TypeOK'
    BY <1>2, <2>1 DEF Undo, UndoFails, Answered, Errs, SwapInv, TypeOK
  <2>3. Shape'
    BY <1>1, <1>2 DEF Undo, UndoFails, Answered, Errs, SwapInv, Shape
  <2>4. Phase'
    BY <1>2, <2>1 DEF Undo, UndoFails, Phase
  <2> QED BY <1>1, <1>2, <2>2, <2>3, <2>4, SameTables DEF SwapInv
<1>3. CASE Acts("undo")
  <2>1. /\ tab["backup"] = "old" /\ tab["target"] = "none"
        /\ tab' = [tab EXCEPT !["target"] = "old", !["backup"] = "none"] /\ view' = tab'
    BY <1>1, <1>3 DEF Acts, Possible, Done, Move, InTransaction, SwapInv, TypeOK, Shape, Names
  <2>2. PromiseStep
    BY <1>1, <2>1 DEF PromiseStep, Promise!Next, Promise!PutBack, OldAt, NewAt, SwapInv, TypeOK,
       Shape, Names
  <2>3. TypeOK'
    BY <2>1 DEF Undo, UndoFails, Answered, Errs, SwapInv, TypeOK, Names
  <2>4. Shape'
    BY <1>1, <2>1 DEF Undo, UndoFails, Answered, Errs, SwapInv, TypeOK, Shape, Names
  <2>5. Phase'
    BY <2>1 DEF Undo, UndoFails, Phase
  <2> QED BY <2>2, <2>3, <2>4, <2>5 DEF SwapInv
<1> QED BY <1>2, <1>3 DEF Undo, UndoFails, Answered, Errs, Unacted, RolledBack

\* The scratch table is dropped, or left behind.
LEMMA DiscardKeeps ==
  ASSUME SwapInv, Discard \/ DiscardFails
  PROVE  SwapInv' /\ PromiseStep
<1>1. first' = first /\ view' = tab' /\ (tab' = tab \/ tab' = [tab EXCEPT !["scratch"] = "none"])
  BY DEF Discard, DiscardFails, RolledBack, Done
<1>2. PromiseStep
  BY <1>1, SameTables, DiscardStep
<1>3. TypeOK'
  <2>1. tab' \in [Names -> {"none", "old", "new"}] /\ view' \in [Names -> {"none", "old", "new"}]
    BY <1>1 DEF SwapInv, TypeOK, Names
  <2> QED BY <2>1 DEF Discard, DiscardFails, SwapInv, TypeOK
<1>4. Shape'
  BY <1>1 DEF Discard, DiscardFails, SwapInv, TypeOK, Shape, Names
<1>5. Phase'
  BY <1>1 DEF Discard, DiscardFails, Phase
<1> QED BY <1>2, <1>3, <1>4, <1>5 DEF SwapInv

\* The old table is dropped once the new one is the target.
LEMMA DropOldKeeps ==
  ASSUME SwapInv, DropOld \/ DropOldFails
  PROVE  SwapInv' /\ PromiseStep
<1>1. pc = "drop_old" /\ view = tab /\ tab["target"] = "new" /\ first' = first /\ ~late
  BY DEF DropOld, DropOldFails, SwapInv, Phase, Shape
<1>2. CASE tab' = tab
  <2>1. view' = tab
    BY <1>1, <1>2 DEF DropOld, DropOldFails, Answered, Errs, Unacted, RolledBack, Acts, InTransaction
  <2>2. TypeOK'
    BY <1>2, <2>1 DEF DropOld, DropOldFails, Answered, Errs, SwapInv, TypeOK
  <2>3. Shape'
    BY <1>1, <1>2 DEF DropOld, DropOldFails, Answered, Errs, SwapInv, Shape
  <2>4. Phase'
    BY <1>2, <2>1 DEF DropOld, DropOldFails, Phase
  <2> QED BY <1>1, <1>2, <2>2, <2>3, <2>4, SameTables DEF SwapInv
<1>3. CASE Acts("drop_old")
  <2>1. tab["backup"] = "old" /\ tab' = [tab EXCEPT !["backup"] = "none"] /\ view' = tab'
    BY <1>1, <1>3 DEF Acts, Possible, Done, InTransaction, SwapInv, TypeOK, Shape, Names
  <2>2. PromiseStep
    BY <1>1, <2>1 DEF PromiseStep, Promise!Next, Promise!DropOld, OldAt, NewAt, SwapInv, TypeOK,
       Shape, Names
  <2>3. TypeOK'
    BY <2>1 DEF DropOld, DropOldFails, Answered, Errs, SwapInv, TypeOK, Names
  <2>4. Shape'
    BY <1>1, <2>1 DEF DropOld, DropOldFails, Answered, Errs, SwapInv, TypeOK, Shape, Names
  <2>5. Phase'
    BY <2>1 DEF DropOld, DropOldFails, Phase
  <2> QED BY <2>2, <2>3, <2>4, <2>5 DEF SwapInv
<1> QED BY <1>2, <1>3 DEF DropOld, DropOldFails, Answered, Errs, Unacted, RolledBack

\* A Stop and a crash leave the tables alone.
LEMMA EndKeeps ==
  ASSUME SwapInv, Stop \/ Crash
  PROVE  SwapInv' /\ PromiseStep
<1>1. CASE Stop
  <2>1. SwapInv'
    BY <1>1 DEF Stop, server, SwapInv, TypeOK, Shape, Phase, Untouched, Staged
  <2> QED BY <1>1, <2>1, SameTables DEF Stop, server
<1>2. CASE Crash
  <2>1. SwapInv'
    BY <1>2 DEF Crash, RolledBack, SwapInv, TypeOK, Shape, Phase
  <2> QED BY <1>2, <2>1, SameTables DEF Crash, RolledBack
<1> QED BY <1>1, <1>2

\* Every step keeps the invariant and is a step of the promise or a stutter.
LEMMA SwapMaps == SwapInv /\ [Next]_vars => SwapInv' /\ PromiseStep
<1> SUFFICES ASSUME SwapInv, [Next]_vars PROVE SwapInv' /\ PromiseStep
  OBVIOUS
<1>1. CASE UNCHANGED vars
  <2>1. SwapInv'
    BY <1>1 DEF vars, server, SwapInv, TypeOK, Shape, Phase, Untouched, Staged
  <2> QED BY <1>1, <2>1, SameTables DEF vars, server
<1>2. CASE Next
  BY <1>2, BuildKeeps, ProbeKeeps, SwapKeeps, UndoKeeps, DiscardKeeps, DropOldKeeps, EndKeeps
     DEF Next
<1> QED BY <1>1, <1>2

\* A replace keeps its promise for every driver, whatever statement fails or is lost
\* and wherever the program stops (replace_table): the user's rows are given up only by
\* or after the step that puts the new ones in place.
THEOREM SwapReplaces == Spec => Replaces
<1>1. Init => SwapInv /\ Promise!Init
  BY SwapInit
<1>2. SwapInv /\ [Next]_vars => SwapInv' /\ [Promise!Next]_<<OldAt, NewAt>>
  BY SwapMaps DEF PromiseStep
<1> QED BY <1>1, <1>2, PTL DEF Spec, Replaces, Promise!Spec

\* In particular the user's rows are always under some name unless the new rows are the
\* table they asked for (the PF-1 note of table_swap.rs).
THEOREM RowsNeverLost ==
    Spec => [](first = "old" => "old" \in {tab["target"], tab["backup"]} \/ tab["target"] = "new")
<1>1. Init => SwapInv
  BY SwapInit
<1>2. SwapInv /\ [Next]_vars => SwapInv'
  BY SwapMaps
<1>3. SwapInv => (first = "old" => "old" \in {tab["target"], tab["backup"]} \/ tab["target"] = "new")
  BY DEF SwapInv, Shape
<1> QED BY <1>1, <1>2, <1>3, PTL DEF Spec

-----------------------------------------------------------------------------
(* The run's last word.                                                    *)

\* What has been said so far, and what the tables are when the run is about to say more.
WordBefore ==
    /\ pc \in {"build", "probe"} => said = {}
    /\ pc = "swap" =>
          /\ said = (IF existed THEN {"replaced"} ELSE {})
          /\ kind # "Postgres" /\ index = 2 =>
                kind = "Trino" /\ existed /\ tab["target"] = "none" /\ tab["backup"] = "old"

WordAfter ==
    ~lost =>
      /\ pc = "undo" => /\ said = {"replaced"} /\ tab["target"] = "none"
                        /\ tab["backup"] = "old" /\ tab["scratch"] = "new"
      /\ pc = "discard" => /\ said = {} /\ tab["target"] = first /\ tab["backup"] = "none"
                           /\ late => ~reusable
      /\ pc = "drop_old" => /\ said = {"replaced"} /\ tab["target"] = "new"
                            /\ tab["backup"] = "old" /\ tab["scratch"] = "none"
      /\ pc = "end" /\ late => "leftover" \in said

WordInv == WordBefore /\ WordAfter /\ TrueWord

LEMMA WordInit == Init => WordInv
  BY DEF Init, WordInv, WordBefore, WordAfter, TrueWord

LEMMA BuildSays ==
  ASSUME SwapInv, WordInv, BuildDone \/ BuildFails \/ (\E r \in BOOLEAN : BuildStopped(r))
  PROVE  WordInv'
<1>1. /\ pc = "build" /\ said' = said /\ said = {} /\ first' = first /\ tab["target"] = first
      /\ tab["backup"] = "none" /\ view = tab /\ ~late
  BY DEF BuildDone, BuildFails, BuildStopped, SwapInv, Shape, Phase, Untouched, WordInv, WordBefore
<1>2. tab' = tab \/ tab' = [tab EXCEPT !["scratch"] = "new"]
  BY <1>1 DEF BuildDone, BuildFails, BuildStopped, Answered, Errs, Acts, Unacted, RolledBack, Done
<1>3. tab'["target"] = first /\ tab'["backup"] = "none"
  BY <1>1, <1>2 DEF SwapInv, TypeOK, Names
<1>4. pc' \in {"discard", "probe"}
  BY DEF BuildDone, BuildFails, BuildStopped
<1>5. ~lost' /\ late' /\ pc' = "discard" => ~reusable'
  BY <1>1 DEF BuildDone, BuildFails, BuildStopped, Answered, Errs
<1> QED BY <1>1, <1>3, <1>4, <1>5 DEF WordInv, WordBefore, WordAfter, TrueWord

\* A build nobody waits for changes the scratch table alone, whose name the run has given or will.
LEMMA LateSays ==
  ASSUME SwapInv, WordInv, LateBuild
  PROVE  WordInv'
<1>1. /\ pc \in {"discard", "end", "crashed"} /\ tab["target"] # "new" /\ late /\ ~late'
      /\ UNCHANGED <<kind, first, pc, index, existed, reusable, said, lost>>
  BY DEF LateBuild, SwapInv, Shape
<1>2. tab' = tab \/ tab' = [tab EXCEPT !["scratch"] = "new"]
  BY DEF LateBuild, Unacted, Done
<1>3. /\ tab'["target"] = tab["target"] /\ tab'["backup"] = tab["backup"]
      /\ tab'["scratch"] \in {tab["scratch"], "new"}
  BY <1>2 DEF SwapInv, TypeOK, Names
<1>4. WordBefore' /\ WordAfter'
  BY <1>1, <1>3 DEF WordInv, WordBefore, WordAfter
<1>5. TrueWord'
  <2> SUFFICES ASSUME pc = "end", ~lost PROVE TrueWord'
    BY <1>1 DEF TrueWord
  <2>1. "leftover" \in said
    BY <1>1 DEF WordInv, WordAfter
  <2> QED BY <1>1, <1>3, <2>1 DEF WordInv, TrueWord
<1> QED BY <1>4, <1>5 DEF WordInv

LEMMA ProbeSays ==
  ASSUME SwapInv, WordInv, Probe \/ ProbeFails
  PROVE  WordInv'
<1>1. /\ pc = "probe" /\ said = {} /\ index = 1 /\ tab["target"] = first /\ tab["backup"] = "none"
      /\ first' = first /\ ~late /\ view = tab /\ index' = index /\ late' = late
  BY DEF Probe, ProbeFails, Errs, server, SwapInv, Shape, Phase, Untouched, WordInv, WordBefore
<1>2. CASE Probe
  BY <1>1, <1>2 DEF Probe, server, WordInv, WordBefore, WordAfter, TrueWord
<1>3. CASE ProbeFails
  <2>1. tab' = tab /\ said' = said /\ pc' = "discard"
    BY <1>1, <1>3 DEF ProbeFails, Errs, Unacted, RolledBack, Acts, Done, InTransaction
  <2> QED BY <1>1, <2>1 DEF WordInv, WordBefore, WordAfter, TrueWord
<1> QED BY <1>2, <1>3

LEMMA SwapSays ==
  ASSUME SwapInv, WordInv, Swap \/ SwapFails
  PROVE  WordInv'
<1> DEFINE steps == Steps(kind, existed)
<1>0. /\ pc = "swap" /\ index <= Len(steps) /\ said = (IF existed THEN {"replaced"} ELSE {})
      /\ existed = (first = "old") /\ ~late /\ existed \in BOOLEAN
      /\ kind' = kind /\ first' = first /\ existed' = existed /\ reusable' = reusable
      /\ late' = late
  BY DEF Swap, SwapFails, Answered, Errs, SwapInv, TypeOK, Shape, Phase, WordInv, WordBefore
<1>1. CASE Swap
  <2>1. Acts(steps[index]) /\ said' = said /\ index' = index + 1
        /\ pc' = IF index < Len(steps) THEN "swap"
                 ELSE IF existed /\ kind # "Postgres" THEN "drop_old" ELSE "end"
    BY <1>1 DEF Swap, Answered
  <2>2. CASE kind = "Postgres"
    <3> HIDE DEF steps
    <3>1. /\ index \in 1 .. 4 /\ Len(steps) = 4 /\ view'["backup"] = "none"
          /\ index = 4 => tab' = view' /\ tab'["target"] = "new" /\ tab'["scratch"] = "none"
      BY <1>0, <2>1, <2>2, StagedActs DEF steps
    <3>2. CASE index < 4
      <4>1. pc' = "swap"
        BY <2>1, <3>1, <3>2
      <4> QED BY <1>0, <2>1, <2>2, <4>1 DEF WordInv, WordBefore, WordAfter, TrueWord
    <3>3. CASE index = 4
      <4>1. pc' = "end"
        BY <2>1, <2>2, <3>1, <3>3
      <4> QED BY <1>0, <2>1, <2>2, <3>1, <3>3, <4>1 DEF WordInv, WordBefore, WordAfter, TrueWord
    <3> QED BY <3>1, <3>2, <3>3
  <2>3. CASE kind # "Postgres"
    <3>1. view = tab /\ tab["scratch"] = "new" /\ index \in 1 .. 2 /\ kind \in {"Mysql", "Trino"}
          /\ tab \in [Names -> {"none", "old", "new"}]
          /\ (index = 1 => tab["target"] = first /\ tab["backup"] = "none")
      BY <1>0, <2>3 DEF SwapInv, TypeOK, Phase, Untouched
    <3>2. tab' = Done(steps[index], tab)
      BY <2>1, <2>3, <3>1 DEF Acts, InTransaction
    <3>3. CASE kind = "Mysql" /\ existed
      <4>1. steps[index] = "swap" /\ index = Len(steps)
        BY <1>0, <3>1, <3>3 DEF Steps
      <4>2. tab' = [tab EXCEPT !["backup"] = "old", !["target"] = "new", !["scratch"] = "none"]
        BY <1>0, <3>1, <3>2, <3>3, <4>1 DEF Done, Move, Names, Steps
      <4>3. tab'["backup"] = "old" /\ tab'["target"] = "new" /\ tab'["scratch"] = "none"
        BY <3>1, <4>2 DEF Names
      <4>4. pc' = "drop_old"
        <5>1. ~(index < Len(steps))
          BY <3>1, <4>1
        <5> HIDE DEF steps
        <5> QED BY <2>1, <2>3, <3>3, <5>1
      <4> QED BY <1>0, <2>1, <3>3, <4>3, <4>4 DEF WordInv, WordBefore, WordAfter, TrueWord
    <3>4. CASE kind = "Trino" /\ existed /\ index = 1
      <4>1. steps[index] = "aside" /\ index < Len(steps)
        BY <1>0, <3>1, <3>4 DEF Steps
      <4>2. tab' = [tab EXCEPT !["backup"] = "old", !["target"] = "none"]
        BY <1>0, <3>1, <3>2, <3>4, <4>1 DEF Done, Move, Names
      <4>3. tab'["backup"] = "old" /\ tab'["target"] = "none"
        BY <3>1, <4>2 DEF Names
      <4>4. pc' = "swap"
        BY <2>1, <4>1
      <4> HIDE DEF steps
      <4> QED BY <1>0, <2>1, <3>4, <4>3, <4>4 DEF WordInv, WordBefore, WordAfter, TrueWord
    <3>5. CASE kind = "Trino" /\ existed /\ index = 2
      <4>1. steps[index] = "rename" /\ index = Len(steps)
        BY <1>0, <3>1, <3>5 DEF Steps
      <4>2. tab' = [tab EXCEPT !["target"] = "new", !["scratch"] = "none"]
        BY <1>0, <3>1, <3>2, <3>5, <4>1 DEF Done, Move, Names
      <4>3. tab'["backup"] = "old" /\ tab'["target"] = "new" /\ tab'["scratch"] = "none"
        BY <1>0, <2>3, <3>1, <3>5, <4>2 DEF Names, WordInv, WordBefore
      <4>4. pc' = "drop_old"
        <5>1. ~(index < Len(steps))
          BY <3>1, <4>1
        <5> HIDE DEF steps
        <5> QED BY <2>1, <2>3, <3>5, <5>1
      <4> QED BY <1>0, <2>1, <3>5, <4>3, <4>4 DEF WordInv, WordBefore, WordAfter, TrueWord
    <3>6. CASE ~existed
      <4>1. steps[index] = "rename" /\ index = Len(steps) /\ index = 1
        BY <1>0, <3>1, <3>6 DEF Steps
      <4>2. tab' = [tab EXCEPT !["target"] = "new", !["scratch"] = "none"]
        BY <1>0, <3>1, <3>2, <3>6, <4>1 DEF Done, Move, Names
      <4>3. tab'["backup"] = "none" /\ tab'["target"] = "new" /\ tab'["scratch"] = "none"
        BY <3>1, <4>1, <4>2 DEF Names
      <4>4. pc' = "end"
        BY <2>1, <3>6, <4>1
      <4> QED BY <1>0, <2>1, <3>6, <4>3, <4>4 DEF WordInv, WordBefore, WordAfter, TrueWord
    <3> QED BY <3>1, <3>3, <3>4, <3>5, <3>6
  <2> QED BY <2>2, <2>3
<1>2. CASE SwapFails
  <2>1. pc' \in {"undo", "discard"}
    BY <1>2 DEF SwapFails
  <2>2. ~lost' => tab' = tab /\ ~lost
    BY <1>2 DEF SwapFails, Errs, Unacted, RolledBack
  <2>3. CASE kind = "Trino" /\ index > 1
    <3>1. index = 2 /\ kind # "Postgres" /\ tab["scratch"] = "new"
      BY <1>0, <2>3 DEF SwapInv, Phase
    <3>2. existed /\ tab["target"] = "none" /\ tab["backup"] = "old"
      BY <1>0, <3>1 DEF WordInv, WordBefore
    <3>3. pc' = "undo" /\ said' = said
      BY <1>2, <2>3 DEF SwapFails
    <3> QED BY <1>0, <2>2, <3>1, <3>2, <3>3 DEF WordInv, WordBefore, WordAfter, TrueWord
  <2>4. CASE ~(kind = "Trino" /\ index > 1)
    <3>1. tab["target"] = first /\ tab["backup"] = "none"
      BY <1>0, <2>4 DEF SwapInv, TypeOK, Phase, Staged, Untouched, Steps
    <3>2. pc' = "discard" /\ said' = said \ {"replaced"}
      BY <1>2, <2>4 DEF SwapFails
    <3>3. said' = {}
      BY <1>0, <3>2
    <3> QED BY <1>0, <2>2, <3>1, <3>2, <3>3 DEF WordInv, WordBefore, WordAfter, TrueWord
  <2> QED BY <2>3, <2>4
<1> QED BY <1>1, <1>2

LEMMA UndoSays ==
  ASSUME SwapInv, WordInv, Undo \/ UndoFails
  PROVE  WordInv'
<1>1. /\ pc = "undo" /\ view = tab /\ tab \in [Names -> {"none", "old", "new"}] /\ ~late
      /\ first' = first /\ late' = late
  BY DEF Undo, UndoFails, Answered, Errs, SwapInv, TypeOK, Shape, Phase
<1>2. CASE Undo
  <2>1. lost' = lost /\ pc' = "discard" /\ said' = said \ {"replaced"} /\ tab' = Move(tab, "backup", "target")
    BY <1>1, <1>2 DEF Undo, Answered, Acts, Done, InTransaction
  <2>2. tab["backup"] = "old" => tab'["target"] = "old" /\ tab'["backup"] = "none" /\ first = "old"
    BY <1>1, <2>1 DEF Move, Names, SwapInv, Shape
  <2> QED BY <1>1, <2>1, <2>2 DEF WordInv, WordBefore, WordAfter, TrueWord
<1>3. CASE UndoFails
  <2>1. pc' = "end" /\ said' = said \cup {"aside"} /\ (~lost' => tab' = tab /\ ~lost)
    BY <1>3 DEF UndoFails, Errs, Unacted, RolledBack
  <2> QED BY <1>1, <2>1 DEF WordInv, WordBefore, WordAfter, TrueWord
<1> QED BY <1>2, <1>3

LEMMA DiscardSays ==
  ASSUME SwapInv, WordInv, Discard \/ DiscardFails
  PROVE  WordInv'
<1>1. pc = "discard" /\ pc' = "end" /\ first' = first /\ tab \in [Names -> {"none", "old", "new"}]
      /\ late' = late
  BY DEF Discard, DiscardFails, SwapInv, TypeOK
<1>2. CASE Discard
  <2>1. reusable /\ lost' = lost /\ said' = said \cup {"untouched"}
        /\ tab' = [tab EXCEPT !["scratch"] = "none"]
    BY <1>2 DEF Discard, Done
  <2>2. tab'["scratch"] = "none" /\ tab'["target"] = tab["target"] /\ tab'["backup"] = tab["backup"]
    BY <1>1, <2>1 DEF Names
  <2> QED BY <1>1, <2>1, <2>2 DEF WordInv, WordBefore, WordAfter, TrueWord
<1>3. CASE DiscardFails
  <2>1. said' = said \cup {"untouched", "leftover"} /\ (~lost' => tab' = tab /\ ~lost)
    BY <1>3 DEF DiscardFails, RolledBack
  <2> QED BY <1>1, <2>1 DEF WordInv, WordBefore, WordAfter, TrueWord
<1> QED BY <1>2, <1>3

LEMMA DropSays ==
  ASSUME SwapInv, WordInv, DropOld \/ DropOldFails
  PROVE  WordInv'
<1>1. /\ pc = "drop_old" /\ pc' = "end" /\ view = tab /\ tab \in [Names -> {"none", "old", "new"}]
      /\ ~late /\ late' = late
  BY DEF DropOld, DropOldFails, Answered, Errs, SwapInv, TypeOK, Shape, Phase
<1>2. CASE DropOld
  <2>1. lost' = lost /\ said' = said /\ tab' = [tab EXCEPT !["backup"] = "none"]
    BY <1>1, <1>2 DEF DropOld, Answered, Acts, Done, InTransaction
  <2>2. /\ tab'["backup"] = "none" /\ tab'["target"] = tab["target"]
        /\ tab'["scratch"] = tab["scratch"]
    BY <1>1, <2>1 DEF Names
  <2> QED BY <1>1, <2>1, <2>2 DEF WordInv, WordBefore, WordAfter, TrueWord
<1>3. CASE DropOldFails
  <2>1. said' = said \cup {"kept"} /\ (~lost' => tab' = tab /\ ~lost)
    BY <1>3 DEF DropOldFails, Errs, Unacted, RolledBack
  <2> QED BY <1>1, <2>1 DEF WordInv, WordBefore, WordAfter, TrueWord
<1> QED BY <1>2, <1>3

LEMMA WordNext == SwapInv /\ WordInv /\ [Next]_vars => WordInv'
<1> SUFFICES ASSUME SwapInv, WordInv, [Next]_vars PROVE WordInv'
  OBVIOUS
<1>1. CASE Stop
  BY <1>1 DEF Stop, server, WordInv, WordBefore, WordAfter, TrueWord
<1>2. CASE Crash
  BY <1>2 DEF Crash, WordInv, WordBefore, WordAfter, TrueWord
<1>3. CASE UNCHANGED vars
  BY <1>3 DEF vars, server, WordInv, WordBefore, WordAfter, TrueWord
<1> QED BY <1>1, <1>2, <1>3, BuildSays, LateSays, ProbeSays, SwapSays, UndoSays, DiscardSays,
     DropSays DEF Next

\* What a finished run says became of the table is so, and a table it leaves behind is named,
\* on every driver and whatever failed, unless an answer was lost (replace_table).
THEOREM LastWordTrue == Spec => []TrueWord
<1>1. Init => SwapInv /\ WordInv
  BY SwapInit, WordInit
<1>2. SwapInv /\ WordInv /\ [Next]_vars => (SwapInv /\ WordInv)'
  BY SwapMaps, WordNext
<1>3. SwapInv /\ WordInv => TrueWord
  BY DEF WordInv
<1> QED BY <1>1, <1>2, <1>3, PTL DEF Spec
=============================================================================
