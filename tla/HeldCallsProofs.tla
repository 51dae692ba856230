--------------------------- MODULE HeldCallsProofs ---------------------------
(***************************************************************************)
(* A command's statements on one session, for every script a command sends *)
(* and every number of retries: no statement runs outside the transaction  *)
(* or the read-only session it was meant for, no write is sent twice by a  *)
(* command that holds a lease, and what the command reports is what the    *)
(* table holds.                                                            *)
(***************************************************************************)
EXTENDS HeldCalls, SequenceTheorems, TLAPS

Last == Len(plan.script)

\* The script opens a transaction, of the kind its first statement names.
Fenced == plan.script[1] \in {"begin", "beginro"}
Mode == IF plan.script[1] = "begin" THEN "rw" ELSE "ro"

\* Where the command is: a reconnect serves a statement that may run again, and a rollback apply's
\* own transaction.
Flow ==
    /\ pc # "end" => at <= Last
    /\ pc \in {"connect", "enforce"} => Rerunnable(Current) /\ lease.broken
    /\ pc = "enforce" => plan.readOnly
    /\ pc = "sent" => ~lease.broken
    /\ undoing => InTransaction /\ plan.cmd = "apply" /\ plan.script[at] = "write" /\ pc # "next"
    /\ pc = "judge" /\ ConnectionLost(answer) /\ plan.leased => lease.broken

\* A connection that is up is inside the transaction its script opened.
Fence ==
    /\ conn.ro = plan.readOnly
    /\ ~Fenced => conn.txn = "none"
    /\ Fenced /\ conn.up /\ pc # "end" /\ ~undoing =>
          /\ at > 1 /\ plan.script[at] \in {"write", "analyze"} => conn.txn = Mode
          /\ at = 1 /\ pc = "judge" /\ answer = "cursor" => conn.txn = Mode

FenceInv == TypeOK /\ Flow /\ Fence /\ InsideFence

-----------------------------------------------------------------------------
(* The plan and the server's step.                                         *)

\* What ScriptOK says of the plan in hand, statement by statement.
LEMMA PlanFacts ==
  ASSUME TypeOK
  PROVE  /\ plan.script \in Seq(Statements) /\ Last \in Nat /\ Last > 0
         /\ plan.leased \in BOOLEAN /\ plan.persistent \in BOOLEAN /\ plan.readOnly \in BOOLEAN
         /\ plan.reused \in BOOLEAN
         /\ \A i \in 1 .. Last : plan.script[i] \in Statements
         /\ \A i \in 2 .. Last : plan.script[i] \in {"write", "analyze", "commit", "rollback"}
         /\ \A i \in 1 .. Last : plan.script[i] = "commit" => InTransaction /\ i = Last /\ i > 1
         /\ \A i \in 1 .. Last : plan.script[i] = "rollback" => i = Last /\ Fenced
         /\ (InTransaction => plan.cmd = "apply" /\ plan.script[Last] = "commit" /\ Last > 1)
         /\ (InTransaction => \A i \in 2 .. Last : plan.script[i] \in {"write", "commit"})
         /\ (plan.cmd = "apply" /\ ~InTransaction => \A i \in 1 .. Last : plan.script[i] = "write")
         /\ (plan.cmd # "apply" => \/ plan.script[1] = "write" /\ Last = 1
                                   \/ \A i \in 1 .. Last : plan.script[i] # "write")
<1>1. PlanOK(plan)
  BY PlansAssumption DEF TypeOK
<1>2. plan.script \in Seq(Statements) /\ plan.script # <<>>
  BY <1>1 DEF PlanOK
<1>3. Last \in Nat /\ Last > 0 /\ \A i \in 1 .. Last : plan.script[i] \in Statements
  BY <1>2 DEF Last
<1>4. /\ plan.leased \in BOOLEAN /\ plan.persistent \in BOOLEAN /\ plan.readOnly \in BOOLEAN
      /\ plan.reused \in BOOLEAN
  BY <1>1 DEF PlanOK
<1>5. ScriptOK(plan)
  BY <1>1 DEF PlanOK
<1>6. CASE plan.cmd = "apply" /\ \A i \in 1 .. Last : plan.script[i] = "write"
  BY <1>2, <1>3, <1>4, <1>6 DEF InTransaction
<1>7. CASE /\ plan.cmd = "apply" /\ Last > 1 /\ plan.script[1] = "begin" /\ plan.script[Last] = "commit"
           /\ \A i \in 2 .. Last - 1 : plan.script[i] = "write"
  <2>1. \A i \in 1 .. Last : i = 1 \/ i = Last \/ i \in 2 .. Last - 1
    BY <1>3
  <2> QED BY <1>2, <1>3, <1>4, <1>7, <2>1 DEF InTransaction, Fenced
<1>8. CASE plan.cmd = "explain" /\ Last = 1 /\ plan.script[1] \in {"read", "analyze"}
  BY <1>2, <1>3, <1>4, <1>8 DEF InTransaction
<1>9. CASE /\ plan.cmd = "explain" /\ Last = 3 /\ plan.script[1] = "beginro"
           /\ plan.script[2] = "analyze" /\ plan.script[3] = "rollback"
  <2>1. \A i \in 1 .. Last : i = 1 \/ i = 2 \/ i = 3
    BY <1>9
  <2> QED BY <1>2, <1>3, <1>4, <1>9, <2>1 DEF InTransaction, Fenced
<1>10. CASE plan.cmd = "preview" /\ Last = 1 /\ plan.script[1] \in {"read", "write"}
  BY <1>2, <1>3, <1>4, <1>10 DEF InTransaction
<1> QED BY <1>5, <1>6, <1>7, <1>8, <1>9, <1>10 DEF ScriptOK, Last

Entry == [at : 0 .. Last, ro : BOOLEAN, txn : {"none", "ro", "rw"}]
Conns == [up : BOOLEAN, ro : BOOLEAN, txn : {"none", "ro", "rw"}]

\* What a statement does to the connection, to the open transaction and to the table.
LEMMA EffectShape ==
  ASSUME TypeOK, at <= Last, NEW s \in Statements
  PROVE  /\ Effect(s).conn \in Conns /\ Effect(s).conn.up = conn.up /\ Effect(s).conn.ro = conn.ro
         /\ (s = "begin" => Effect(s).conn.txn = "rw") /\ (s = "beginro" => Effect(s).conn.txn = "ro")
         /\ (s \in {"read", "write", "analyze"} => Effect(s).conn.txn = conn.txn)
         /\ (s \in {"commit", "rollback"} => Effect(s).conn.txn = "none")
         /\ Effect(s).work \in [Indices -> Nat] /\ Effect(s).table \in [Indices -> Nat]
         /\ (s \in {"begin", "beginro", "read", "analyze"} => Effect(s).work = work)
         /\ (s # "commit" /\ ~(s = "write" /\ conn.txn # "rw") => Effect(s).table = table)
         /\ (s = "commit" => Effect(s).table = [i \in Indices |-> table[i] + work[i]])
         /\ (s = "write" /\ conn.txn = "rw" => Effect(s).work = [work EXCEPT ![at] = @ + 1])
         /\ (s = "write" /\ conn.txn # "rw" => /\ Effect(s).table = [table EXCEPT ![at] = @ + 1]
                                               /\ Effect(s).work = work)
<1>1. conn \in Conns /\ work \in [Indices -> Nat] /\ table \in [Indices -> Nat] /\ at \in Indices
  BY PlanFacts DEF TypeOK, Conns, Indices, Last
<1>2. Nothing \in [Indices -> Nat] /\ [i \in Indices |-> table[i] + work[i]] \in [Indices -> Nat]
  BY <1>1 DEF Nothing
<1>3. /\ [work EXCEPT ![at] = @ + 1] \in [Indices -> Nat]
      /\ [table EXCEPT ![at] = @ + 1] \in [Indices -> Nat]
  BY <1>1
<1>4. \A t \in {"none", "ro", "rw"} :
         /\ [conn EXCEPT !.txn = t] \in Conns /\ [conn EXCEPT !.txn = t].txn = t
         /\ [conn EXCEPT !.txn = t].up = conn.up /\ [conn EXCEPT !.txn = t].ro = conn.ro
  BY <1>1 DEF Conns
<1>5. CASE s = "begin"
  BY <1>1, <1>4, <1>5 DEF Effect
<1>6. CASE s = "beginro"
  BY <1>1, <1>4, <1>6 DEF Effect
<1>7. CASE s = "write" /\ conn.txn = "rw"
  BY <1>1, <1>3, <1>7 DEF Effect
<1>8. CASE s = "write" /\ conn.txn # "rw"
  BY <1>1, <1>3, <1>8 DEF Effect
<1>9. CASE s = "commit"
  BY <1>1, <1>2, <1>4, <1>9 DEF Effect
<1>10. CASE s = "rollback"
  BY <1>1, <1>2, <1>4, <1>10 DEF Effect
<1>11. CASE s \in {"read", "analyze"}
  BY <1>1, <1>11 DEF Effect
<1> QED BY <1>5, <1>6, <1>7, <1>8, <1>9, <1>10, <1>11 DEF Statements

LEMMA CurrentIsStatement == ASSUME TypeOK, at <= Last PROVE Current \in Statements
  BY PlanFacts DEF Current, Statements, TypeOK, Last

\* What the server's step leaves: typed, on the same kind of session, and one more entry of the log.
LEMMA RanShape ==
  ASSUME TypeOK, at <= Last, NEW closed \in BOOLEAN, Ran(closed)
  PROVE  /\ conn' \in Conns /\ work' \in [Indices -> Nat] /\ table' \in [Indices -> Nat]
         /\ conn'.ro = conn.ro /\ (conn'.up <=> conn.up /\ ~closed)
         /\ (closed => conn'.txn = "none") /\ (~closed => conn'.txn = Effect(Current).conn.txn)
         /\ log' \in Seq(Entry) /\ Len(log') = Len(log) + 1 /\ Len(log) \in Nat
         /\ \A j \in 1 .. Len(log) : log'[j] = log[j]
         /\ log'[Len(log) + 1] = [at |-> IF undoing THEN 0 ELSE at, ro |-> conn.ro, txn |-> conn.txn]
<1> DEFINE e == Effect(Current)
<1>1. /\ e.conn \in Conns /\ e.conn.up = conn.up /\ e.conn.ro = conn.ro
      /\ e.work \in [Indices -> Nat] /\ e.table \in [Indices -> Nat]
  BY EffectShape, CurrentIsStatement
<1>2. Nothing \in [Indices -> Nat]
  BY DEF Nothing
<1> HIDE DEF e
<1>3. conn' = (IF closed THEN [e.conn EXCEPT !.up = FALSE, !.txn = "none"] ELSE e.conn)
      /\ work' = (IF closed THEN Nothing ELSE e.work) /\ table' = e.table
  BY DEF Ran, e
<1>4. /\ conn' \in Conns /\ conn'.ro = conn.ro
      /\ (closed => conn'.txn = "none" /\ ~conn'.up) /\ (~closed => conn' = e.conn)
  BY <1>1, <1>3 DEF Conns
<1>5. work' \in [Indices -> Nat] /\ table' \in [Indices -> Nat]
  BY <1>1, <1>2, <1>3
<1>6. conn'.up <=> conn.up /\ ~closed
  BY <1>1, <1>4
<1> DEFINE r == [at |-> IF undoing THEN 0 ELSE at, ro |-> conn.ro, txn |-> conn.txn]
<1>7. log \in Seq(Entry) /\ r \in Entry /\ log' = Append(log, r)
  BY PlanFacts DEF TypeOK, Entry, Ran, Last
<1> HIDE DEF r
<1>8. /\ log' \in Seq(Entry) /\ Len(log') = Len(log) + 1 /\ Len(log) \in Nat
      /\ \A j \in 1 .. Len(log) : log'[j] = log[j]
      /\ log'[Len(log) + 1] = r
  BY <1>7
<1> QED BY <1>1, <1>4, <1>5, <1>6, <1>8 DEF e, r

-----------------------------------------------------------------------------
(* The types and the fence, action by action.                              *)

\* The plan and its script are what they were.
SamePlan == plan' = plan

LEMMA TypeInit == Init => FenceInv
<1> SUFFICES ASSUME Init PROVE FenceInv
  OBVIOUS
<1>1. plan \in Plans /\ PlanOK(plan)
  BY PlansAssumption DEF Init
<1>2. plan.script \in Seq(Statements) /\ plan.script # <<>> /\ plan.reused \in BOOLEAN
      /\ plan.readOnly \in BOOLEAN
  BY <1>1 DEF PlanOK
<1>3. Last \in Nat /\ Last > 0
  BY <1>2 DEF Last
<1>4. Nothing \in [Indices -> Nat]
  BY DEF Nothing
<1>5. lease \in [broken : BOOLEAN, reused : BOOLEAN, executed : BOOLEAN]
  BY <1>2 DEF Init
<1>6. conn \in [up : BOOLEAN, ro : BOOLEAN, txn : {"none", "ro", "rw"}]
  BY <1>2 DEF Init
<1>7. log \in Seq([at : 0 .. Last, ro : BOOLEAN, txn : {"none", "ro", "rw"}])
  BY DEF Init
<1>8. TypeOK
  <2>1. at \in 1 .. Len(plan.script) + 1 /\ attempt \in 0 .. Retries
    BY <1>3, RetriesAssumption DEF Init, Last
  <2>2. /\ undoing \in BOOLEAN /\ pc = "next" /\ report = "none"
        /\ answer \in Errors \cup {"cursor", "cutoff"}
    BY DEF Init
  <2>3. work \in [Indices -> Nat] /\ table \in [Indices -> Nat]
    BY <1>4 DEF Init
  <2> QED BY <1>1, <1>5, <1>6, <1>7, <2>1, <2>2, <2>3 DEF TypeOK, Last
<1>9. Flow /\ Fence /\ InsideFence
  BY <1>3 DEF Init, Flow, Fence, InsideFence, Last
<1> QED BY <1>8, <1>9 DEF FenceInv

\* A step of the client alone: nothing the server keeps is touched.
LEMMA ClientTypes ==
  ASSUME TypeOK, UNCHANGED <<plan, server>>,
         at' \in 1 .. Last + 1, undoing' \in BOOLEAN,
         pc' \in {"next", "call", "connect", "enforce", "sent", "judge", "end"},
         attempt' \in 0 .. Retries, answer' \in Errors \cup {"cursor", "cutoff"},
         lease' \in [broken : BOOLEAN, reused : BOOLEAN, executed : BOOLEAN],
         report' \in {"none", "done", "error", "pending", "written", "stopped"},
         (report' # "none") <=> (pc' = "end")
  PROVE  TypeOK'
  BY DEF TypeOK, server, Indices, Last

\* The log, and with it what ran inside the fence, is what it was.
LEMMA ClientFence ==
  ASSUME InsideFence, UNCHANGED <<plan, log>>
  PROVE  InsideFence'
  BY DEF InsideFence, InTransaction, Writes, Indices

\* A statement is asked for, a stop is seen, or the call goes out or is held back.
LEMMA CallKeeps ==
  ASSUME FenceInv, Issue \/ StopApply \/ StopOthers \/ CallBroken \/ CallSends \/ Retry
  PROVE  FenceInv'
<1>1. UNCHANGED <<plan, at, server>> /\ lease' = lease
  BY DEF Issue, StopApply, StopOthers, CallBroken, CallSends, Retry, command, server
<1>2. TypeOK'
  <2>1. CASE Issue
    BY <2>1, RetriesAssumption, ClientTypes, PlanFacts DEF FenceInv, TypeOK, Issue, command, Last
  <2>2. CASE StopApply
    BY <2>2, ClientTypes, PlanFacts DEF FenceInv, TypeOK, StopApply, Undo, End, Last
  <2>3. CASE StopOthers
    BY <2>3, ClientTypes, PlanFacts DEF FenceInv, TypeOK, StopOthers, End, Last
  <2>4. CASE CallBroken
    BY <2>4, ClientTypes, PlanFacts DEF FenceInv, TypeOK, CallBroken, command, Last, Errors
  <2>5. CASE CallSends
    BY <2>5, ClientTypes, PlanFacts DEF FenceInv, TypeOK, CallSends, command, Last
  <2>6. CASE Retry
    <3>1. attempt' \in 0 .. Retries
      BY <2>6, RetriesAssumption DEF Retry, Again, FenceInv, TypeOK
    <3> QED BY <2>6, <3>1, ClientTypes, PlanFacts DEF FenceInv, TypeOK, Retry, command, Last
  <2> QED BY <2>1, <2>2, <2>3, <2>4, <2>5, <2>6
<1>3. Flow'
  BY <1>1, PlanFacts DEF FenceInv, Flow, Issue, StopApply, StopOthers, CallBroken, CallSends, Retry,
     Undo, End, Current, Rerunnable, InTransaction, command, Last, ConnectionLost, TypeOK
<1>4. Fence'
  BY <1>1 DEF FenceInv, Fence, Fenced, Mode, Issue, StopApply, StopOthers, CallBroken, CallSends,
     Retry, Undo, End, server, command
<1> QED BY <1>1, <1>2, <1>3, <1>4, ClientFence DEF FenceInv, server

\* The connection is replaced, made read-only, or cannot be.
LEMMA ConnectKeeps ==
  ASSUME FenceInv, Connect \/ Enforce
  PROVE  FenceInv'
<1>1. /\ UNCHANGED <<plan, at, undoing, report, attempt, log, table>>
      /\ pc \in {"connect", "enforce"} /\ lease.broken /\ Rerunnable(Current)
  BY DEF Connect, Enforce, Replaced, command, server, FenceInv, Flow
<1>2. ~undoing /\ at \in 1 .. Last /\ at = 1
  <2>1. at \in 1 .. Last
    BY <1>1, PlanFacts DEF FenceInv, TypeOK, Flow, Last
  <2>2. ~undoing /\ plan.script[at] \in {"begin", "beginro", "read"}
    BY <1>1 DEF Rerunnable, Current, FenceInv, TypeOK
  <2> QED BY <2>1, <2>2, PlanFacts DEF FenceInv
<1>3. InsideFence'
  BY <1>1, ClientFence DEF FenceInv
<1>4. CASE Replaced(plan.readOnly)
  <2>1. /\ pc' = "sent" /\ work' = Nothing /\ answer' = answer
        /\ conn' = [up |-> TRUE, ro |-> plan.readOnly, txn |-> "none"]
        /\ lease' = [broken |-> FALSE, reused |-> FALSE, executed |-> FALSE]
    BY <1>4 DEF Replaced
  <2>2. TypeOK'
    <3>1. Nothing \in [Indices -> Nat] /\ plan.readOnly \in BOOLEAN
      BY PlanFacts DEF Nothing, FenceInv
    <3>2. conn' \in Conns /\ work' \in [Indices -> Nat]
      BY <2>1, <3>1 DEF Conns
    <3> QED BY <1>1, <2>1, <3>2 DEF FenceInv, TypeOK, Conns, Indices
  <2>3. Flow'
    BY <1>1, <1>2, <2>1 DEF FenceInv, Flow, Last
  <2>4. Fence'
    BY <1>1, <1>2, <2>1 DEF FenceInv, Fence, Fenced, Mode
  <2> QED BY <1>3, <2>2, <2>3, <2>4 DEF FenceInv
<1>5. CASE UNCHANGED <<lease, server>> /\ pc' \in {"enforce", "judge"}
  <2>1. /\ pc' = "enforce" => plan.readOnly /\ answer' = answer
        /\ pc' = "judge" => answer' \in Errors
    BY <1>5 DEF Connect, Enforce, Replaced, Errors
  <2>2. TypeOK'
    BY <1>1, <1>5, <2>1, ClientTypes DEF FenceInv, TypeOK, Last
  <2>3. Flow'
    BY <1>1, <1>2, <1>5, <2>1 DEF FenceInv, Flow, Last, Rerunnable, Current
  <2>4. Fence'
    BY <1>1, <1>2, <1>5, <2>1 DEF FenceInv, Fence, Fenced, Mode, server, Errors
  <2> QED BY <1>3, <2>2, <2>3, <2>4 DEF FenceInv
<1>6. CASE Connect
  <2>1. CASE ~plan.readOnly /\ Replaced(FALSE)
    <3>1. plan.readOnly = FALSE
      BY <2>1, PlanFacts DEF FenceInv
    <3> QED BY <1>4, <2>1, <3>1
  <2>2. CASE ~(~plan.readOnly /\ Replaced(FALSE))
    BY <1>5, <1>6, <2>2 DEF Connect
  <2> QED BY <2>1, <2>2
<1>7. CASE Enforce
  <2>1. CASE Replaced(TRUE)
    <3>1. plan.readOnly = TRUE
      BY <1>7, PlanFacts DEF FenceInv, Flow, Enforce
    <3> QED BY <1>4, <2>1, <3>1
  <2>2. CASE ~Replaced(TRUE)
    BY <1>5, <1>7, <2>2 DEF Enforce
  <2> QED BY <2>1, <2>2
<1> QED BY <1>6, <1>7

\* What an answer leaves of the lease.
LEMMA AnswerShape ==
  ASSUME TypeOK, NEW a \in Errors \cup {"cursor", "cutoff"}, Answered(a)
  PROVE  /\ answer' = a /\ pc' \in {"connect", "judge"}
         /\ lease' \in [broken : BOOLEAN, reused : BOOLEAN, executed : BOOLEAN]
         /\ (pc' = "connect" => Rerunnable(Current) /\ lease'.broken /\ ConnectError(a))
         /\ (pc' = "judge" /\ plan.leased /\ ConnectionLost(a) => lease'.broken)
         /\ (pc' = "judge" /\ ~ConnectionLost(a) => lease'.broken = lease.broken)
<1>1. lease \in [broken : BOOLEAN, reused : BOOLEAN, executed : BOOLEAN] /\ plan.leased \in BOOLEAN
  BY PlanFacts DEF TypeOK
<1>2. CASE FirstResend(a)
  BY <1>1, <1>2 DEF Answered, FirstResend
<1>3. CASE ~FirstResend(a)
  <2> DEFINE b == lease.broken \/ (plan.leased /\ ConnectionLost(a))
  <2>1. answer' = a /\ pc' = "judge" /\ lease' = [lease EXCEPT !.executed = TRUE, !.broken = b]
    BY <1>1, <1>3 DEF Answered
  <2>2. b \in BOOLEAN /\ (plan.leased /\ ConnectionLost(a) => b = TRUE)
        /\ (~ConnectionLost(a) => b = lease.broken)
    BY <1>1
  <2> HIDE DEF b
  <2> QED BY <1>1, <2>1, <2>2
<1> QED BY <1>2, <1>3

\* The statement does not reach the server, or the server says no.
LEMMA RefusedKeeps ==
  ASSUME FenceInv, Refuses \/ NeverSent
  PROVE  FenceInv'
<1>1. PICK a \in Errors \cup {"cutoff"} :
         /\ pc = "sent" /\ Answered(a) /\ UNCHANGED <<command, attempt, server>>
         /\ (a = "unsent" \/ ~ConnectionLost(a))
  <2>1. CASE Refuses
    BY <2>1 DEF Refuses, Errors, ConnectionLost
  <2>2. CASE NeverSent
    BY <2>2 DEF NeverSent, Errors
  <2> QED BY <2>1, <2>2
<1>2. /\ answer' = a /\ pc' \in {"connect", "judge"}
      /\ lease' \in [broken : BOOLEAN, reused : BOOLEAN, executed : BOOLEAN]
      /\ (pc' = "connect" => Rerunnable(Current) /\ lease'.broken /\ ConnectError(a))
      /\ (pc' = "judge" /\ plan.leased /\ ConnectionLost(a) => lease'.broken)
  BY <1>1, AnswerShape DEF FenceInv
<1>3. UNCHANGED <<plan, at, undoing, report, attempt, server, log>> /\ a # "cursor"
  BY <1>1 DEF command, server, Errors
<1>4. TypeOK'
  BY <1>1, <1>2, <1>3, ClientTypes DEF FenceInv, TypeOK, Last
<1>5. Flow'
  BY <1>1, <1>2, <1>3 DEF FenceInv, Flow, Last, Rerunnable, Current, InTransaction
<1>6. Fence'
  BY <1>1, <1>2, <1>3 DEF FenceInv, Fence, Fenced, Mode, server
<1> QED BY <1>3, <1>4, <1>5, <1>6, ClientFence DEF FenceInv

\* The statement is done, or failed for good, and the command goes on or ends.
LEMMA JudgeKeeps ==
  ASSUME FenceInv, StatementDone \/ CallFails \/ CursorFails
  PROVE  FenceInv'
<1>0. pc = "judge" /\ UNCHANGED <<plan, attempt, answer, lease, server>>
  BY DEF StatementDone, CallFails, CursorFails, StatementFails
<1>1. /\ pc = "judge" /\ UNCHANGED <<plan, attempt, answer, lease, server>>
      /\ at \in 1 .. Last /\ Last \in Nat /\ pc' \in {"next", "call", "end"}
      /\ undoing' \in BOOLEAN
  <2>1. at \in 1 .. Last /\ Last \in Nat
    BY <1>0, PlanFacts DEF FenceInv, TypeOK, Flow, Last
  <2>2. pc' \in {"next", "call", "end"} /\ undoing' \in {undoing, TRUE}
    BY DEF StatementDone, CallFails, CursorFails, StatementFails, Undo, End
  <2> QED BY <1>0, <2>1, <2>2 DEF FenceInv, TypeOK
<1>2. CASE at' = at /\ pc' \in {"call", "end"}
  <2>1. /\ pc' = "end" => report' \in {"done", "error", "pending", "written", "stopped"}
        /\ pc' = "call" => /\ report' = report /\ undoing' /\ InTransaction /\ plan.cmd = "apply"
                           /\ plan.script[at] = "write"
        /\ pc' = "end" => undoing' = undoing
    BY <1>1, <1>2, PlanFacts DEF StatementDone, CallFails, CursorFails, StatementFails, Undo, End,
       Disposition, FenceInv, Current
  <2>2. TypeOK'
    BY <1>1, <1>2, <2>1, ClientTypes DEF FenceInv, TypeOK, Last
  <2>3. Flow'
    BY <1>1, <1>2, <2>1 DEF FenceInv, Flow, Last, InTransaction
  <2>4. Fence'
    BY <1>1, <1>2, <2>1 DEF FenceInv, Fence, Fenced, Mode, server
  <2> QED BY <1>1, <2>2, <2>3, <2>4, ClientFence DEF FenceInv, server
<1>3. CASE ~(at' = at /\ pc' \in {"call", "end"})
  <2>1. /\ answer = "cursor" /\ ~undoing /\ ~undoing' /\ at' = at + 1
        /\ \/ at = Last /\ pc' = "end" /\ report' = "done"
           \/ at # Last /\ pc' = "next" /\ report' = report
    BY <1>1, <1>3 DEF StatementDone, CallFails, CursorFails, StatementFails, Undo, End, Last
  <2>2. TypeOK'
    BY <1>1, <2>1, ClientTypes DEF FenceInv, TypeOK, Last
  <2>3. Flow'
    BY <1>1, <2>1 DEF FenceInv, Flow, Last, InTransaction
  <2>4. Fence'
    <3>1. Fenced /\ conn.up /\ at # Last /\ plan.script[at + 1] \in {"write", "analyze"} => conn.txn = Mode
      <4>1. CASE at = 1
        BY <1>1, <2>1, <4>1 DEF FenceInv, Fence
      <4>2. CASE at > 1 /\ at # Last
        <5>1. plan.script[at] \in {"write", "analyze"}
          BY <1>1, <4>2, PlanFacts DEF FenceInv
        <5> QED BY <1>1, <2>1, <4>2, <5>1 DEF FenceInv, Fence
      <4> QED BY <1>1, <4>1, <4>2
    <3> QED BY <1>1, <2>1, <3>1 DEF FenceInv, Fence, Fenced, Mode, server
  <2> QED BY <1>1, <2>2, <2>3, <2>4, ClientFence DEF FenceInv, server
<1> QED BY <1>2, <1>3

\* The server runs the statement in hand: it was inside its transaction, and so is what follows.
LEMMA RanFence ==
  ASSUME FenceInv, pc = "sent", conn.up, NEW closed \in BOOLEAN, Ran(closed),
         UNCHANGED <<plan, at, undoing>>, pc' \in {"connect", "judge"}
  PROVE  Fence' /\ InsideFence'
<1>0. /\ at \in 1 .. Last /\ Last \in Nat /\ TypeOK /\ at <= Last
      /\ (undoing => InTransaction)
  BY PlanFacts DEF FenceInv, TypeOK, Flow, Last
<1>1. /\ at \in 1 .. Last /\ Last \in Nat /\ TypeOK /\ at <= Last
      /\ (undoing => InTransaction) /\ Current \in Statements
  BY <1>0, CurrentIsStatement
<1>2. /\ conn' \in Conns /\ conn'.ro = conn.ro /\ (conn'.up <=> conn.up /\ ~closed)
      /\ (closed => conn'.txn = "none") /\ (~closed => conn'.txn = Effect(Current).conn.txn)
      /\ Len(log') = Len(log) + 1 /\ Len(log) \in Nat /\ log' \in Seq(Entry) /\ log \in Seq(Entry)
      /\ \A j \in 1 .. Len(log) : log'[j] = log[j]
      /\ log'[Len(log) + 1] = [at |-> IF undoing THEN 0 ELSE at, ro |-> conn.ro, txn |-> conn.txn]
  <2>1. log \in Seq(Entry)
    BY <1>1 DEF TypeOK, Entry, Last
  <2> QED BY <1>1, <2>1, RanShape
<1>3. Fence'
  <2>1. ~Fenced => conn'.txn = "none"
    <3>1. ~Fenced => ~undoing /\ Current \in {"read", "write", "analyze"}
      <4> SUFFICES ASSUME ~Fenced PROVE ~undoing /\ Current \in {"read", "write", "analyze"}
        OBVIOUS
      <4>1. ~undoing /\ Current = plan.script[at]
        BY <1>1 DEF Fenced, InTransaction, Current
      <4>2. plan.script[at] \notin {"begin", "beginro"}
        <5>1. CASE at = 1
          BY <5>1 DEF Fenced
        <5>2. CASE at # 1
          BY <1>1, <5>2, PlanFacts
        <5> QED BY <5>1, <5>2
      <4>3. plan.script[at] \notin {"commit", "rollback"}
        BY <1>1, PlanFacts DEF Fenced, InTransaction
      <4> QED BY <1>1, <4>1, <4>2, <4>3 DEF Statements
    <3>2. ~Fenced => Effect(Current).conn.txn = conn.txn
      BY <1>1, <3>1, EffectShape
    <3> QED BY <1>2, <3>2 DEF FenceInv, Fence
  <2>2. ASSUME Fenced, ~undoing, ~closed, at > 1, plan.script[at] \in {"write", "analyze"}
        PROVE  conn'.txn = Mode
    <3>1. Current = plan.script[at] /\ Effect(Current).conn.txn = conn.txn
      BY <1>1, <2>2, EffectShape DEF Current
    <3> QED BY <1>2, <2>2, <3>1 DEF FenceInv, Fence
  <2>3. ASSUME Fenced, ~undoing, ~closed, at = 1
        PROVE  conn'.txn = Mode
    <3>1. Current = plan.script[1] /\ Current \in {"begin", "beginro"}
      BY <2>3 DEF Current, Fenced
    <3>2. Effect(Current).conn.txn = Mode
      BY <1>1, <3>1, EffectShape DEF Mode
    <3> QED BY <1>2, <2>3, <3>2
  <2> QED BY <1>1, <1>2, <2>1, <2>2, <2>3 DEF FenceInv, Fence, Fenced, Mode
<1>4. InsideFence'
  <2> SUFFICES ASSUME NEW j \in 1 .. Len(log')
               PROVE  /\ plan.readOnly => log'[j].ro
                      /\ log'[j].at # 0 =>
                           /\ plan.script[1] = "beginro" /\ plan.script[log'[j].at] = "analyze"
                                => log'[j].txn = "ro"
                           /\ InTransaction /\ log'[j].at \in Writes => log'[j].txn = "rw"
    BY <1>2 DEF InsideFence, InTransaction, Writes, Indices
  <2>1. CASE j \in 1 .. Len(log)
    BY <1>2, <2>1 DEF FenceInv, InsideFence
  <2>2. CASE j = Len(log) + 1
    <3>1. /\ log'[j].ro = conn.ro /\ log'[j].txn = conn.txn
          /\ log'[j].at = (IF undoing THEN 0 ELSE at)
      BY <1>2, <2>2
    <3>2. ASSUME ~undoing, plan.script[1] = "beginro", plan.script[at] = "analyze"
          PROVE  conn.txn = "ro"
      BY <1>1, <3>2 DEF FenceInv, Fence, Fenced, Mode
    <3>3. ASSUME ~undoing, InTransaction, plan.script[at] = "write"
          PROVE  conn.txn = "rw"
      BY <1>1, <3>3 DEF FenceInv, Fence, Fenced, Mode, InTransaction
    <3> QED BY <3>1, <3>2, <3>3 DEF FenceInv, Fence, Writes
  <2> QED BY <1>2, <2>1, <2>2
<1> QED BY <1>3, <1>4

\* The answer comes back, or is lost: what the server did was inside the fence.
LEMMA SentKeeps ==
  ASSUME FenceInv, Runs \/ AnswerLost
  PROVE  FenceInv'
<1>1. PICK a \in {"cursor", "lostConnect", "lostQuery"} :
         /\ pc = "sent" /\ conn.up /\ Answered(a) /\ UNCHANGED <<command, attempt>>
         /\ (\E closed \in BOOLEAN : Ran(closed)) \/ Lost \/ UNCHANGED server
         /\ (a = "cursor" => Ran(FALSE))
  <2>1. CASE Runs
    BY <2>1 DEF Runs
  <2>2. CASE AnswerLost
    <3>1. plan.persistent \in BOOLEAN
      BY PlanFacts DEF FenceInv
    <3> QED BY <2>2, <3>1 DEF AnswerLost
  <2> QED BY <2>1, <2>2
<1>2. /\ answer' = a /\ pc' \in {"connect", "judge"}
      /\ lease' \in [broken : BOOLEAN, reused : BOOLEAN, executed : BOOLEAN]
      /\ (pc' = "connect" => Rerunnable(Current) /\ lease'.broken /\ ConnectError(a))
      /\ (pc' = "judge" /\ plan.leased /\ ConnectionLost(a) => lease'.broken)
  BY <1>1, AnswerShape DEF FenceInv, Errors
<1>3. UNCHANGED <<plan, at, undoing, report, attempt>> /\ at <= Last
  BY <1>1 DEF command, FenceInv, Flow
<1>4. Flow'
  BY <1>1, <1>2, <1>3 DEF FenceInv, Flow, Last, Rerunnable, Current, InTransaction
<1>5. CASE \E closed \in BOOLEAN : Ran(closed)
  <2>1. PICK closed \in BOOLEAN : Ran(closed)
    BY <1>5
  <2>2. /\ conn' \in Conns /\ work' \in [Indices -> Nat] /\ table' \in [Indices -> Nat]
        /\ log' \in Seq(Entry)
    BY <1>3, <2>1, RanShape DEF FenceInv
  <2>3. TypeOK'
    BY <1>1, <1>2, <1>3, <2>2 DEF FenceInv, TypeOK, Conns, Entry, Indices, Last, Errors
  <2>4. Fence' /\ InsideFence'
    BY <1>1, <1>2, <1>3, <2>1, RanFence
  <2> QED BY <1>4, <2>3, <2>4 DEF FenceInv
<1>6. CASE a # "cursor" /\ UNCHANGED server
  <2>1. TypeOK'
    BY <1>1, <1>2, <1>3, <1>6, ClientTypes DEF FenceInv, TypeOK, Last, Errors
  <2>2. Fence'
    BY <1>1, <1>2, <1>3, <1>6 DEF FenceInv, Fence, Fenced, Mode, server
  <2> QED BY <1>3, <1>4, <1>6, <2>1, <2>2, ClientFence DEF FenceInv, server
<1>7. CASE a # "cursor" /\ Lost
  <2>1. conn' \in Conns /\ ~conn'.up /\ conn'.txn = "none" /\ conn'.ro = conn.ro
        /\ work' = Nothing /\ UNCHANGED <<table, log>>
    BY <1>7 DEF Lost, Conns, FenceInv, TypeOK
  <2>2. work' \in [Indices -> Nat]
    BY <2>1 DEF Nothing
  <2>3. TypeOK'
    BY <1>1, <1>2, <1>3, <2>1, <2>2 DEF FenceInv, TypeOK, Conns, Indices, Errors
  <2>4. Fence'
    BY <1>3, <2>1 DEF FenceInv, Fence, Fenced, Mode
  <2> QED BY <1>3, <1>4, <2>1, <2>3, <2>4, ClientFence DEF FenceInv
<1> QED BY <1>1, <1>5, <1>6, <1>7

LEMMA DiesKeeps ==
  ASSUME FenceInv, ConnectionDies
  PROVE  FenceInv'
<1>1. /\ conn' \in Conns /\ ~conn'.up /\ conn'.txn = "none" /\ conn'.ro = conn.ro
      /\ work' = Nothing /\ UNCHANGED <<table, log>>
      /\ UNCHANGED <<plan, at, undoing, report, pc, attempt, answer, lease>>
  BY DEF ConnectionDies, Lost, Conns, FenceInv, TypeOK, command
<1>2. work' \in [Indices -> Nat]
  BY <1>1 DEF Nothing
<1>3. TypeOK'
  BY <1>1, <1>2 DEF FenceInv, TypeOK, Conns, Indices
<1>4. Flow'
  BY <1>1 DEF FenceInv, Flow, Last, Rerunnable, Current, InTransaction
<1>5. Fence'
  BY <1>1 DEF FenceInv, Fence, Fenced, Mode
<1> QED BY <1>1, <1>3, <1>4, <1>5, ClientFence DEF FenceInv

LEMMA FenceNext == FenceInv /\ [Next]_vars => FenceInv'
<1> SUFFICES ASSUME FenceInv, [Next]_vars PROVE FenceInv'
  OBVIOUS
<1>1. CASE UNCHANGED vars
  <2>1. TypeOK'
    BY <1>1 DEF vars, FenceInv, TypeOK, Indices
  <2>2. Flow' /\ Fence'
    BY <1>1 DEF vars, FenceInv, Flow, Fence, Fenced, Mode, Last, Rerunnable, Current, InTransaction
  <2> QED BY <1>1, <2>1, <2>2, ClientFence DEF FenceInv, vars
<1> QED BY <1>1, CallKeeps, ConnectKeeps, RefusedKeeps, JudgeKeeps, SentKeeps, DiesKeeps
     DEF Next, Done

\* Every variable keeps its shape, for every script and every number of retries (Held::call,
\* retry::execute, apply_changes).
THEOREM HeldTypes == Spec => []TypeOK
<1>1. FenceInv => TypeOK
  BY DEF FenceInv
<1> QED BY <1>1, TypeInit, FenceNext, PTL DEF Spec

\* A script that opens a transaction runs its changes in it and an ANALYZE behind the read-only
\* fence, and a read-only connection's command nowhere else, whichever connection was lost and
\* replaced on the way (Held::reconnect, apply_changes, explain).
THEOREM NothingOutsideFence == Spec => []InsideFence
<1>1. FenceInv => InsideFence
  BY DEF FenceInv
<1> QED BY <1>1, TypeInit, FenceNext, PTL DEF Spec

-----------------------------------------------------------------------------
(* A write is sent once, and the report is what the table holds.           *)

\* A command that writes holds a lease, or is apply, which sends every statement itself and once:
\* the engine host's commands.  The command line's preview has neither (bin/, see README).
Hosted ==
    \A p \in Plans :
        p.cmd = "apply" \/ p.leased \/ \A i \in 1 .. Len(p.script) : p.script[i] # "write"

\* The statement has not run yet, and may still.
Fresh(i) ==
    \/ i > at
    \/ /\ i = at /\ ~undoing
       /\ \/ pc \in {"next", "sent"}
          \/ pc = "call" /\ ~lease.broken
          \/ pc = "judge" /\ answer = "busy"

\* Its cursor came back.
Answd(i) == i < at \/ (i = at /\ ~undoing /\ pc = "judge" /\ answer = "cursor")

\* The statements that change what the table holds.
Counted == {i \in Indices : plan.script[i] \in {"write", "commit"}}

Once == pc # "end" => \A i \in Writes : Fresh(i) => \A j \in DOMAIN log : log[j].at # i

\* Outside a transaction a write is in the table once it is answered; inside one it is in the
\* transaction, as long as the connection lasts, and in the table once COMMIT is answered.
Direct == \A i \in Writes : (Fresh(i) => table[i] = 0) /\ (Answd(i) => table[i] = 1)
Staged ==
    /\ Fresh(Last) => \A i \in Indices : table[i] = 0
    /\ Answd(Last) => \A i \in Writes : table[i] = 1
    /\ undoing => \A i \in Indices : table[i] = 0
    /\ conn.up /\ ~undoing /\ Fresh(Last) =>
          \A i \in Writes : (Fresh(i) => work[i] = 0) /\ (Answd(i) => work[i] = 1)
Data == pc # "end" => (~InTransaction => Direct) /\ (InTransaction => Staged)

WriteInv == FenceInv /\ Once /\ WriteOnce /\ Data /\ ReportTrue

LEMMA Script ==
  ASSUME Hosted, TypeOK
  PROVE  plan.cmd = "apply" \/ plan.leased \/ Counted = {}
<1>1. plan \in Plans
  BY DEF TypeOK
<1>2. plan.cmd = "apply" \/ plan.leased \/ \A i \in 1 .. Len(plan.script) : plan.script[i] # "write"
  BY <1>1 DEF Hosted
<1>3. \A i \in Indices : plan.script[i] = "commit" => plan.cmd = "apply"
  BY PlanFacts DEF Indices, Last
<1> QED BY <1>2, <1>3 DEF Counted, Indices

LEMMA Frozen ==
  ASSUME FenceInv, Next
  PROVE  /\ plan' = plan /\ Indices' = Indices /\ Writes' = Writes /\ Counted' = Counted
         /\ Last' = Last /\ (InTransaction' <=> InTransaction) /\ (pc # "end" \/ UNCHANGED vars)
         /\ at \in 1 .. Last + 1 /\ Last \in Nat
<1>1. plan' = plan /\ (pc # "end" \/ UNCHANGED vars)
  <2>1. CASE Issue \/ StopApply \/ StopOthers \/ CallBroken \/ CallSends \/ Connect \/ Enforce
    BY <2>1 DEF Issue, StopApply, StopOthers, CallBroken, CallSends, Connect, Enforce, command
  <2>2. CASE Runs \/ Refuses \/ NeverSent \/ AnswerLost \/ ConnectionDies \/ Retry
    BY <2>2 DEF Runs, Refuses, NeverSent, AnswerLost, ConnectionDies, Retry, command
  <2>3. CASE StatementDone \/ CallFails \/ CursorFails
    BY <2>3 DEF StatementDone, CallFails, CursorFails, StatementFails
  <2>4. CASE Done
    BY <2>4 DEF Done, vars
  <2> QED BY <2>1, <2>2, <2>3, <2>4 DEF Next
<1> QED BY <1>1, PlanFacts DEF FenceInv, TypeOK, Indices, Writes, Counted, Last, InTransaction

\* A counted statement that may still run could before; nothing else becomes fresh.
LEMMA FreshShrinks ==
  ASSUME Hosted, FenceInv, Next, pc # "end", pc' # "end", NEW i \in Counted, Fresh(i)'
  PROVE  Fresh(i)
<1>1. /\ plan' = plan /\ i \in 1 .. Last /\ at \in 1 .. Last /\ Last \in Nat
      /\ plan.script[i] \in {"write", "commit"}
  BY Frozen, PlanFacts DEF FenceInv, TypeOK, Flow, Counted, Indices, Last
<1>2. CASE Issue \/ StopApply \/ CallBroken \/ CallSends
  BY <1>1, <1>2 DEF Issue, StopApply, CallBroken, CallSends, command, Fresh, Undo, End
<1>3. CASE StopOthers
  BY <1>3 DEF StopOthers, End
<1>4. CASE Connect \/ Enforce
  <2>1. i = at => ~Rerunnable(Current) \/ undoing
    BY <1>1 DEF Rerunnable, Current
  <2> QED BY <1>1, <1>4, <2>1 DEF Connect, Enforce, FenceInv, Flow, Fresh, command, Rerunnable, Current
<1>5. CASE Runs \/ Refuses \/ NeverSent \/ AnswerLost
  <2>1. pc = "sent" /\ UNCHANGED <<at, undoing>> /\ pc' \in {"connect", "judge"}
    BY <1>5 DEF Runs, Refuses, NeverSent, AnswerLost, Answered, command
  <2> QED BY <1>1, <2>1 DEF Fresh
<1>6. CASE ConnectionDies
  BY <1>1, <1>6 DEF ConnectionDies, command, Fresh
<1>7. CASE Retry
  <2>1. plan.cmd # "apply" /\ plan.leased
    BY <1>7, Script DEF Retry, Again, FenceInv
  <2>2. ConnectionLost(answer) => lease.broken
    BY <1>7, <2>1 DEF Retry, FenceInv, Flow
  <2> QED BY <1>1, <1>7, <2>1, <2>2 DEF Retry, Again, Transient, ConnectionLost, command, Fresh
<1>8. CASE StatementDone
  <2>1. CASE at' = at + 1 /\ pc' = "next"
    BY <1>1, <1>8, <2>1 DEF StatementDone, Fresh
  <2>2. CASE at' = at /\ undoing' /\ pc' = "call"
    BY <1>1, <2>2 DEF Fresh
  <2> QED BY <1>8, <2>1, <2>2 DEF StatementDone, Undo, End
<1>9. CASE CallFails \/ CursorFails
  BY <1>1, <1>9 DEF CallFails, CursorFails, StatementFails, Undo, End, Fresh
<1>10. CASE Done
  BY <1>10 DEF Done
<1> QED BY <1>2, <1>3, <1>4, <1>5, <1>6, <1>7, <1>8, <1>9, <1>10 DEF Next

\* A cursor comes back from Runs alone.
LEMMA AnswdGrows ==
  ASSUME FenceInv, Next, pc # "end", pc' # "end", NEW i \in Indices, Answd(i)'
  PROVE  Answd(i) \/ (Runs /\ i = at /\ ~undoing)
<1>1. /\ plan' = plan /\ i \in 1 .. Last /\ at \in 1 .. Last /\ Last \in Nat
  BY Frozen, PlanFacts DEF FenceInv, TypeOK, Flow, Indices, Last
<1>2. CASE Issue \/ StopApply \/ CallBroken \/ CallSends
  BY <1>1, <1>2 DEF Issue, StopApply, CallBroken, CallSends, command, Answd, Undo, End
<1>3. CASE StopOthers
  BY <1>3 DEF StopOthers, End
<1>4. CASE Connect \/ Enforce
  <2>1. UNCHANGED <<at, undoing>> /\ ~(pc' = "judge" /\ answer' = "cursor")
    BY <1>4 DEF Connect, Enforce, Replaced, command
  <2> QED BY <1>1, <2>1 DEF Answd
<1>5. CASE Refuses \/ NeverSent \/ AnswerLost
  <2>1. answer' # "cursor" /\ UNCHANGED <<at, undoing>>
    BY <1>5 DEF Refuses, NeverSent, AnswerLost, Answered, command
  <2> QED BY <1>1, <2>1 DEF Answd
<1>6. CASE ConnectionDies
  BY <1>1, <1>6 DEF ConnectionDies, command, Answd
<1>7. CASE Retry
  BY <1>1, <1>7 DEF Retry, command, Answd
<1>8. CASE StatementDone
  <2>1. pc = "judge" /\ answer = "cursor"
    BY <1>8 DEF StatementDone
  <2>2. CASE at' = at + 1 /\ pc' = "next" /\ ~undoing
    <3>1. i < at + 1
      BY <1>1, <2>2 DEF Answd
    <3>2. i < at \/ i = at
      BY <1>1, <3>1
    <3> QED BY <2>1, <2>2, <3>2 DEF Answd
  <2>3. CASE at' = at /\ undoing' /\ pc' = "call"
    BY <1>1, <2>3 DEF Answd
  <2> QED BY <1>8, <2>2, <2>3 DEF StatementDone, Undo, End
<1>9. CASE CallFails \/ CursorFails
  BY <1>1, <1>9 DEF CallFails, CursorFails, StatementFails, Undo, End, Answd
<1>10. CASE Done
  BY <1>10 DEF Done
<1>11. CASE Runs
  <2>1. UNCHANGED <<at, undoing>>
    BY <1>11 DEF Runs, command
  <2> QED BY <1>1, <1>11, <2>1 DEF Answd
<1> QED BY <1>2, <1>3, <1>4, <1>5, <1>6, <1>7, <1>8, <1>9, <1>10, <1>11 DEF Next

\* A rollback once begun goes on, and begins at a change of a transaction not yet committed.
LEMMA UndoStarts ==
  ASSUME FenceInv, Next, pc # "end", pc' # "end"
  PROVE  /\ undoing => undoing'
         /\ undoing' /\ ~undoing => InTransaction /\ Fresh(Last) /\ UNCHANGED server
<1> SUFFICES ASSUME undoing' # undoing
             PROVE  ~undoing /\ InTransaction /\ Fresh(Last) /\ UNCHANGED server
  BY DEF FenceInv, TypeOK
<1>1. at \in 1 .. Last /\ Last \in Nat /\ (InTransaction => plan.script[Last] = "commit")
  BY PlanFacts DEF FenceInv, TypeOK, Flow, Last
<1>2. InTransaction /\ plan.script[at] = "write" => Fresh(Last)
  BY <1>1 DEF Fresh
<1>3. CASE Issue \/ CallBroken \/ CallSends \/ Connect \/ Enforce \/ Retry
  BY <1>3 DEF Issue, CallBroken, CallSends, Connect, Enforce, Retry, command
<1>4. CASE StopApply
  BY <1>2, <1>4 DEF StopApply, Undo, End
<1>5. CASE StopOthers
  BY <1>5 DEF StopOthers, End
<1>6. CASE Runs \/ Refuses \/ NeverSent \/ AnswerLost \/ ConnectionDies
  BY <1>6 DEF Runs, Refuses, NeverSent, AnswerLost, ConnectionDies, command
<1>7. CASE StatementDone
  BY <1>2, <1>7 DEF StatementDone, Undo, End, Current
<1>8. CASE CallFails \/ CursorFails
  BY <1>2, <1>8 DEF CallFails, CursorFails, StatementFails, Undo, End, Current
<1>9. CASE Done
  BY <1>9 DEF Done
<1> QED BY <1>3, <1>4, <1>5, <1>6, <1>7, <1>8, <1>9 DEF Next

\* What a step does to the server: nothing, the connection is lost or replaced, or the statement in
\* hand runs.
RunsOnce ==
    /\ pc = "sent" /\ conn.up /\ UNCHANGED <<at, undoing>> /\ pc' \in {"connect", "judge"}
    /\ answer' # "busy" /\ \E closed \in BOOLEAN : Ran(closed)

LEMMA ServerStep ==
  ASSUME FenceInv, Next
  PROVE  \/ UNCHANGED server /\ ~Runs
         \/ /\ work' = Nothing /\ UNCHANGED <<table, log, at, undoing>> /\ ~Runs
            /\ ~conn'.up \/ (at = 1 /\ pc' = "sent")
         \/ RunsOnce
<1>1. /\ plan.persistent \in BOOLEAN /\ conn \in Conns /\ log \in Seq(Entry) /\ Len(log) \in Nat
      /\ (pc # "end" => at \in 1 .. Last)
  BY PlanFacts DEF FenceInv, TypeOK, Conns, Entry, Last, Flow
<1>2. Runs => Len(log') = Len(log) + 1
  BY <1>1 DEF Runs, Ran
<1>3. UNCHANGED log => ~Runs
  BY <1>1, <1>2
<1>4. CASE UNCHANGED server
  BY <1>3, <1>4 DEF server
<1>5. CASE Connect \/ Enforce
  <2>1. UNCHANGED <<at, undoing>> /\ pc \in {"connect", "enforce"}
    BY <1>5 DEF Connect, Enforce, command
  <2>2. at = 1
    <3>1. ~undoing /\ plan.script[at] \in {"begin", "beginro", "read"}
      BY <2>1 DEF Rerunnable, Current, FenceInv, TypeOK, Flow
    <3> QED BY <1>1, <2>1, <3>1, PlanFacts DEF FenceInv
  <2>3. UNCHANGED server \/ (work' = Nothing /\ UNCHANGED <<table, log>> /\ pc' = "sent")
    BY <1>5 DEF Connect, Enforce, Replaced
  <2> QED BY <1>3, <1>4, <2>1, <2>2, <2>3
<1>6. CASE Lost /\ UNCHANGED <<at, undoing>>
  BY <1>1, <1>3, <1>6 DEF Lost, Conns
<1>7. CASE ConnectionDies
  BY <1>6, <1>7 DEF ConnectionDies, command
<1>8. CASE Runs
  BY <1>8 DEF Runs, RunsOnce, Answered, command
<1>9. CASE AnswerLost
  <2>1. /\ pc = "sent" /\ conn.up /\ UNCHANGED <<at, undoing>> /\ pc' \in {"connect", "judge"}
        /\ answer' # "busy"
    BY <1>9 DEF AnswerLost, Answered, command
  <2>2. (\E closed \in BOOLEAN : Ran(closed)) \/ Lost \/ UNCHANGED server
    BY <1>1, <1>9 DEF AnswerLost
  <2> QED BY <1>4, <1>6, <2>1, <2>2 DEF RunsOnce
<1>10. CASE \/ Issue \/ StopApply \/ StopOthers \/ CallBroken \/ CallSends \/ Refuses \/ NeverSent
            \/ Retry \/ StatementDone \/ CallFails \/ CursorFails \/ Done
  BY <1>4, <1>10 DEF Issue, StopApply, StopOthers, CallBroken, CallSends, Refuses, NeverSent, Retry,
     StatementDone, CallFails, CursorFails, Done, vars, server
<1> QED BY <1>5, <1>7, <1>8, <1>9, <1>10 DEF Next

\* A statement that has just run is no longer fresh, and was.
LEMMA RanIsSpent == ASSUME RunsOnce, ~undoing, at \in Nat, NEW i, i = at PROVE Fresh(i) /\ ~Fresh(i)'
<1>1. pc = "sent" /\ at' = at /\ pc' \in {"connect", "judge"} /\ answer' # "busy"
  BY DEF RunsOnce
<1>2. ~(i > at)
  OBVIOUS
<1> QED BY <1>1, <1>2 DEF Fresh

-----------------------------------------------------------------------------
(* Each write reaches the server once.                                     *)

LEMMA WriteInit == Init => WriteInv
<1> SUFFICES ASSUME Init PROVE WriteInv
  OBVIOUS
<1>1. FenceInv /\ DOMAIN log = {} /\ report = "none"
  BY TypeInit DEF Init
<1>2. Once /\ WriteOnce /\ ReportTrue
  BY <1>1 DEF Once, WriteOnce, ReportTrue
<1>3. /\ \A i \in Indices : i \in Nat /\ i >= 1 /\ work[i] = 0 /\ table[i] = 0 /\ ~Answd(i)
      /\ at = 1 /\ ~undoing /\ pc = "next"
  BY DEF Init, Nothing, Indices, Answd
<1>4. Last \in Indices /\ \A i \in Writes : i \in Indices
  BY <1>1, PlanFacts DEF FenceInv, Indices, Last, Writes
<1>5. Data
  BY <1>3, <1>4 DEF Data, Direct, Staged
<1> QED BY <1>1, <1>2, <1>5 DEF WriteInv

LEMMA OnceNext ==
  ASSUME Hosted, WriteInv, Next, pc # "end"
  PROVE  Once' /\ WriteOnce'
<1>1. /\ FenceInv /\ Once /\ WriteOnce /\ Writes' = Writes /\ Writes \subseteq Counted
      /\ 0 \notin Writes
  BY Frozen DEF WriteInv, Writes, Counted, Indices
<1>2. CASE UNCHANGED log
  BY <1>1, <1>2, FreshShrinks DEF Once, WriteOnce
<1>3. CASE RunsOnce
  <2>1. /\ pc = "sent" /\ pc' # "end" /\ UNCHANGED <<at, undoing>> /\ at <= Last /\ TypeOK
    BY <1>1, <1>3 DEF RunsOnce, FenceInv, Flow
  <2>2. PICK closed \in BOOLEAN : Ran(closed)
    BY <1>3 DEF RunsOnce
  <2>3. /\ log' \in Seq(Entry) /\ Len(log') = Len(log) + 1 /\ Len(log) \in Nat
        /\ \A j \in 1 .. Len(log) : log'[j] = log[j]
        /\ log'[Len(log) + 1] = [at |-> IF undoing THEN 0 ELSE at, ro |-> conn.ro, txn |-> conn.txn]
    BY <2>1, <2>2, RanShape
  <2>4. DOMAIN log = 1 .. Len(log) /\ DOMAIN log' = 1 .. Len(log) + 1
    BY <2>1, <2>3 DEF TypeOK
  <2>5. \A j \in DOMAIN log' : (j \in DOMAIN log /\ log'[j] = log[j]) \/ j = Len(log) + 1
    BY <2>3, <2>4
  <2>6. ASSUME NEW i \in Writes, log'[Len(log) + 1].at = i PROVE Fresh(i) /\ ~Fresh(i)'
    <3>1. ~undoing /\ i = at /\ at \in Nat
      BY <1>1, <2>1, <2>3, <2>6 DEF TypeOK
    <3> QED BY <1>3, <3>1, RanIsSpent
  <2>7. \A i \in Writes : Fresh(i) => \A j \in DOMAIN log : log[j].at # i
    BY <1>1, <2>1 DEF Once
  <2>8. \A i \in Writes : Fresh(i)' => Fresh(i)
    BY <1>1, <2>1, FreshShrinks
  <2>9. Once'
    BY <1>1, <2>5, <2>6, <2>7, <2>8 DEF Once
  <2>10. WriteOnce'
    BY <1>1, <2>5, <2>6, <2>7 DEF WriteOnce
  <2> QED BY <2>9, <2>10
<1> QED BY <1>1, <1>2, <1>3, ServerStep DEF server

-----------------------------------------------------------------------------
(* What the table holds.                                                   *)

\* Nothing ran: fresh statements were fresh, answered ones were answered.
LEMMA DataQuiet ==
  ASSUME Hosted, WriteInv, Next, pc # "end", pc' # "end", UNCHANGED table, ~Runs,
         UNCHANGED server \/ (/\ work' = Nothing /\ UNCHANGED <<at, undoing>>
                              /\ ~conn'.up \/ (at = 1 /\ pc' = "sent"))
  PROVE  Data'
<1>0. /\ FenceInv /\ Data /\ Writes' = Writes /\ Indices' = Indices /\ Last' = Last
      /\ (InTransaction' <=> InTransaction)
  BY Frozen DEF WriteInv
<1>1. /\ FenceInv /\ Data /\ Writes' = Writes /\ Indices' = Indices /\ Last' = Last
      /\ (InTransaction' <=> InTransaction) /\ Writes \subseteq Counted /\ Writes \subseteq Indices
      /\ Counted \subseteq Indices
  BY <1>0 DEF Writes, Counted
<1>2. \A i \in Counted : Fresh(i)' => Fresh(i)
  BY <1>1, FreshShrinks
<1>3. \A i \in Indices : Answd(i)' => Answd(i)
  BY <1>1, AnswdGrows
<1>4. ~InTransaction => Direct'
  <2> SUFFICES ASSUME ~InTransaction PROVE Direct'
    OBVIOUS
  <2>1. Direct
    BY <1>1 DEF Data
  <2> QED BY <1>1, <1>2, <1>3, <2>1 DEF Direct
<1>5. ASSUME InTransaction PROVE Staged'
  <2>1. Staged
    BY <1>1, <1>5 DEF Data
  <2>2. Last \in Counted /\ Last \in Indices
    BY <1>1, <1>5, PlanFacts DEF Counted, Indices, Last, FenceInv
  <2> PICK n \in Counted : n = Last
    BY <2>2
  <2>a. Last' = n /\ n \in Indices
    BY <1>1
  <2>b. (Fresh(Last)' => Fresh(Last)) /\ (Answd(Last)' => Answd(Last))
    <3>1. (Fresh(n)' => Fresh(n)) /\ (Answd(n)' => Answd(n))
      BY <1>2, <1>3, <2>a
    <3> QED BY <2>a, <3>1 DEF Fresh, Answd
  <2>3. Fresh(Last)' => \A i \in Indices : table'[i] = 0
    BY <2>1, <2>b DEF Staged
  <2>4. Answd(Last)' => \A i \in Writes : table'[i] = 1
    BY <2>1, <2>b DEF Staged
  <2>5. undoing' => \A i \in Indices : table'[i] = 0
    BY <1>1, <2>1, UndoStarts DEF Staged
  <2>6. ASSUME conn'.up, ~undoing', Fresh(Last)', NEW i \in Writes
        PROVE  (Fresh(i)' => work'[i] = 0) /\ (Answd(i)' => work'[i] = 1)
    <3>1. CASE UNCHANGED server
      <4>1. conn.up /\ work' = work
        BY <2>6, <3>1 DEF server
      <4>2. ~undoing /\ Fresh(Last)
        BY <1>1, <2>b, <2>6, UndoStarts
      <4>3. (Fresh(i) => work[i] = 0) /\ (Answd(i) => work[i] = 1)
        BY <2>1, <2>6, <4>1, <4>2 DEF Staged
      <4>4. (Fresh(i)' => Fresh(i)) /\ (Answd(i)' => Answd(i))
        BY <1>1, <1>2, <1>3, <2>6
      <4> QED BY <4>1, <4>3, <4>4
    <3>2. CASE work' = Nothing /\ UNCHANGED <<at, undoing>> /\ at = 1 /\ pc' = "sent"
      <4>1. i \in Indices /\ work'[i] = 0
        BY <1>1, <2>6, <3>2 DEF Nothing
      <4>2. ~Answd(i)'
        BY <3>2, <4>1 DEF Answd, Indices
      <4> QED BY <4>1, <4>2
    <3> QED BY <2>6, <3>1, <3>2
  <2> QED BY <1>1, <2>3, <2>4, <2>5, <2>6 DEF Staged
<1> QED BY <1>1, <1>4, <1>5 DEF Data

\* A statement of a script without a transaction ran: a write is in the table at once.
LEMMA DirectRan ==
  ASSUME Hosted, WriteInv, Next, RunsOnce, ~InTransaction
  PROVE  Direct'
<1>1. /\ FenceInv /\ Direct /\ Writes' = Writes /\ Writes \subseteq Counted
      /\ Writes \subseteq Indices /\ pc = "sent" /\ pc' # "end" /\ TypeOK
  BY Frozen DEF WriteInv, Writes, Counted, RunsOnce, Data, FenceInv
<1>2. at \in 1 .. Last /\ at \in Indices /\ at <= Last /\ ~undoing /\ Current = plan.script[at]
      /\ Last \in Nat
  BY <1>1, PlanFacts DEF FenceInv, TypeOK, Flow, Indices, Last, Current
<1>3. PICK closed \in BOOLEAN : Ran(closed)
  BY DEF RunsOnce
<1>4. table' = Effect(plan.script[at]).table
  BY <1>2, <1>3 DEF Ran
<1>5. \A i \in Writes : Fresh(i)' => Fresh(i)
  BY <1>1, FreshShrinks
<1>6. \A i \in Writes : Answd(i)' => Answd(i) \/ i = at
  BY <1>1, AnswdGrows
<1>7. plan.script[at] \in Statements /\ plan.script[at] # "commit"
  BY <1>1, <1>2, PlanFacts
<1>8. CASE plan.script[at] # "write"
  <2>1. table' = table
    BY <1>1, <1>2, <1>4, <1>7, <1>8, EffectShape
  <2>2. at \notin Writes
    BY <1>8 DEF Writes
  <2> QED BY <1>1, <1>5, <1>6, <2>1, <2>2 DEF Direct
<1>9. CASE plan.script[at] = "write"
  <2>1. ~Fenced
    BY <1>1, <1>2, <1>9, PlanFacts DEF Fenced, InTransaction
  <2>2. conn.txn # "rw"
    BY <1>1, <2>1 DEF FenceInv, Fence
  <2>3. table' = [table EXCEPT ![at] = @ + 1] /\ table \in [Indices -> Nat]
    BY <1>1, <1>2, <1>4, <1>7, <1>9, <2>2, EffectShape DEF TypeOK
  <2> PICK k \in Writes : k = at
    BY <1>2, <1>9 DEF Writes
  <2>4. Fresh(k) /\ ~Fresh(k)'
    BY <1>2, RanIsSpent
  <2>5. table[k] = 0 /\ table'[k] = 1
    BY <1>1, <1>2, <2>3, <2>4 DEF Direct
  <2>6. \A i \in Writes : i # k => table'[i] = table[i]
    BY <1>1, <2>3
  <2> QED BY <1>1, <1>5, <1>6, <2>4, <2>5, <2>6 DEF Direct
<1> QED BY <1>8, <1>9

\* A statement of apply's own transaction ran: a write is in the transaction, COMMIT puts all of them
\* in the table, and the rollback none.
LEMMA StagedRan ==
  ASSUME Hosted, WriteInv, Next, RunsOnce, InTransaction
  PROVE  Staged'
<1>1. FenceInv /\ Staged /\ pc = "sent" /\ pc' # "end" /\ pc # "end" /\ TypeOK /\ conn.up
  BY DEF WriteInv, RunsOnce, Data, FenceInv
<1>2. /\ Writes' = Writes /\ Indices' = Indices /\ Last' = Last
  BY <1>1, Frozen
<1>3. Writes \subseteq Counted /\ Counted \subseteq Indices
  BY DEF Writes, Counted
<1>4. /\ at \in 1 .. Last /\ at \in Indices /\ at <= Last /\ Last \in Nat /\ Last > 1
      /\ plan.script[Last] = "commit" /\ Last \in Counted
      /\ \A i \in 2 .. Last : plan.script[i] \in {"write", "commit"}
      /\ \A i \in Indices : i \in 1 .. Last
      /\ \A i \in 1 .. Last : plan.script[i] = "commit" => i = Last
  BY <1>1, PlanFacts DEF TypeOK, FenceInv, Flow, Indices, Last, Counted
<1>5. PICK closed \in BOOLEAN : Ran(closed)
  BY DEF RunsOnce
<1>6. /\ table' = Effect(Current).table /\ UNCHANGED <<at, undoing>>
      /\ (conn'.up => work' = Effect(Current).work)
  <2>1. conn'.up <=> ~closed
    BY <1>1, <1>4, <1>5, RanShape
  <2> QED BY <1>5, <2>1 DEF Ran, RunsOnce
<1> PICK n \in Counted : n = Last
  BY <1>4
<1>7. \A i \in Counted : Fresh(i)' => Fresh(i)
  BY <1>1, FreshShrinks
<1>8. \A i \in Indices : Answd(i)' => Answd(i) \/ (i = at /\ ~undoing)
  BY <1>1, AnswdGrows
<1>9. (Fresh(Last)' <=> Fresh(n)') /\ (Answd(Last)' <=> Answd(n)')
  BY <1>2 DEF Fresh, Answd
<1>10. (Fresh(Last)' => Fresh(Last)) /\ (Answd(Last)' => Answd(Last) \/ (Last = at /\ ~undoing))
  BY <1>3, <1>7, <1>8, <1>9
<1>11. Current \in Statements
  BY <1>1, <1>4, CurrentIsStatement
<1>12. CASE undoing
  <2>1. table' = table
    BY <1>1, <1>4, <1>6, <1>11, <1>12, EffectShape DEF Current
  <2>2. \A i \in Indices : table[i] = 0
    BY <1>1, <1>12 DEF Staged
  <2>3. ~Answd(Last)
    BY <1>4, <1>12 DEF Answd
  <2>4. ~Answd(Last)' /\ undoing'
    BY <1>6, <1>10, <1>12, <2>3
  <2> QED BY <1>2, <2>1, <2>2, <2>4 DEF Staged
<1>13. ASSUME ~undoing PROVE ~undoing' /\ Current = plan.script[at]
  BY <1>1, <1>6, <1>13 DEF Current
<1>14. CASE ~undoing /\ at # Last
  <2>1. Fresh(Last) /\ ~Answd(Last)
    BY <1>4, <1>14 DEF Fresh, Answd
  <2>2. /\ \A i \in Indices : table[i] = 0
        /\ \A i \in Writes : (Fresh(i) => work[i] = 0) /\ (Answd(i) => work[i] = 1)
    BY <1>1, <1>14, <2>1 DEF Staged
  <2>3. ~Answd(Last)'
    BY <1>10, <1>14, <2>1
  <2>4. CASE at = 1
    <3>1. Current = "begin"
      BY <1>13, <1>14, <2>4 DEF InTransaction
    <3>2. table' = table /\ (conn'.up => work' = work)
      BY <1>1, <1>4, <1>6, <1>11, <3>1, EffectShape
    <3>3. \A i \in Writes : i # at
      BY <1>13, <1>14, <3>1 DEF Writes
    <3>4. \A i \in Writes : (Fresh(i)' => Fresh(i)) /\ (Answd(i)' => Answd(i))
      BY <1>3, <1>7, <1>8, <3>3
    <3> QED BY <1>2, <1>13, <1>14, <2>2, <2>3, <3>2, <3>4 DEF Staged
  <2>5. CASE at # 1
    <3>1. plan.script[at] = "write" /\ at > 1
      BY <1>4, <1>14, <2>5
    <3>2. Current = "write" /\ conn.txn = "rw"
      BY <1>1, <1>13, <1>14, <3>1 DEF FenceInv, Fence, Fenced, Mode, InTransaction
    <3>3. table' = table /\ (conn'.up => work' = [work EXCEPT ![at] = @ + 1])
      BY <1>1, <1>4, <1>6, <1>11, <3>2, EffectShape
    <3> PICK k \in Writes : k = at
      BY <1>4, <3>1 DEF Writes
    <3>4. Fresh(k) /\ ~Fresh(k)'
      BY <1>4, <1>14, RanIsSpent
    <3>5. work \in [Indices -> Nat] /\ work[k] = 0
      BY <1>1, <2>2, <3>4 DEF TypeOK
    <3>6. conn'.up => work'[k] = 1 /\ \A i \in Writes : i # k => work'[i] = work[i]
      BY <1>3, <1>4, <3>3, <3>5
    <3>7. \A i \in Writes : i # k => (Fresh(i)' => Fresh(i)) /\ (Answd(i)' => Answd(i))
      BY <1>3, <1>7, <1>8
    <3>8. conn'.up => \A i \in Writes : (Fresh(i)' => work'[i] = 0) /\ (Answd(i)' => work'[i] = 1)
      BY <2>2, <3>4, <3>6, <3>7
    <3> QED BY <1>2, <1>13, <1>14, <2>2, <2>3, <3>3, <3>8 DEF Staged
  <2> QED BY <2>4, <2>5
<1>15. CASE ~undoing /\ at = Last
  <2>1. Current = "commit"
    BY <1>4, <1>13, <1>15
  <2>2. Fresh(n) /\ ~Fresh(n)'
    BY <1>4, <1>15, RanIsSpent
  <2>3. Fresh(Last) /\ ~Fresh(Last)'
    BY <1>9, <2>2
  <2>4. /\ \A i \in Indices : table[i] = 0
        /\ \A i \in Writes : Answd(i) => work[i] = 1
    BY <1>1, <1>15, <2>3 DEF Staged
  <2>5. \A i \in Writes : i \in Indices /\ Answd(i)
    <3>1. \A i \in Writes : i \in 1 .. Last /\ i # Last
      BY <1>3, <1>4 DEF Writes
    <3> QED BY <1>3, <1>4, <1>15, <3>1 DEF Answd
  <2>6. table' = [i \in Indices |-> table[i] + work[i]]
    BY <1>1, <1>4, <1>6, <1>11, <2>1, EffectShape
  <2>7. \A i \in Writes : table'[i] = 1
    BY <2>4, <2>5, <2>6
  <2> QED BY <1>2, <1>13, <1>15, <2>3, <2>7 DEF Staged
<1> QED BY <1>12, <1>14, <1>15

LEMMA DataNext ==
  ASSUME Hosted, WriteInv, Next, pc # "end"
  PROVE  Data'
<1>1. CASE pc' = "end"
  BY <1>1 DEF Data
<1>2. CASE RunsOnce /\ pc' # "end"
  <2>1. InTransaction' <=> InTransaction
    BY Frozen DEF WriteInv
  <2> QED BY <1>2, <2>1, DirectRan, StagedRan DEF Data
<1>3. CASE pc' # "end" /\ ~RunsOnce
  BY <1>3, ServerStep, DataQuiet DEF WriteInv, server
<1> QED BY <1>1, <1>2, <1>3

\* The report is written by the command's last step, from what the last answer says of the table.
LEMMA ReportNext ==
  ASSUME Hosted, WriteInv, Next, pc # "end"
  PROVE  ReportTrue'
<1>1. /\ FenceInv /\ Data /\ Writes' = Writes /\ report = "none" /\ Writes \subseteq Indices
      /\ at \in 1 .. Last /\ Last \in Nat /\ \A i \in Indices : i \in 1 .. Last
  BY Frozen, PlanFacts DEF WriteInv, FenceInv, TypeOK, Flow, Writes, Indices, Last
<1>2. ASSUME report' = "done" PROVE \A i \in Writes : table'[i] = 1
  <2>1. \/ /\ StatementDone /\ ~undoing /\ at = Last /\ answer = "cursor" /\ pc = "judge"
        \/ /\ CallFails \/ CursorFails
           /\ ~undoing /\ plan.cmd # "apply" /\ Current = "rollback"
    BY <1>1, <1>2 DEF Next, Issue, StopApply, StopOthers, CallBroken, CallSends, Connect, Enforce, Runs,
       Refuses, NeverSent, AnswerLost, ConnectionDies, Retry, StatementDone, CallFails, CursorFails,
       StatementFails, Undo, End, Disposition, Done, command, Last
  <2>2. CASE /\ StatementDone /\ ~undoing /\ at = Last /\ answer = "cursor" /\ pc = "judge"
    <3>1. \A i \in Writes : Answd(i)
      BY <1>1, <2>2 DEF Answd
    <3>2. Answd(Last) /\ table' = table
      BY <2>2 DEF Answd, StatementDone, server
    <3> QED BY <1>1, <2>2, <3>1, <3>2 DEF Data, Direct, Staged
  <2>3. CASE ~undoing /\ plan.cmd # "apply" /\ Current = "rollback"
    <3>1. Writes = {}
      BY <1>1, <2>3, PlanFacts DEF Writes, Current, FenceInv
    <3> QED BY <3>1
  <2> QED BY <2>1, <2>2, <2>3
<1>3. ASSUME report' = "pending" PROVE \A i \in Writes : table'[i] = 0
  <2>1. undoing /\ UNCHANGED table
    BY <1>1, <1>3 DEF Next, Issue, StopApply, StopOthers, CallBroken, CallSends, Connect, Enforce, Runs,
       Refuses, NeverSent, AnswerLost, ConnectionDies, Retry, StatementDone, CallFails, CursorFails,
       StatementFails, Undo, End, Disposition, Done, command, server
  <2>2. InTransaction /\ Staged
    BY <1>1, <2>1 DEF FenceInv, Flow, Data
  <2> QED BY <1>1, <2>1, <2>2 DEF Staged
<1> QED BY <1>1, <1>2, <1>3 DEF ReportTrue

LEMMA WriteNext == Hosted /\ WriteInv /\ [Next]_vars => WriteInv'
<1> SUFFICES ASSUME Hosted, WriteInv, [Next]_vars PROVE WriteInv'
  OBVIOUS
<1>1. FenceInv'
  BY FenceNext DEF WriteInv
<1>2. CASE UNCHANGED vars
  <2>1. Once' /\ WriteOnce' /\ ReportTrue'
    BY <1>2 DEF vars, WriteInv, Once, WriteOnce, ReportTrue, Writes, Indices, Fresh
  <2>2. Data'
    BY <1>2 DEF vars, WriteInv, Data, Direct, Staged, Writes, Indices, Fresh, Answd, Last, InTransaction
  <2> QED BY <1>1, <2>1, <2>2 DEF WriteInv
<1>3. CASE Next /\ pc # "end"
  BY <1>1, <1>3, OnceNext, DataNext, ReportNext DEF WriteInv
<1> QED BY <1>2, <1>3, Frozen DEF WriteInv

\* No write reaches the server twice, through the lease's reconnect or through the retry
\* (lease.rs "A write is never sent again"), for every script and every number of retries.
THEOREM WriteSentOnce ==
  ASSUME Hosted
  PROVE  Spec => []WriteOnce
<1>1. WriteInv => WriteOnce
  BY DEF WriteInv
<1>2. WriteInv /\ [Next]_vars => WriteInv'
  BY WriteNext
<1> QED BY <1>1, <1>2, WriteInit, PTL DEF Spec

\* "done" is said of changes that are each in the table once, "pendingInSessionTransaction" of
\* changes none of which is (apply.rs Disposition, plan_failure), whatever was lost on the way.
THEOREM ReportHolds ==
  ASSUME Hosted
  PROVE  Spec => []ReportTrue
<1>1. WriteInv => ReportTrue
  BY DEF WriteInv
<1>2. WriteInv /\ [Next]_vars => WriteInv'
  BY WriteNext
<1> QED BY <1>1, <1>2, WriteInit, PTL DEF Spec
=============================================================================
