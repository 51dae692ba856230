--------------------------- MODULE AppStoreProofs ---------------------------
(***************************************************************************)
(* What the app keeps, for every value of the constants.                   *)
(*                                                                         *)
(* The local database: StoreInv is inductive; the invariants and the       *)
(* action property the run checks follow from it.  The MCP server: McInv,  *)
(* which says that the answer in hand is the one a store without the other *)
(* connections would have given.  The way to a connection: CnInv, which    *)
(* says what the configuration owes to the settings it was made of.        *)
(***************************************************************************)
EXTENDS MCAppStore, FiniteSetTheorems, SequenceTheorems, TLAPS

Rows == [version : Nat, dead : BOOLEAN, fav : BOOLEAN]
Tokens == [revoked : BOOLEAN, used : BOOLEAN]
Entries == [hash : Nat, prev : Nat]
\* What a command may have read last: nothing, a row, the tail of the log, the rows of the old file
\* it merged, or the token.
Seen == {None} \cup Rows \cup Nat \cup (SUBSET FileRows) \cup Tokens

Points == {"off", "acquire", "version", "history", "migrate", "work", "write", "append", "send",
           "backup", "merge", "mark", "serving"}
Ops == {"none", "rename", "favourite", "delete", "record", "clear", "save_session", "clear_session",
        "run", "import", "serve", "revoke"}
Doing == [pc : Points, op : Ops, at : Nat, seen : Seen]

\* The shape of what the state variables hold that TypeOK leaves open.
ShapeOK ==
    /\ schema \in [version : Nat, history : SUBSET Nat, tables : SUBSET Nat]
    /\ legacy \in [backup : BOOLEAN, taken : SUBSET FileRows, marker : BOOLEAN]
    /\ token \in Tokens /\ outside \in BOOLEAN
    /\ log \in Seq(Entries)
    /\ cmd \in [Cmds -> Doing]

\* The append in progress holds the file's lock and has read the tail the log still has.
LockInv ==
    /\ \A i \in DOMAIN log : log[i].hash = i /\ log[i].prev = i - 1
    /\ \A c \in Cmds : cmd[c].pc = "append" <=> lock = c
    /\ \A c \in Cmds : cmd[c].pc = "append" => cmd[c].seen = Len(log)

\* Statements sent and statements about to be sent each have a row of their own in the log.
Senders == {c \in Cmds : cmd[c].pc = "send"}
SendInv ==
    /\ ran \in Nat /\ IsFiniteSet(Senders)
    /\ ran + Cardinality(Senders) <= Len(log)

\* What a command knows of the schema is true or was: versions only go up.
SchemaInv ==
    /\ MarkersTrue
    /\ open => schema.version >= Latest
    /\ \A c \in Cmds : cmd[c].pc \in {"history", "migrate"} => cmd[c].at <= schema.version

ImportInv ==
    \A c \in Cmds :
        /\ cmd[c].pc \in {"merge", "mark"} => legacy.backup
        /\ cmd[c].pc = "merge" => cmd[c].seen \in SUBSET FileRows
        /\ cmd[c].pc = "mark" => FileRows \subseteq legacy.taken

\* The host's commands take turns, so the row one of them read is the row, unless another process
\* wrote.
TurnInv ==
    /\ \A c \in Host : cmd[c].pc \notin {"off", "acquire"} => slot = c
    /\ \A c \in Cmds : cmd[c].pc = "write" => cmd[c].op \in RowOps(table) /\ cmd[c].seen \in Rows
    /\ \A c \in Host : cmd[c].pc = "write" /\ ~outside => cmd[c].seen = row
    /\ EditsKept

StoreInv ==
    TypeOK /\ ShapeOK /\ LockInv /\ SendInv /\ SchemaInv /\ ImportInv /\ TurnInv

-----------------------------------------------------------------------------
(* Lemmas: one command moves, and what that leaves as it was.              *)

Others(c) == \A d \in Cmds : d # c => cmd'[d] = cmd[d]

\* The command named keeps its shape whatever it does next, and the others theirs.
LEMMA Moved ==
  ASSUME ShapeOK, NEW c \in Cmds, NEW r \in Doing, cmd' = [cmd EXCEPT ![c] = r]
  PROVE  cmd' \in [Cmds -> Doing] /\ cmd'[c] = r /\ Others(c)
  BY DEF ShapeOK, Others

LEMMA IdleIsDoing == Idle \in Doing
  <1>1. None \in Seen
    BY DEF Seen
  <1> QED BY <1>1 DEF Idle, Doing, Points, Ops

\* A command ends: it is off, and slot is free if it was its own.
LEMMA Ended ==
  ASSUME StoreInv, NEW c \in Cmds, Ends(c)
  PROVE  /\ cmd' \in [Cmds -> Doing] /\ cmd'[c] = Idle /\ Others(c)
         /\ slot' \in Host \cup {None}
  <1>1. cmd' = [cmd EXCEPT ![c] = Idle] /\ slot' \in Host \cup {None}
    BY DEF Ends, StoreInv, TypeOK
  <1> QED BY <1>1, Moved, IdleIsDoing DEF StoreInv

\* A command goes on to another point of its work.
LEMMA Went ==
  ASSUME StoreInv, NEW c \in Cmds, NEW pc \in Points, Step(c, pc)
  PROVE  /\ cmd' \in [Cmds -> Doing] /\ cmd'[c] = [cmd[c] EXCEPT !.pc = pc] /\ Others(c)
  <1>1. cmd[c] \in Doing
    BY DEF StoreInv, ShapeOK
  <1>2. [cmd[c] EXCEPT !.pc = pc] \in Doing
    BY <1>1 DEF Doing
  <1>3. cmd' = [cmd EXCEPT ![c] = [cmd[c] EXCEPT !.pc = pc]]
    BY DEF Step, StoreInv, ShapeOK
  <1> QED BY <1>2, <1>3, Moved DEF StoreInv

\* A step outside the log leaves the chain and the write lock as they were.
LEMMA LockKept ==
  ASSUME StoreInv, NEW c \in Cmds, Others(c), log' = log, lock' = lock,
         cmd[c].pc # "append", cmd'[c].pc # "append"
  PROVE  LockInv'
  BY DEF StoreInv, LockInv, Others

\* A step that neither logs nor sends leaves a row for every statement.
LEMMA SendKept ==
  ASSUME StoreInv, NEW c \in Cmds, Others(c), log' = log, ran' = ran, cmd'[c].pc # "send"
  PROVE  SendInv'
  <1>1. Senders' \subseteq Senders
    BY DEF Senders, Others
  <1>2. IsFiniteSet(Senders') /\ Cardinality(Senders') <= Cardinality(Senders)
    BY <1>1, FS_Subset DEF StoreInv, SendInv
  <1>3. Cardinality(Senders') \in Nat /\ Cardinality(Senders) \in Nat
    BY <1>2, FS_CardinalityType DEF StoreInv, SendInv
  <1>4. Len(log) \in Nat
    BY DEF StoreInv, ShapeOK
  <1> QED BY <1>2, <1>3, <1>4 DEF StoreInv, SendInv

\* What a command may know: a schema as new as its build once it works, a version the file has
\* reached before that, and the copy and the rows an import left.
Knows(c) ==
    /\ cmd'[c].pc \in {"work", "write", "append", "send", "backup", "merge", "mark", "serving"}
          => schema'.version >= Known(c)
    /\ cmd'[c].pc \in {"history", "migrate"} => cmd'[c].at <= schema'.version
    /\ cmd'[c].pc \in {"merge", "mark"} => legacy'.backup
    /\ cmd'[c].pc = "merge" => cmd'[c].seen \in SUBSET FileRows
    /\ cmd'[c].pc = "mark" => FileRows \subseteq legacy'.taken

\* The commands other than the one that moves know what they knew, while the schema and the import
\* only grow.
LEMMA SchemaKept ==
  ASSUME StoreInv, NEW c \in Cmds, Others(c), Knows(c),
         schema' = schema, legacy' = legacy, open' => open \/ schema.version >= Latest
  PROVE  SchemaInv' /\ ImportInv'
  <1>1. \A d \in Cmds : Knows(d)
    BY DEF StoreInv, SchemaInv, ImportInv, MarkersTrue, Knows, Others
  <1>2. MarkersTrue'
    BY <1>1 DEF StoreInv, SchemaInv, MarkersTrue, Knows
  <1>3. SchemaInv'
    BY <1>1, <1>2 DEF StoreInv, SchemaInv, Knows
  <1>4. ImportInv'
    BY <1>1 DEF ImportInv, Knows
  <1> QED BY <1>3, <1>4

\* Whose turn it is: the host command that holds the mutex moves on or lets it go.
Turns(c) ==
    \/ slot' = slot /\ (c \in Host /\ cmd'[c].pc \notin {"off", "acquire"} => slot = c)
    \/ c \in Host /\ slot = None /\ slot' = c
    \/ cmd'[c].pc = "off" /\ slot' = IF slot = c THEN None ELSE slot

LEMMA TurnKept ==
  ASSUME StoreInv, NEW c \in Cmds, Others(c), Turns(c), cmd'[c].pc # "write",
         UNCHANGED <<table, row, edits, outside>>
  PROVE  TurnInv'
  <1>1. \A d \in Host : cmd'[d].pc \notin {"off", "acquire"} => slot' = d
    BY AppStoreAssumption DEF StoreInv, TurnInv, Turns, Others, Cmds
  <1>2. \A d \in Cmds : cmd'[d].pc = "write" => cmd'[d].op \in RowOps(table') /\ cmd'[d].seen \in Rows
    BY DEF StoreInv, TurnInv, Others
  <1>3. \A d \in Host : cmd'[d].pc = "write" /\ ~outside' => cmd'[d].seen = row'
    BY DEF StoreInv, TurnInv, Others, Cmds
  <1>4. EditsKept'
    BY DEF StoreInv, TurnInv, EditsKept
  <1> QED BY <1>1, <1>2, <1>3, <1>4 DEF TurnInv

\* A step that changes nothing but a command, whose turn it is and the host's handle.
LEMMA Quiet ==
  ASSUME StoreInv, NEW c \in Cmds, Others(c), Knows(c), Turns(c),
         cmd' \in [Cmds -> Doing], slot' \in Host \cup {None},
         cmd[c].pc # "append", cmd'[c].pc \notin {"append", "send", "write"},
         UNCHANGED <<db, table, lock, edits, outside, ran>>, starts' \in 0 .. MaxStarts,
         open' \in BOOLEAN, open' => open \/ schema.version >= Latest
  PROVE  StoreInv'
  <1>1. TypeOK'
    BY DEF StoreInv, TypeOK, db
  <1>2. ShapeOK'
    BY DEF StoreInv, ShapeOK, db
  <1>3. LockInv'
    BY LockKept DEF db
  <1>4. SendInv'
    BY SendKept DEF db
  <1>5. SchemaInv' /\ ImportInv'
    BY SchemaKept DEF db
  <1>6. TurnInv'
    BY TurnKept DEF db
  <1> QED BY <1>1, <1>2, <1>3, <1>4, <1>5, <1>6 DEF StoreInv

\* A command that holds neither the write lock nor a row ends, with or without an answer.
LEMMA EndKeeps ==
  ASSUME StoreInv, NEW c \in Cmds, Ends(c), cmd[c].pc # "append",
         UNCHANGED <<db, lock, open>>, Keep
  PROVE  StoreInv'
  <1>1. cmd' \in [Cmds -> Doing] /\ cmd'[c] = Idle /\ Others(c) /\ slot' \in Host \cup {None}
    BY Ended
  <1>2. cmd'[c].pc = "off"
    BY <1>1 DEF Idle
  <1>3. Knows(c) /\ Turns(c)
    BY <1>2 DEF Knows, Turns, Ends
  <1>4. starts' \in 0 .. MaxStarts /\ open' \in BOOLEAN
    BY DEF Keep, StoreInv, TypeOK
  <1> QED BY <1>1, <1>2, <1>3, <1>4, Quiet DEF Keep

-----------------------------------------------------------------------------
(* One step per action.                                                    *)

LEMMA StoreInit == Init => StoreInv
<1> SUFFICES ASSUME Init PROVE StoreInv
  OBVIOUS
<1>1. Latest \in Nat /\ MaxStarts \in Nat /\ None \notin Cmds
  BY AppStoreAssumption DEF Cmds
<1>2. cmd \in [Cmds -> Doing] /\ \A c \in Cmds : cmd[c].pc = "off"
  BY IdleIsDoing DEF Init, Idle
<1>3. TypeOK
  <2>1. /\ schema.version = 0 /\ schema.history = {} /\ schema.tables = {} /\ legacy.taken = {}
    BY DEF Init
  <2>2. row \in [version : Nat, dead : BOOLEAN, fav : BOOLEAN]
    BY DEF Init
  <2>3. starts \in 0 .. MaxStarts /\ edits \in Nat /\ ran \in Nat
    BY <1>1 DEF Init
  <2>4. table \in Tables /\ lock \in Cmds \cup {None} /\ slot \in Host \cup {None} /\ open \in BOOLEAN
    BY DEF Init
  <2>5. schema.version \in 0 .. Latest
    BY <1>1, <2>1
  <2> QED BY <2>1, <2>2, <2>3, <2>4, <2>5 DEF TypeOK
<1>4. ShapeOK
  <2>1. schema \in [version : Nat, history : SUBSET Nat, tables : SUBSET Nat]
    BY DEF Init
  <2>2. legacy \in [backup : BOOLEAN, taken : SUBSET FileRows, marker : BOOLEAN]
    BY DEF Init
  <2>3. token \in Tokens /\ outside \in BOOLEAN
    BY DEF Init, Tokens
  <2>4. log \in Seq(Entries)
    BY DEF Init
  <2> QED BY <1>2, <2>1, <2>2, <2>3, <2>4 DEF ShapeOK
<1>5. LockInv
  BY <1>1, <1>2 DEF Init, LockInv
<1>6. SendInv
  <2>1. Senders = {}
    BY <1>2 DEF Senders
  <2> QED BY <2>1, FS_EmptySet DEF SendInv, Init
<1>7. SchemaInv /\ ImportInv
  <2>1. 1 .. 0 = {}
    OBVIOUS
  <2> QED BY <1>2, <2>1 DEF Init, SchemaInv, ImportInv, MarkersTrue
<1>8. TurnInv
  BY <1>2, AppStoreAssumption DEF Init, TurnInv, EditsKept, Cmds
<1> QED BY <1>3, <1>4, <1>5, <1>6, <1>7, <1>8 DEF StoreInv

\* A command starts, waits for its turn, and reads what the file says of its schema.
LEMMA OpenKeeps ==
  ASSUME StoreInv, NEW c \in Cmds,
         \/ \E op \in RowOps(table) \cup {"run", "import", "serve", "revoke"} : Start(c, op)
         \/ Acquire(c) \/ ReadVersion(c) \/ CheckHistory(c)
  PROVE  StoreInv'
<1>0. cmd[c] \in Doing /\ starts \in 0 .. MaxStarts /\ slot \in Host \cup {None} /\ open \in BOOLEAN
  BY DEF StoreInv, ShapeOK, TypeOK
<1>1. ASSUME NEW op \in RowOps(table) \cup {"run", "import", "serve", "revoke"}, Start(c, op)
      PROVE  StoreInv'
  <2> DEFINE r == [Idle EXCEPT !.pc = "acquire", !.op = op]
  <2>1. op \in Ops
    BY DEF Ops, RowOps, StoreInv, TypeOK, Tables
  <2>2. r \in Doing /\ r.pc = "acquire"
    BY <2>1, IdleIsDoing DEF Idle, Doing, Points
  <2>3. cmd' \in [Cmds -> Doing] /\ cmd'[c].pc = "acquire" /\ Others(c)
    BY <1>1, <2>2, Moved DEF Start, StoreInv
  <2>4. Knows(c) /\ Turns(c)
    BY <1>1, <2>3 DEF Knows, Turns, Start
  <2>5. starts' \in 0 .. MaxStarts
    <3>1. starts < MaxStarts /\ starts' = starts + 1
      BY <1>1 DEF Start
    <3>2. MaxStarts \in Nat /\ starts \in 0 .. MaxStarts
      BY <1>0, AppStoreAssumption
    <3> QED BY <3>1, <3>2
  <2> QED BY <1>0, <1>1, <2>3, <2>4, <2>5, Quiet DEF Start
<1>2. CASE Acquire(c)
  <2> DEFINE next == IF c \in Host /\ open THEN "work" ELSE "version"
  <2>1. cmd' \in [Cmds -> Doing] /\ cmd'[c] = [cmd[c] EXCEPT !.pc = next] /\ Others(c)
    BY <1>2, Went DEF Acquire, Points
  <2>2. cmd'[c].pc = next
    BY <1>0, <2>1 DEF Doing
  <2>3. c \in Host => Known(c) = Latest
    BY AppStoreAssumption DEF Known
  <2>4. Knows(c)
    BY <1>2, <2>2, <2>3 DEF Knows, Acquire, StoreInv, SchemaInv, db
  <2>5. Turns(c) /\ slot' \in Host \cup {None}
    BY <1>0, <1>2 DEF Turns, Acquire
  <2> QED BY <1>0, <1>2, <2>1, <2>2, <2>4, <2>5, Quiet DEF Acquire, Keep
<1>3. CASE ReadVersion(c)
  <2>1. CASE schema.version > Known(c)
    BY <1>3, <2>1, EndKeeps DEF ReadVersion
  <2>2. CASE ~(schema.version > Known(c))
    <3> DEFINE r == [cmd[c] EXCEPT !.pc = "history", !.at = schema.version]
    <3>1. r \in Doing /\ r.pc = "history" /\ r.at = schema.version
      BY <1>0 DEF Doing, Points, StoreInv, ShapeOK
    <3>2. cmd' = [cmd EXCEPT ![c] = r]
      BY <1>3, <2>2 DEF ReadVersion, StoreInv, ShapeOK
    <3>3. cmd' \in [Cmds -> Doing] /\ cmd'[c] = r /\ Others(c)
      BY <3>1, <3>2, Moved DEF StoreInv
    <3>4. Knows(c)
      BY <1>3, <3>1, <3>3 DEF Knows, ReadVersion, db, StoreInv, ShapeOK
    <3>5. Turns(c)
      BY <1>3, <2>2 DEF ReadVersion, Turns, StoreInv, TurnInv
    <3> HIDE DEF r
    <3> QED BY <1>0, <1>3, <2>2, <3>1, <3>3, <3>4, <3>5, Quiet DEF ReadVersion, Keep
  <2> QED BY <2>1, <2>2
<1>4. CASE CheckHistory(c)
  <2>1. CASE Ends(c)
    BY <1>4, <2>1, EndKeeps DEF CheckHistory
  <2>2. CASE Step(c, "migrate") /\ slot' = slot
    <3>1. cmd' \in [Cmds -> Doing] /\ cmd'[c] = [cmd[c] EXCEPT !.pc = "migrate"] /\ Others(c)
      BY <2>2, Went DEF Points
    <3>2. cmd'[c].pc = "migrate" /\ cmd'[c].at = cmd[c].at
      BY <1>0, <3>1 DEF Doing
    <3>3. Knows(c)
      BY <1>4, <3>2 DEF CheckHistory, Knows, StoreInv, SchemaInv, db
    <3>4. Turns(c)
      BY <1>4, <2>2 DEF CheckHistory, Turns, StoreInv, TurnInv
    <3> QED BY <1>0, <1>4, <2>2, <3>1, <3>2, <3>3, <3>4, Quiet DEF CheckHistory, Keep
  <2> QED BY <1>4, <2>1, <2>2 DEF CheckHistory
<1> QED BY <1>1, <1>2, <1>3, <1>4

\* The marker is the newest migration that ran: one that has not run yet is the next.
LEMMA NextMigration ==
  ASSUME StoreInv, NEW at \in Nat, at <= schema.version, at + 1 \notin schema.tables
  PROVE  at = schema.version
  <1>1. schema.version \in Nat /\ schema.tables = 1 .. schema.version
    BY DEF StoreInv, ShapeOK, SchemaInv, MarkersTrue
  <1> QED BY <1>1

\* Every migration needed has run, or the next one runs, or another process has run it meanwhile.
LEMMA MigrateKeeps ==
  ASSUME StoreInv, NEW c \in Cmds, Migrate(c)
  PROVE  StoreInv'
<1> DEFINE v == cmd[c].at + 1
<1>0. /\ cmd[c] \in Doing /\ cmd[c].at \in Nat /\ schema.version \in 0 .. Latest /\ Latest \in Nat
      /\ cmd[c].pc = "migrate" /\ cmd[c].at <= schema.version /\ Known(c) \in Int
      /\ Known(c) <= Latest /\ starts \in 0 .. MaxStarts /\ slot \in Host \cup {None}
      /\ open \in BOOLEAN
  BY AppStoreAssumption DEF StoreInv, ShapeOK, TypeOK, Migrate, SchemaInv, Doing, Known
<1>1. CASE cmd[c].at >= Known(c)
  <2>1. Step(c, "work") /\ UNCHANGED <<db, table, slot, lock, starts, edits, outside, ran>>
        /\ open' = (open \/ c \in Host)
    BY <1>1 DEF Migrate, Keep, db
  <2>2. cmd' \in [Cmds -> Doing] /\ cmd'[c] = [cmd[c] EXCEPT !.pc = "work"] /\ Others(c)
    BY <2>1, Went DEF Points
  <2>3. cmd'[c].pc = "work"
    BY <1>0, <2>2 DEF Doing
  <2>4. schema.version >= Known(c) /\ schema' = schema
    BY <1>0, <1>1, <2>1 DEF db
  <2>5. Knows(c)
    BY <2>3, <2>4 DEF Knows
  <2>6. Turns(c)
    BY <1>0, <2>1 DEF Turns, StoreInv, TurnInv
  <2>7. open' => open \/ schema.version >= Latest
    BY <2>1, <2>4, AppStoreAssumption DEF Known
  <2>8. open' \in BOOLEAN /\ starts' \in 0 .. MaxStarts /\ slot' \in Host \cup {None}
    BY <1>0, <2>1
  <2> QED BY <1>0, <2>1, <2>2, <2>3, <2>5, <2>6, <2>7, <2>8, Quiet
<1>2. CASE ~(cmd[c].at >= Known(c)) /\ v \in schema.tables
  BY <1>0, <1>2, EndKeeps DEF Migrate, db
<1>3. CASE ~(cmd[c].at >= Known(c)) /\ v \notin schema.tables
  <2> DEFINE r == [cmd[c] EXCEPT !.at = v]
  <2>1. Apply(v) /\ cmd' = [cmd EXCEPT ![c].at = v] /\ slot' = slot
        /\ UNCHANGED <<row, log, legacy, token, lock, open, table, starts, edits, outside, ran>>
    BY <1>3 DEF Migrate, Keep
  <2>2. r \in Doing /\ r.pc = "migrate" /\ r.at = v
    BY <1>0 DEF Doing
  <2>3. cmd' \in [Cmds -> Doing] /\ cmd'[c] = r /\ Others(c)
    <3>1. cmd' = [cmd EXCEPT ![c] = r]
      BY <2>1 DEF StoreInv, ShapeOK
    <3> HIDE DEF r
    <3> QED BY <2>2, <3>1, Moved DEF StoreInv
  <2>4. cmd'[c].pc = "migrate" /\ cmd'[c].at = v
    BY <2>2, <2>3
  <2> HIDE DEF r
  <2>5. v = schema.version + 1 /\ v \in 1 .. Latest
    <3>1. cmd[c].at = schema.version
      BY <1>0, <1>3, NextMigration
    <3> QED BY <1>0, <1>3, <3>1
  <2>6. schema'.version = v /\ schema'.history = 1 .. v /\ schema'.tables = 1 .. v
    <3>1. schema.history = 1 .. schema.version /\ schema.tables = 1 .. schema.version
      BY DEF StoreInv, SchemaInv, MarkersTrue
    <3>2. (1 .. schema.version) \cup {v} = 1 .. v
      BY <1>0, <2>5
    <3> QED BY <2>1, <3>1, <3>2 DEF Apply
  <2>7. TypeOK'
    <3>1. schema'.version \in 0 .. Latest /\ schema'.history \subseteq 1 .. Latest
          /\ schema'.tables \subseteq 1 .. Latest
      BY <1>0, <2>5, <2>6
    <3> QED BY <2>1, <3>1 DEF StoreInv, TypeOK
  <2>8. ShapeOK'
    <3>1. schema' \in [version : Nat, history : SUBSET Nat, tables : SUBSET Nat]
      BY <1>0, <2>1, <2>5 DEF Apply, StoreInv, ShapeOK
    <3> QED BY <2>1, <2>3, <3>1 DEF StoreInv, ShapeOK
  <2>9. LockInv' /\ SendInv' /\ TurnInv'
    <3>1. Turns(c)
      BY <1>0, <2>1 DEF Turns, StoreInv, TurnInv
    <3> QED BY <1>0, <2>1, <2>3, <2>4, <3>1, LockKept, SendKept, TurnKept
  <2>10. SchemaInv' /\ ImportInv'
    <3>1. schema'.version >= schema.version /\ schema'.version \in Nat
      BY <1>0, <2>5, <2>6
    <3>2. \A d \in Cmds : Known(d) \in Int /\ cmd[d].at \in Nat
      BY AppStoreAssumption DEF Known, StoreInv, ShapeOK, Doing
    <3>3. \A d \in Cmds : Knows(d)
      BY <1>0, <2>1, <2>3, <2>4, <2>6, <3>1, <3>2
         DEF Knows, Others, StoreInv, SchemaInv, ImportInv, MarkersTrue
    <3>4. MarkersTrue'
      BY <2>1, <2>6, <3>3 DEF MarkersTrue, Knows, StoreInv, SchemaInv
    <3>5. open' => schema'.version >= Latest
      BY <1>0, <2>1, <3>1 DEF StoreInv, SchemaInv
    <3> QED BY <3>3, <3>4, <3>5 DEF SchemaInv, ImportInv, Knows
  <2> QED BY <2>7, <2>8, <2>9, <2>10 DEF StoreInv
<1> QED BY <1>1, <1>2, <1>3

\* A rewrite of a row is one revision more, or no change.
LEMMA RewriteIsRevision ==
  ASSUME StoreInv, NEW op \in RowOps(table), NEW r \in Rows
  PROVE  Rewritten(op, r) \in Rows /\ (Rewritten(op, r) # r => Rewritten(op, r).version = r.version + 1)
<1>1. \A q \in Rows : Touch(q) \in Rows /\ Touch(q).version = q.version + 1
  BY DEF Touch, Rows
<1>2. MarkDeleted(r) \in Rows /\ MarkDeleted(r).version = r.version + 1
  <2>1. [r EXCEPT !.dead = TRUE] \in Rows /\ [r EXCEPT !.dead = TRUE].version = r.version
    BY DEF Rows
  <2> QED BY <1>1, <2>1 DEF MarkDeleted
<1>3. Undelete(r) \in Rows /\ Undelete(r).version = r.version + 1
  <2>1. [r EXCEPT !.dead = FALSE] \in Rows /\ [r EXCEPT !.dead = FALSE].version = r.version
    BY DEF Rows
  <2> QED BY <1>1, <2>1 DEF Undelete
<1>4. SetSavedQueryFavourite(r) \in Rows
      /\ (SetSavedQueryFavourite(r) # r => SetSavedQueryFavourite(r).version = r.version + 1)
  <2>1. [r EXCEPT !.fav = TRUE] \in Rows /\ [r EXCEPT !.fav = TRUE].version = r.version
    BY DEF Rows
  <2> QED BY <1>1, <2>1 DEF SetSavedQueryFavourite
<1>5. op \in {"rename", "favourite", "delete", "record", "clear", "save_session", "clear_session"}
  BY DEF RowOps, StoreInv, TypeOK, Tables
<1>6. CASE op = "rename"
  BY <1>1, <1>6 DEF Rewritten, RenameSavedQuery
<1>7. CASE op = "favourite"
  BY <1>4, <1>7 DEF Rewritten
<1>8. CASE op \in {"delete", "clear", "clear_session"}
  BY <1>2, <1>8 DEF Rewritten, SoftDelete, ClearHistory, ClearSession
<1>9. CASE op \in {"record", "save_session"}
  BY <1>3, <1>9 DEF Rewritten, RecordHistory, SaveSession
<1> QED BY <1>5, <1>6, <1>7, <1>8, <1>9

\* A row is read whole and written whole.
LEMMA RowKeeps ==
  ASSUME StoreInv, NEW c \in Cmds, ReadRow(c) \/ WriteRow(c)
  PROVE  StoreInv'
<1>0. cmd[c] \in Doing /\ starts \in 0 .. MaxStarts /\ slot \in Host \cup {None} /\ open \in BOOLEAN
      /\ row \in Rows /\ edits \in Nat
  BY DEF StoreInv, ShapeOK, TypeOK, Rows
<1>1. CASE ReadRow(c)
  <2> DEFINE r == [cmd[c] EXCEPT !.pc = "write", !.seen = row]
  <2>1. cmd[c].pc = "work" /\ cmd[c].op \in RowOps(table) /\ cmd' = [cmd EXCEPT ![c] = r]
        /\ UNCHANGED <<db, lock, slot, open, table, starts, edits, outside, ran>>
    BY <1>1 DEF ReadRow, Keep, StoreInv, ShapeOK
  <2>2. row \in Seen
    BY <1>0 DEF Seen
  <2>3. r \in Doing /\ r.pc = "write" /\ r.op = cmd[c].op /\ r.seen = row
    BY <1>0, <2>2 DEF Doing, Points
  <2> HIDE DEF r
  <2>4. cmd' \in [Cmds -> Doing] /\ cmd'[c] = r /\ Others(c)
    BY <2>1, <2>3, Moved DEF StoreInv
  <2>5. TypeOK' /\ ShapeOK'
    BY <2>1, <2>4 DEF StoreInv, TypeOK, ShapeOK, db
  <2>6. LockInv' /\ SendInv'
    BY <2>1, <2>3, <2>4, LockKept, SendKept DEF db
  <2>7. SchemaInv' /\ ImportInv'
    <3>1. Knows(c)
      BY <2>1, <2>3, <2>4 DEF Knows, db, StoreInv, SchemaInv, MarkersTrue
    <3> QED BY <2>1, <2>4, <3>1, SchemaKept DEF db
  <2>8. TurnInv'
    <3>1. \A d \in Host : cmd'[d].pc \notin {"off", "acquire"} => slot' = d
      BY <2>1, <2>4 DEF StoreInv, TurnInv, Others, Cmds
    <3>2. \A d \in Cmds : cmd'[d].pc = "write" =>
             cmd'[d].op \in RowOps(table') /\ cmd'[d].seen \in Rows
      BY <1>0, <2>1, <2>3, <2>4 DEF StoreInv, TurnInv, Others
    <3>3. \A d \in Host : cmd'[d].pc = "write" /\ ~outside' => cmd'[d].seen = row'
      BY <2>1, <2>3, <2>4 DEF StoreInv, TurnInv, Others, Cmds, db
    <3>4. EditsKept'
      BY <2>1 DEF StoreInv, TurnInv, EditsKept, db
    <3> QED BY <3>1, <3>2, <3>3, <3>4 DEF TurnInv
  <2> QED BY <2>5, <2>6, <2>7, <2>8 DEF StoreInv
<1>2. CASE WriteRow(c)
  <2> DEFINE new == Rewritten(cmd[c].op, cmd[c].seen)
  <2>1. cmd[c].pc = "write" /\ cmd[c].op \in RowOps(table) /\ cmd[c].seen \in Rows
    BY <1>2 DEF WriteRow, StoreInv, TurnInv
  <2>2. CASE new = cmd[c].seen
    BY <1>2, <2>1, <2>2, EndKeeps DEF WriteRow, Keep, db
  <2>3. CASE new # cmd[c].seen
    <3>1. /\ row' = new /\ edits' = edits + 1 /\ outside' = (outside \/ c \in Cli) /\ Ends(c)
          /\ UNCHANGED <<table, schema, log, legacy, token, lock, open, starts, ran>>
      BY <1>2, <2>3 DEF WriteRow
    <3>2. new \in Rows /\ new.version = cmd[c].seen.version + 1
      BY <2>1, <2>3, RewriteIsRevision
    <3>3. cmd' \in [Cmds -> Doing] /\ cmd'[c] = Idle /\ Others(c) /\ slot' \in Host \cup {None}
      BY <3>1, Ended
    <3>4. cmd'[c].pc = "off"
      BY <3>3 DEF Idle
    <3> HIDE DEF new
    <3>5. TypeOK'
      BY <1>0, <3>1, <3>2, <3>3 DEF StoreInv, TypeOK, Rows
    <3>6. ShapeOK'
      BY <3>1, <3>3 DEF StoreInv, ShapeOK
    <3>7. LockInv' /\ SendInv'
      BY <2>1, <3>1, <3>3, <3>4, LockKept, SendKept
    <3>8. SchemaInv' /\ ImportInv'
      <4>1. Knows(c)
        BY <3>4 DEF Knows
      <4> QED BY <3>1, <3>3, <4>1, SchemaKept
    <3>9. TurnInv'
      <4>1. slot' = IF slot = c THEN None ELSE slot
        BY <3>1 DEF Ends
      <4>2. \A d \in Host : cmd'[d].pc \notin {"off", "acquire"} => slot' = d /\ (c \in Cli)
        BY <2>1, <3>3, <3>4, <4>1 DEF StoreInv, TurnInv, Others, Cmds
      <4>3. \A d \in Cmds : cmd'[d].pc = "write" =>
               cmd'[d].op \in RowOps(table') /\ cmd'[d].seen \in Rows
        BY <3>1, <3>3, <3>4 DEF StoreInv, TurnInv, Others
      <4>4. \A d \in Host : cmd'[d].pc = "write" /\ ~outside' => cmd'[d].seen = row'
        BY <3>1, <4>2
      <4>5. EditsKept'
        <5>1. SUFFICES ASSUME ~outside' PROVE row'.version = 1 + edits'
          BY DEF EditsKept
        <5>2. ~outside /\ c \in Host
          BY <3>1, <5>1 DEF Cmds
        <5>3. cmd[c].seen = row /\ row.version = 1 + edits
          BY <2>1, <5>2 DEF StoreInv, TurnInv, EditsKept
        <5> QED BY <1>0, <3>1, <3>2, <5>3
      <4> QED BY <4>2, <4>3, <4>4, <4>5 DEF TurnInv
    <3> QED BY <3>5, <3>6, <3>7, <3>8, <3>9 DEF StoreInv
  <2> QED BY <2>2, <2>3
<1> QED BY <1>1, <1>2

\* The tail's own hash is its place in the log.
LEMMA TailIsLength == ASSUME StoreInv PROVE LastHash(log) = Len(log) /\ Len(log) \in Nat
  <1>1. log \in Seq(Entries) /\ Len(log) \in Nat /\ DOMAIN log = 1 .. Len(log)
    BY DEF StoreInv, ShapeOK
  <1>2. CASE log = <<>>
    BY <1>2 DEF LastHash
  <1>3. CASE log # <<>>
    <2>1. Len(log) \in DOMAIN log
      BY <1>1, <1>3
    <2>2. log[Len(log)].hash = Len(log)
      BY <2>1 DEF StoreInv, LockInv
    <2> QED BY <1>1, <1>3, <2>2 DEF LastHash
  <1> QED BY <1>1, <1>2, <1>3

\* The append begins: it takes the file's lock and reads the tail.
LEMMA BeginKeeps ==
  ASSUME StoreInv, NEW c \in Cmds, BeginAppend(c)
  PROVE  StoreInv'
<1> DEFINE r == [cmd[c] EXCEPT !.pc = "append", !.seen = LastHash(log)]
<1>1. /\ cmd[c] \in Doing /\ cmd[c].pc = "work" /\ lock = None /\ lock' = c
      /\ cmd' = [cmd EXCEPT ![c] = r]
      /\ UNCHANGED <<db, slot, open, table, starts, edits, outside, ran>>
  BY DEF BeginAppend, Keep, StoreInv, ShapeOK
<1>2. r \in Doing /\ r.pc = "append" /\ r.seen = Len(log)
  <2>1. Len(log) \in Seen
    BY TailIsLength DEF Seen
  <2> QED BY <1>1, <2>1, TailIsLength DEF Doing, Points
<1> HIDE DEF r
<1>3. cmd' \in [Cmds -> Doing] /\ cmd'[c] = r /\ Others(c)
  BY <1>1, <1>2, Moved DEF StoreInv
<1>4. TypeOK' /\ ShapeOK'
  BY <1>1, <1>3 DEF StoreInv, TypeOK, ShapeOK, db
<1>5. LockInv'
  <2>1. \A d \in Cmds : cmd'[d].pc = "append" <=> d = c
    BY <1>1, <1>2, <1>3, AppStoreAssumption DEF StoreInv, LockInv, Others, Cmds
  <2> QED BY <1>1, <1>2, <1>3, <2>1 DEF StoreInv, LockInv, db
<1>6. SendInv'
  BY <1>1, <1>2, <1>3, SendKept DEF db
<1>7. SchemaInv' /\ ImportInv'
  <2>1. Knows(c)
    BY <1>1, <1>2, <1>3 DEF Knows, db, StoreInv, SchemaInv, MarkersTrue
  <2> QED BY <1>1, <1>3, <2>1, SchemaKept DEF db
<1>8. TurnInv'
  <2>1. Turns(c)
    BY <1>1, <1>3 DEF Turns, StoreInv, TurnInv
  <2> QED BY <1>1, <1>2, <1>3, <2>1, TurnKept DEF db
<1> QED BY <1>4, <1>5, <1>6, <1>7, <1>8 DEF StoreInv

\* The row is written and the lock let go: the row chains to the tail that was read.
LEMMA CommitKeeps ==
  ASSUME StoreInv, NEW c \in Cmds, CommitAppend(c)
  PROVE  StoreInv'
<1> DEFINE e == [hash |-> Len(log) + 1, prev |-> cmd[c].seen]
<1>1. /\ cmd[c] \in Doing /\ cmd[c].pc = "append" /\ lock = c /\ cmd[c].seen = Len(log)
      /\ log' = Append(log, e) /\ lock' = None /\ Step(c, "send")
      /\ UNCHANGED <<schema, row, legacy, token, slot, open, table, starts, edits, outside, ran>>
  BY DEF CommitAppend, Keep, StoreInv, ShapeOK, LockInv
<1>2. cmd' \in [Cmds -> Doing] /\ cmd'[c] = [cmd[c] EXCEPT !.pc = "send"] /\ Others(c)
  BY <1>1, Went DEF Points
<1>3. cmd'[c].pc = "send"
  BY <1>1, <1>2 DEF Doing
<1>4. e \in Entries /\ log \in Seq(Entries) /\ Len(log) \in Nat
  BY <1>1, TailIsLength DEF Entries, StoreInv, ShapeOK
<1>5. log' \in Seq(Entries) /\ Len(log') = Len(log) + 1
      /\ \A i \in 1 .. Len(log') : log'[i] = IF i = Len(log) + 1 THEN e ELSE log[i]
  <2> HIDE DEF e
  <2> QED BY <1>1, <1>4
<1>6. TypeOK' /\ ShapeOK'
  BY <1>1, <1>2, <1>5 DEF StoreInv, TypeOK, ShapeOK
<1>7. LockInv'
  <2>1. \A i \in DOMAIN log' : log'[i].hash = i /\ log'[i].prev = i - 1
    <3> SUFFICES ASSUME NEW i \in 1 .. Len(log') PROVE log'[i].hash = i /\ log'[i].prev = i - 1
      BY <1>5
    <3>1. CASE i = Len(log) + 1
      BY <1>1, <1>4, <1>5, <3>1
    <3>2. CASE i # Len(log) + 1
      <4>1. i \in DOMAIN log
        BY <1>4, <1>5, <3>2
      <4> QED BY <1>5, <3>2, <4>1 DEF StoreInv, LockInv
    <3> QED BY <3>1, <3>2
  <2>2. \A d \in Cmds : cmd'[d].pc # "append"
    BY <1>1, <1>2, <1>3 DEF StoreInv, LockInv, Others
  <2> QED BY <1>1, <2>1, <2>2, AppStoreAssumption DEF LockInv, Cmds
<1>8. SendInv'
  <2>1. c \notin Senders /\ Senders' = Senders \cup {c}
    BY <1>1, <1>2, <1>3 DEF Senders, Others
  <2>2. IsFiniteSet(Senders') /\ Cardinality(Senders') = Cardinality(Senders) + 1
    BY <2>1, FS_AddElement DEF StoreInv, SendInv
  <2>3. Cardinality(Senders) \in Nat
    BY FS_CardinalityType DEF StoreInv, SendInv
  <2> QED BY <1>1, <1>4, <1>5, <2>2, <2>3 DEF StoreInv, SendInv
<1>9. SchemaInv' /\ ImportInv'
  <2>1. Knows(c)
    BY <1>1, <1>3 DEF Knows, StoreInv, SchemaInv, MarkersTrue
  <2> QED BY <1>1, <1>2, <2>1, SchemaKept
<1>10. TurnInv'
  <2>1. Turns(c)
    BY <1>1 DEF Turns, StoreInv, TurnInv
  <2> QED BY <1>1, <1>2, <1>3, <2>1, TurnKept
<1> QED BY <1>6, <1>7, <1>8, <1>9, <1>10 DEF StoreInv

\* The statement goes to the server: its row in the log stays.
LEMMA SendKeeps ==
  ASSUME StoreInv, NEW c \in Cmds, Send(c)
  PROVE  StoreInv'
<1>1. /\ cmd[c].pc = "send" /\ ran' = ran + 1 /\ Ends(c)
      /\ UNCHANGED <<table, schema, row, log, legacy, token, lock, open, starts, edits, outside>>
  BY DEF Send, db
<1>2. cmd' \in [Cmds -> Doing] /\ cmd'[c] = Idle /\ Others(c) /\ slot' \in Host \cup {None}
  BY <1>1, Ended
<1>3. cmd'[c].pc = "off"
  BY <1>2 DEF Idle
<1>4. TypeOK' /\ ShapeOK'
  BY <1>1, <1>2 DEF StoreInv, TypeOK, ShapeOK
<1>5. LockInv'
  BY <1>1, <1>2, <1>3, LockKept
<1>6. SendInv'
  <2>1. c \in Senders /\ Senders' = Senders \ {c}
    BY <1>1, <1>2, <1>3 DEF Senders, Others
  <2>2. IsFiniteSet(Senders') /\ Cardinality(Senders') = Cardinality(Senders) - 1
    BY <2>1, FS_RemoveElement DEF StoreInv, SendInv
  <2>3. Cardinality(Senders) \in Nat /\ Len(log) \in Nat
    BY FS_CardinalityType DEF StoreInv, SendInv, ShapeOK
  <2> QED BY <1>1, <2>2, <2>3 DEF StoreInv, SendInv
<1>7. SchemaInv' /\ ImportInv'
  <2>1. Knows(c)
    BY <1>3 DEF Knows
  <2> QED BY <1>1, <1>2, <2>1, SchemaKept
<1>8. TurnInv'
  <2>1. Turns(c)
    BY <1>1, <1>3 DEF Turns, Ends
  <2> QED BY <1>1, <1>2, <1>3, <2>1, TurnKept
<1> QED BY <1>4, <1>5, <1>6, <1>7, <1>8 DEF StoreInv

\* A command goes on without touching the file: an import's next stage, a token served.
LEMMA StageKeeps ==
  ASSUME StoreInv, NEW c \in Cmds, NEW pc \in {"backup", "mark", "serving"}, NEW seen \in Seen,
         cmd[c].pc \in {"work", "merge"}, pc = "mark" => cmd[c].pc = "merge" /\ FileRows \subseteq legacy.taken,
         cmd' = [cmd EXCEPT ![c] = [cmd[c] EXCEPT !.pc = pc, !.seen = seen]],
         UNCHANGED <<db, lock, slot, open>>, Keep
  PROVE  StoreInv'
  <1> DEFINE r == [cmd[c] EXCEPT !.pc = pc, !.seen = seen]
  <1>1. r \in Doing /\ r.pc = pc
    <2>1. cmd[c] \in Doing /\ pc \in Points
      BY DEF StoreInv, ShapeOK, Points
    <2> QED BY <2>1 DEF Doing
  <1>2. cmd' \in [Cmds -> Doing] /\ cmd'[c] = r /\ Others(c)
    BY <1>1, Moved DEF StoreInv
  <1>3. Knows(c)
    BY <1>1, <1>2 DEF Knows, db, StoreInv, SchemaInv, ImportInv, MarkersTrue
  <1>4. Turns(c)
    BY DEF Turns, StoreInv, TurnInv
  <1>5. starts' \in 0 .. MaxStarts /\ open' \in BOOLEAN /\ slot' \in Host \cup {None}
    BY DEF Keep, StoreInv, TypeOK
  <1> HIDE DEF r
  <1> QED BY <1>1, <1>2, <1>3, <1>4, <1>5, Quiet DEF Keep

\* The import changes the file: a copy, a row or the marker, each of which only grows.
LEMMA LegacyKeeps ==
  ASSUME StoreInv, NEW c \in Cmds, Others(c), cmd' \in [Cmds -> Doing],
         slot' \in Host \cup {None}, Turns(c), Knows(c), cmd[c].pc # "append",
         cmd'[c].pc \notin {"append", "send", "write"},
         legacy' \in [backup : BOOLEAN, taken : SUBSET FileRows, marker : BOOLEAN],
         legacy.backup => legacy'.backup, legacy.taken \subseteq legacy'.taken,
         legacy'.marker => legacy'.backup /\ FileRows \subseteq legacy'.taken,
         UNCHANGED <<schema, row, log, token, lock, open>>, Keep
  PROVE  StoreInv'
  <1>1. TypeOK' /\ ShapeOK'
    BY DEF StoreInv, TypeOK, ShapeOK, Keep
  <1>2. LockInv' /\ SendInv' /\ TurnInv'
    BY LockKept, SendKept, TurnKept DEF Keep
  <1>3. \A d \in Cmds : Knows(d)
    BY DEF StoreInv, SchemaInv, ImportInv, MarkersTrue, Knows, Others
  <1>4. SchemaInv' /\ ImportInv'
    BY <1>3 DEF StoreInv, SchemaInv, ImportInv, MarkersTrue, Knows
  <1> QED BY <1>1, <1>2, <1>4 DEF StoreInv

\* The import of the old connections file, stage by stage.
LEMMA ImportKeeps ==
  ASSUME StoreInv, NEW c \in Cmds,
         ImportCheck(c) \/ ImportBackup(c) \/ ImportMerge(c) \/ ImportVerify(c) \/ ImportMark(c)
  PROVE  StoreInv'
<1>0. cmd[c] \in Doing /\ cmd[c].seen \in Seen /\ slot \in Host \cup {None}
      /\ legacy \in [backup : BOOLEAN, taken : SUBSET FileRows, marker : BOOLEAN]
  BY DEF StoreInv, ShapeOK, TypeOK, Doing
<1>1. CASE ImportCheck(c)
  <2>1. CASE Ends(c)
    BY <1>1, <2>1, EndKeeps DEF ImportCheck
  <2>2. CASE Step(c, "backup") /\ slot' = slot
    <3>1. cmd' = [cmd EXCEPT ![c] = [cmd[c] EXCEPT !.pc = "backup", !.seen = cmd[c].seen]]
      BY <2>2 DEF Step, StoreInv, ShapeOK, Doing
    <3> QED BY <1>0, <1>1, <2>2, <3>1, StageKeeps DEF ImportCheck
  <2> QED BY <1>1, <2>1, <2>2 DEF ImportCheck
<1>2. CASE ImportBackup(c)
  <2>1. CASE Ends(c) /\ UNCHANGED legacy
    BY <1>2, <2>1, EndKeeps DEF ImportBackup, db
  <2>2. CASE /\ legacy' = [legacy EXCEPT !.backup = TRUE]
             /\ cmd' = [cmd EXCEPT ![c].pc = "merge", ![c].seen = {}] /\ slot' = slot
    <3> DEFINE r == [cmd[c] EXCEPT !.pc = "merge", !.seen = {}]
    <3>1. {} \in Seen
      BY DEF Seen
    <3>2. r \in Doing /\ r.pc = "merge" /\ r.seen = {}
      BY <1>0, <3>1 DEF Doing, Points
    <3>3. cmd' = [cmd EXCEPT ![c] = r]
      BY <2>2 DEF StoreInv, ShapeOK
    <3> HIDE DEF r
    <3>4. cmd' \in [Cmds -> Doing] /\ cmd'[c] = r /\ Others(c)
      BY <3>2, <3>3, Moved DEF StoreInv
    <3>5. legacy' \in [backup : BOOLEAN, taken : SUBSET FileRows, marker : BOOLEAN]
          /\ legacy'.backup /\ legacy'.taken = legacy.taken /\ legacy'.marker = legacy.marker
      BY <1>0, <2>2
    <3>6. Knows(c)
      BY <1>2, <3>2, <3>4, <3>5 DEF ImportBackup, Knows, StoreInv, SchemaInv, MarkersTrue
    <3>7. Turns(c)
      BY <1>2, <2>2 DEF ImportBackup, Turns, StoreInv, TurnInv
    <3>8. legacy'.marker => legacy'.backup /\ FileRows \subseteq legacy'.taken
      BY <3>5 DEF StoreInv, SchemaInv, MarkersTrue
    <3> QED BY <1>0, <1>2, <2>2, <3>2, <3>4, <3>5, <3>6, <3>7, <3>8, LegacyKeeps DEF ImportBackup
  <2> QED BY <1>2, <2>1, <2>2 DEF ImportBackup
<1>3. CASE ImportMerge(c)
  <2>1. PICK q \in FileRows \ cmd[c].seen :
          /\ legacy' = [legacy EXCEPT !.taken = @ \cup {q}]
          /\ cmd' = [cmd EXCEPT ![c].seen = @ \cup {q}]
    BY <1>3 DEF ImportMerge
  <2> DEFINE r == [cmd[c] EXCEPT !.seen = @ \cup {q}]
  <2>2. cmd[c].pc = "merge" /\ cmd[c].seen \in SUBSET FileRows /\ legacy.backup
    BY <1>3 DEF ImportMerge, StoreInv, ImportInv
  <2>3. cmd[c].seen \cup {q} \in SUBSET FileRows /\ cmd[c].seen \cup {q} \in Seen
    BY <2>2 DEF Seen
  <2>4. r \in Doing /\ r.pc = "merge" /\ r.seen \in SUBSET FileRows
    BY <1>0, <2>2, <2>3 DEF Doing
  <2>5. cmd' = [cmd EXCEPT ![c] = r]
    BY <2>1 DEF StoreInv, ShapeOK
  <2> HIDE DEF r
  <2>6. cmd' \in [Cmds -> Doing] /\ cmd'[c] = r /\ Others(c)
    BY <2>4, <2>5, Moved DEF StoreInv
  <2>7. legacy' \in [backup : BOOLEAN, taken : SUBSET FileRows, marker : BOOLEAN]
        /\ legacy'.backup = legacy.backup /\ legacy'.taken = legacy.taken \cup {q}
        /\ legacy'.marker = legacy.marker
    BY <1>0, <2>1
  <2>8. Knows(c)
    BY <1>3, <2>2, <2>4, <2>6, <2>7 DEF ImportMerge, Knows, StoreInv, SchemaInv, MarkersTrue
  <2>9. Turns(c)
    BY <1>3, <2>2 DEF ImportMerge, Turns, StoreInv, TurnInv
  <2>10. legacy'.marker => legacy'.backup /\ FileRows \subseteq legacy'.taken
    BY <2>7 DEF StoreInv, SchemaInv, MarkersTrue
  <2> QED BY <1>0, <1>3, <2>2, <2>4, <2>6, <2>7, <2>8, <2>9, <2>10, LegacyKeeps DEF ImportMerge
<1>4. CASE ImportVerify(c)
  <2>1. CASE Ends(c)
    BY <1>4, <2>1, EndKeeps DEF ImportVerify
  <2>2. CASE FileRows \subseteq legacy.taken /\ Step(c, "mark") /\ slot' = slot
    <3>1. cmd' = [cmd EXCEPT ![c] = [cmd[c] EXCEPT !.pc = "mark", !.seen = cmd[c].seen]]
      BY <2>2 DEF Step, StoreInv, ShapeOK, Doing
    <3> QED BY <1>0, <1>4, <2>2, <3>1, StageKeeps DEF ImportVerify
  <2> QED BY <1>4, <2>1, <2>2 DEF ImportVerify
<1>5. CASE ImportMark(c)
  <2>1. legacy' \in [backup : BOOLEAN, taken : SUBSET FileRows, marker : BOOLEAN]
        /\ legacy'.backup = legacy.backup /\ legacy'.taken = legacy.taken
    BY <1>0, <1>5 DEF ImportMark
  <2>2. legacy.backup /\ FileRows \subseteq legacy.taken
    BY <1>5 DEF ImportMark, StoreInv, ImportInv
  <2>3. cmd' \in [Cmds -> Doing] /\ cmd'[c] = Idle /\ Others(c) /\ slot' \in Host \cup {None}
    BY <1>5, Ended DEF ImportMark
  <2>4. cmd'[c].pc = "off"
    BY <2>3 DEF Idle
  <2>5. Knows(c) /\ Turns(c)
    BY <1>5, <2>4 DEF Knows, Turns, ImportMark, Ends
  <2> QED BY <1>5, <2>1, <2>2, <2>3, <2>4, <2>5, LegacyKeeps DEF ImportMark
<1> QED BY <1>1, <1>2, <1>3, <1>4, <1>5

\* The token is resolved, touched and revoked.
LEMMA TokenKeeps ==
  ASSUME StoreInv, NEW c \in Cmds,
         ResolveToken(c) \/ TouchToken(c) \/ ServeEnds(c) \/ RevokeToken(c)
  PROVE  StoreInv'
<1>0. cmd[c] \in Doing /\ token \in Tokens /\ slot \in Host \cup {None}
  BY DEF StoreInv, ShapeOK, TypeOK
<1>1. CASE ResolveToken(c)
  <2>1. CASE Ends(c)
    BY <1>1, <2>1, EndKeeps DEF ResolveToken
  <2>2. CASE cmd' = [cmd EXCEPT ![c].pc = "serving", ![c].seen = token] /\ slot' = slot
    <3>1. cmd' = [cmd EXCEPT ![c] = [cmd[c] EXCEPT !.pc = "serving", !.seen = token]]
      BY <2>2 DEF StoreInv, ShapeOK
    <3>2. token \in Seen
      BY <1>0 DEF Seen
    <3> QED BY <1>1, <2>2, <3>1, <3>2, StageKeeps DEF ResolveToken
  <2> QED BY <1>1, <2>1, <2>2 DEF ResolveToken
<1>2. CASE ServeEnds(c)
  BY <1>2, EndKeeps DEF ServeEnds
<1>3. CASE TouchToken(c)
  <2>1. token' \in Tokens
    BY <1>0, <1>3 DEF TouchToken, Tokens
  <2>2. UNCHANGED <<schema, row, log, legacy, lock, slot, open, cmd, table, starts, edits, outside, ran>>
    BY <1>3 DEF TouchToken, Keep
  <2>3. TypeOK' /\ ShapeOK'
    BY <2>1, <2>2 DEF StoreInv, TypeOK, ShapeOK
  <2>4. LockInv' /\ SendInv'
    BY <2>2 DEF StoreInv, LockInv, SendInv, Senders
  <2>5. SchemaInv' /\ ImportInv'
    BY <2>2 DEF StoreInv, SchemaInv, ImportInv, MarkersTrue
  <2>6. TurnInv'
    BY <2>2 DEF StoreInv, TurnInv, EditsKept
  <2> QED BY <2>3, <2>4, <2>5, <2>6 DEF StoreInv
<1>4. CASE RevokeToken(c)
  <2>1. token' \in Tokens
    BY <1>0, <1>4 DEF RevokeToken, Tokens
  <2>2. /\ cmd[c].pc = "work" /\ Ends(c)
        /\ UNCHANGED <<schema, row, log, legacy, lock, open, table, starts, edits, outside, ran>>
    BY <1>4 DEF RevokeToken, Keep
  <2>3. cmd' \in [Cmds -> Doing] /\ cmd'[c] = Idle /\ Others(c) /\ slot' \in Host \cup {None}
    BY <2>2, Ended
  <2>4. cmd'[c].pc = "off"
    BY <2>3 DEF Idle
  <2>5. Knows(c) /\ Turns(c)
    BY <2>2, <2>4 DEF Knows, Turns, Ends
  <2>6. TypeOK' /\ ShapeOK'
    BY <2>1, <2>2, <2>3 DEF StoreInv, TypeOK, ShapeOK
  <2>7. LockInv' /\ SendInv' /\ TurnInv' /\ SchemaInv' /\ ImportInv'
    BY <2>2, <2>3, <2>4, <2>5, LockKept, SendKept, TurnKept, SchemaKept
  <2> QED BY <2>6, <2>7 DEF StoreInv
<1> QED BY <1>1, <1>2, <1>3, <1>4

\* A process dies: its commands, its locks and its handle go, and the file stays.
LEMMA CrashKeeps ==
  ASSUME StoreInv, NEW dead, dead = Host \/ (\E c \in Cli : dead = {c}), Crash(dead)
  PROVE  StoreInv'
<1>1. /\ cmd' = [c \in Cmds |-> IF c \in dead THEN Idle ELSE cmd[c]]
      /\ lock' = IF lock \in dead THEN None ELSE lock
      /\ slot' = IF slot \in dead THEN None ELSE slot
      /\ open' = (open /\ dead # Host)
      /\ UNCHANGED <<schema, row, log, legacy, token, table, starts, edits, outside, ran>>
  BY DEF Crash, Keep, db
<1>2. \A c \in Cmds : IF c \in dead THEN cmd'[c].pc = "off" ELSE cmd'[c] = cmd[c]
  BY <1>1 DEF Idle
<1>3. cmd' \in [Cmds -> Doing]
  BY <1>1, IdleIsDoing DEF StoreInv, ShapeOK
<1>4. TypeOK' /\ ShapeOK'
  BY <1>1, <1>3 DEF StoreInv, TypeOK, ShapeOK
<1>5. LockInv'
  <2>1. \A c \in Cmds : cmd'[c].pc = "append" <=> lock' = c
    BY <1>1, <1>2, AppStoreAssumption DEF StoreInv, LockInv, Cmds
  <2> QED BY <1>1, <1>2, <2>1 DEF StoreInv, LockInv
<1>6. SendInv'
  <2>1. Senders' \subseteq Senders
    BY <1>2 DEF Senders
  <2>2. IsFiniteSet(Senders') /\ Cardinality(Senders') <= Cardinality(Senders)
    BY <2>1, FS_Subset DEF StoreInv, SendInv
  <2>3. Cardinality(Senders') \in Nat /\ Cardinality(Senders) \in Nat /\ Len(log) \in Nat
    BY <2>2, FS_CardinalityType DEF StoreInv, SendInv, ShapeOK
  <2> QED BY <1>1, <2>2, <2>3 DEF StoreInv, SendInv
<1>7. SchemaInv' /\ ImportInv'
  <2>1. MarkersTrue'
    BY <1>1, <1>2 DEF StoreInv, SchemaInv, MarkersTrue
  <2>2. \A c \in Cmds : cmd'[c].pc \in {"history", "migrate"} => cmd'[c].at <= schema'.version
    BY <1>1, <1>2 DEF StoreInv, SchemaInv
  <2>3. ImportInv'
    BY <1>1, <1>2 DEF StoreInv, ImportInv
  <2> QED BY <1>1, <2>1, <2>2, <2>3 DEF StoreInv, SchemaInv
<1>8. TurnInv'
  <2>1. \A c \in Host : cmd'[c].pc \notin {"off", "acquire"} => slot' = c
    BY <1>1, <1>2 DEF StoreInv, TurnInv, Cmds
  <2>2. \A c \in Cmds : cmd'[c].pc = "write" =>
           cmd'[c].op \in RowOps(table') /\ cmd'[c].seen \in Rows
    BY <1>1, <1>2 DEF StoreInv, TurnInv
  <2>3. \A c \in Host : cmd'[c].pc = "write" /\ ~outside' => cmd'[c].seen = row'
    BY <1>1, <1>2 DEF StoreInv, TurnInv, Cmds
  <2>4. EditsKept'
    BY <1>1 DEF StoreInv, TurnInv, EditsKept
  <2> QED BY <2>1, <2>2, <2>3, <2>4 DEF TurnInv
<1> QED BY <1>4, <1>5, <1>6, <1>7, <1>8 DEF StoreInv

LEMMA BusyKeeps ==
  ASSUME StoreInv, NEW c \in Cmds, Busy(c)
  PROVE  StoreInv'
  BY EndKeeps DEF Busy

LEMMA StoreNext == StoreInv /\ [Next]_vars => StoreInv'
<1> SUFFICES ASSUME StoreInv, [Next]_vars PROVE StoreInv'
  OBVIOUS
<1>1. CASE \E c \in Cmds : \E op \in RowOps(table) \cup {"run", "import", "serve", "revoke"} : Start(c, op)
  BY <1>1, OpenKeeps
<1>2. ASSUME NEW c \in Cmds,
             \/ Acquire(c) \/ ReadVersion(c) \/ CheckHistory(c) \/ Migrate(c)
             \/ ReadRow(c) \/ WriteRow(c)
             \/ BeginAppend(c) \/ Busy(c) \/ CommitAppend(c) \/ Send(c)
             \/ ImportCheck(c) \/ ImportBackup(c) \/ ImportMerge(c) \/ ImportVerify(c) \/ ImportMark(c)
             \/ ResolveToken(c) \/ TouchToken(c) \/ ServeEnds(c) \/ RevokeToken(c)
      PROVE  StoreInv'
  BY <1>2, OpenKeeps, MigrateKeeps, RowKeeps, BeginKeeps, BusyKeeps, CommitKeeps, SendKeeps,
     ImportKeeps, TokenKeeps
<1>3. CASE Crash(Host) \/ \E c \in Cli : Crash({c})
  BY <1>3, CrashKeeps
<1>4. CASE UNCHANGED vars
  <2>1. TypeOK' /\ ShapeOK'
    BY <1>4 DEF StoreInv, TypeOK, ShapeOK, vars, db
  <2>2. LockInv' /\ SendInv'
    BY <1>4 DEF StoreInv, LockInv, SendInv, Senders, vars, db
  <2>3. SchemaInv' /\ ImportInv'
    BY <1>4 DEF StoreInv, SchemaInv, ImportInv, MarkersTrue, vars, db
  <2>4. TurnInv'
    BY <1>4 DEF StoreInv, TurnInv, EditsKept, vars, db
  <2> QED BY <2>1, <2>2, <2>3, <2>4 DEF StoreInv
<1> QED BY <1>1, <1>2, <1>3, <1>4 DEF Next

\* The invariant all the others follow from, for every number of commands, builds and migrations.
THEOREM StoreInvariant == Spec => []StoreInv
  BY StoreInit, StoreNext, PTL DEF Spec

\* Every variable keeps its type whatever commands run and die (crates/qh-storage).
THEOREM StoreTypes == Spec => []TypeOK
<1>1. StoreInv => TypeOK
  BY DEF StoreInv
<1> QED BY <1>1, StoreInvariant, PTL

\* Each row of the decision log chains to the one before it, and every statement sent has its
\* decision in it (append_execution, guard_confirmed).
THEOREM LogChains == Spec => []LogIsChain
<1>1. ASSUME StoreInv PROVE LogIsChain
  <2>1. \A i \in DOMAIN log : log[i].prev = (IF i = 1 THEN 0 ELSE log[i - 1].hash)
    <3> SUFFICES ASSUME NEW i \in DOMAIN log
                 PROVE  log[i].prev = (IF i = 1 THEN 0 ELSE log[i - 1].hash)
      OBVIOUS
    <3>1. log \in Seq(Entries) /\ DOMAIN log = 1 .. Len(log) /\ Len(log) \in Nat
      BY <1>1 DEF StoreInv, ShapeOK
    <3>2. i # 1 => i - 1 \in DOMAIN log
      BY <3>1
    <3> QED BY <1>1, <3>1, <3>2 DEF StoreInv, LockInv
  <2>2. ran <= Len(log)
    <3>1. Cardinality(Senders) \in Nat /\ Len(log) \in Nat /\ ran \in Nat
      BY <1>1, FS_CardinalityType DEF StoreInv, SendInv, ShapeOK
    <3> QED BY <1>1, <3>1 DEF StoreInv, SendInv
  <2> QED BY <2>1, <2>2 DEF LogIsChain
<1> QED BY <1>1, StoreInvariant, PTL

\* The markers of the migrations and of the import say what was done (migrate::run,
\* import_connections).
THEOREM MarkersHold == Spec => []MarkersTrue
<1>1. StoreInv => MarkersTrue
  BY DEF StoreInv, SchemaInv
<1> QED BY <1>1, StoreInvariant, PTL

\* No command of the host loses a revision another of its commands acknowledged (SharedStorage).
THEOREM NoEditLost == Spec => []EditsKept
<1>1. StoreInv => EditsKept
  BY DEF StoreInv, TurnInv
<1> QED BY <1>1, StoreInvariant, PTL

\* A longer log keeps the rows it had.
LEMMA AppendKeeps ==
  ASSUME NEW s \in Seq(Entries), NEW e \in Entries
  PROVE  Len(s) <= Len(Append(s, e)) /\ SubSeq(Append(s, e), 1, Len(s)) = s
  <1>1. Append(s, e) \in Seq(Entries) /\ Len(Append(s, e)) = Len(s) + 1 /\ Len(s) \in Nat
        /\ \A i \in 1 .. Len(s) : Append(s, e)[i] = s[i]
    OBVIOUS
  <1>2. SubSeq(Append(s, e), 1, Len(s)) \in Seq(Entries)
        /\ Len(SubSeq(Append(s, e), 1, Len(s))) = Len(s)
        /\ \A i \in 1 .. Len(s) : SubSeq(Append(s, e), 1, Len(s))[i] = Append(s, e)[i]
    BY <1>1
  <1> QED BY <1>1, <1>2, SeqEqual

\* A step of the action property: what is on disk is kept.
Word ==
    /\ token.revoked => token'.revoked
    /\ legacy.marker => legacy'.marker
    /\ Len(log) <= Len(log') /\ SubSeq(log', 1, Len(log)) = log
    /\ schema.version <= schema'.version

LEMMA StepKeepsWord == StoreInv /\ [Next]_vars => Word
<1> SUFFICES ASSUME StoreInv, [Next]_vars PROVE Word
  OBVIOUS
<1>0. /\ token \in Tokens /\ schema.version \in Nat /\ log \in Seq(Entries) /\ Len(log) \in Nat
      /\ legacy \in [backup : BOOLEAN, taken : SUBSET FileRows, marker : BOOLEAN]
  BY DEF StoreInv, ShapeOK
<1>1. SubSeq(log, 1, Len(log)) = log
  BY <1>0, SubSeqFull
<1>2. CASE UNCHANGED <<schema, log, legacy, token>>
  BY <1>0, <1>1, <1>2 DEF Word
<1>3. ASSUME NEW c \in Cmds, Migrate(c) PROVE Word
  <2>1. UNCHANGED <<log, legacy, token>>
    BY <1>3 DEF Migrate
  <2>2. CASE UNCHANGED schema
    BY <1>2, <2>1, <2>2
  <2>3. CASE cmd[c].at + 1 \notin schema.tables /\ Apply(cmd[c].at + 1)
    <3>1. cmd[c].at \in Nat /\ cmd[c].at <= schema.version
      BY <1>3 DEF Migrate, StoreInv, SchemaInv, ShapeOK, Doing
    <3>2. schema'.version = schema.version + 1
      BY <2>3, <3>1, NextMigration DEF Apply
    <3> QED BY <1>0, <1>1, <2>1, <3>2 DEF Word
  <2> QED BY <1>3, <2>2, <2>3 DEF Migrate
<1>4. ASSUME NEW c \in Cmds, CommitAppend(c) PROVE Word
  <2> DEFINE e == [hash |-> Len(log) + 1, prev |-> cmd[c].seen]
  <2>1. log' = Append(log, e) /\ UNCHANGED <<schema, legacy, token>>
    BY <1>4 DEF CommitAppend
  <2>2. e \in Entries
    BY <1>0, <1>4 DEF CommitAppend, Entries, StoreInv, LockInv
  <2> HIDE DEF e
  <2> QED BY <1>0, <2>1, <2>2, AppendKeeps DEF Word
<1>5. ASSUME NEW c \in Cmds, ImportBackup(c) \/ ImportMerge(c) \/ ImportMark(c) PROVE Word
  <2>1. UNCHANGED <<schema, log, token>>
    BY <1>5 DEF ImportBackup, ImportMerge, ImportMark
  <2>2. legacy.marker => legacy'.marker
    BY <1>0, <1>5 DEF ImportBackup, ImportMerge, ImportMark
  <2> QED BY <1>0, <1>1, <2>1, <2>2 DEF Word
<1>6. ASSUME NEW c \in Cmds, TouchToken(c) \/ RevokeToken(c) PROVE Word
  <2>1. UNCHANGED <<schema, log, legacy>>
    BY <1>6 DEF TouchToken, RevokeToken
  <2>2. token.revoked => token'.revoked
    BY <1>0, <1>6 DEF TouchToken, RevokeToken, Tokens
  <2> QED BY <1>0, <1>1, <2>1, <2>2 DEF Word
<1>7. ASSUME NEW c \in Cmds, NEW op, Start(c, op) PROVE Word
  BY <1>2, <1>7 DEF Start, db
<1>8. ASSUME NEW c \in Cmds,
             \/ Acquire(c) \/ ReadVersion(c) \/ CheckHistory(c) \/ ReadRow(c) \/ WriteRow(c)
             \/ BeginAppend(c) \/ Busy(c) \/ Send(c) \/ ImportCheck(c) \/ ImportVerify(c)
             \/ ResolveToken(c) \/ ServeEnds(c)
      PROVE  Word
  BY <1>2, <1>8 DEF Acquire, ReadVersion, CheckHistory, ReadRow, WriteRow, BeginAppend, Busy, Send,
     ImportCheck, ImportVerify, ResolveToken, ServeEnds, db
<1>9. ASSUME NEW dead, Crash(dead) PROVE Word
  BY <1>2, <1>9 DEF Crash, db
<1>10. CASE UNCHANGED vars
  BY <1>2, <1>10 DEF vars, db
<1> QED BY <1>3, <1>4, <1>5, <1>6, <1>7, <1>8, <1>9, <1>10 DEF Next

\* What one process put on disk no other undoes: a revocation, the import's marker, a logged
\* decision, a migration (touch_mcp_token, append_execution, migrate::run).
THEOREM DiskWordKept == Spec => WordKept
<1>1. StoreInv /\ [Next]_vars => [Word]_vars
  BY StepKeepsWord
<1>2. WordKept <=> [][Word]_vars
  BY DEF WordKept, Word
<1> QED BY <1>1, <1>2, StoreInvariant, PTL DEF Spec

-----------------------------------------------------------------------------
(* The MCP server, of MCAppStore: two worlds that agree on what the token may name. *)

McShape ==
    /\ mcStore \in [Mc!Worlds -> [Mc!Ids -> RowType \cup {None}]]
    /\ mcKeychain \in [Mc!Worlds -> [Mc!Ids -> Nat]]

\* What the two worlds have in common.
McTwins ==
    /\ \A i \in Mc!Ids : i \in mcToken.allow => mcStore[1][i] = mcStore[2][i]
                                                /\ mcKeychain[1][i] = mcKeychain[2][i]
    /\ mcFound[1] = mcFound[2] /\ mcSettings[1] = mcSettings[2]
    /\ Mc!NothingOutside

\* The fields of a call's settings.
HasFields(s) ==
    s = [id |-> s.id, kind |-> s.kind, host |-> s.host, database |-> s.database,
         env |-> s.env, bound |-> s.bound, ssh |-> s.ssh,
         secrets |-> [password |-> s.secrets.password, jwt |-> s.secrets.jwt,
                      sshPassword |-> s.secrets.sshPassword, passphrase |-> s.secrets.passphrase],
         mode |-> s.mode]

\* The row that a call goes on with, and its settings.
RowGood(w) ==
    LET f == mcFound[w] IN
    /\ f.ok /\ f.row \in RowType
    /\ f.row.kind = "postgres" /\ f.row.own # "" => f.catalog = f.row.own
CallGood(s, w) ==
    /\ HasFields(s)
    /\ s.id \in mcToken.allow /\ s.bound \in 1 .. Mc!Longest
    /\ \A what \in {"password", "jwt", "sshPassword"} :
         s.secrets[what] # None => s.secrets[what].account = s.id
    /\ s.kind = "postgres" /\ mcFound[w].row.own # "" => s.database = mcFound[w].row.own
    /\ s.kind = "trino" /\ s.env.sslmode = "prefer" => ~s.env.insecure

McFlow ==
    /\ mcPc # "idle" => Mc!NeedsConnection(mcRequest) /\ \A w \in Mc!Worlds : mcSent[w] = None
    /\ mcPc \in {"secrets", "run"} =>
         /\ mcRequest.id \in Mc!Ids /\ mcRequest.id \in mcToken.allow
         /\ \A w \in Mc!Worlds : RowGood(w)
    /\ mcPc = "run" => \A w \in Mc!Worlds : CallGood(mcSettings[w], w)
                                            /\ mcSettings[w].mode = "read_only"

McInv == McShape /\ McTwins /\ McFlow /\ Mc!CallsConfined

LEMMA McFirst == Mc!Init => McInv
<1> SUFFICES ASSUME Mc!Init PROVE McInv
  OBVIOUS
<1> USE DEF Mc!Worlds, Mc!Ids
<1>1. SavedRows \subseteq RowType
  BY McpAssumption DEF RowType
<1>2. McShape
  <2>1. mcStore \in [Mc!Worlds -> [Mc!Ids -> RowType \cup {None}]]
    BY <1>1 DEF Mc!Init
  <2> QED BY <2>1 DEF Mc!Init, McShape
<1>3. McTwins
  BY DEF Mc!Init, McTwins, Mc!NothingOutside, Mc!AllowsConnection
<1>4. McFlow
  BY DEF Mc!Init, McFlow
<1>5. Mc!CallsConfined
  BY DEF Mc!Init, Mc!CallsConfined
<1> QED BY <1>2, <1>3, <1>4, <1>5 DEF McInv

\* What the store and the arguments say is the same in both worlds, of an id the token names.
LEMMA TwinRows ==
    ASSUME McTwins, NEW r, r.id \in mcToken.allow
    PROVE  Mc!Known(1, r) = Mc!Known(2, r)
BY DEF McTwins, Mc!Known

LEMMA TwinLists == McTwins => Mc!VisibleConnections(1) = Mc!VisibleConnections(2)
<1> SUFFICES ASSUME McTwins PROVE Mc!VisibleConnections(1) = Mc!VisibleConnections(2)
  OBVIOUS
<1>1. {j \in Mc!Ids : Mc!Alive(1, j) /\ Mc!AllowsConnection(j)}
        = {j \in Mc!Ids : Mc!Alive(2, j) /\ Mc!AllowsConnection(j)}
  BY DEF McTwins, Mc!Alive, Mc!AllowsConnection
<1>2. \A j \in Mc!Ids : Mc!AllowsConnection(j) => Mc!Shown(1, j) = Mc!Shown(2, j)
  BY DEF McTwins, Mc!Shown, Mc!AllowsConnection
<1> QED BY <1>1, <1>2 DEF Mc!VisibleConnections

LEMMA TwinAnswers == ASSUME McTwins, NEW r PROVE Mc!AnswerAtOnce(1, r) = Mc!AnswerAtOnce(2, r)
<1>1. Mc!VisibleConnections(1) = Mc!VisibleConnections(2)
  BY TwinLists
<1>2. Mc!ResourcesOf(1) = Mc!ResourcesOf(2)
  BY <1>1 DEF Mc!ResourcesOf
<1>3. Mc!ReadResource(1, r) = Mc!ReadResource(2, r)
  <2>1. \A S, T : S = T => (CHOOSE x \in S : TRUE) = (CHOOSE x \in T : TRUE)
    OBVIOUS
  <2>2. {it \in Mc!VisibleConnections(1) : it.id = r.id}
          = {it \in Mc!VisibleConnections(2) : it.id = r.id}
    BY <1>1
  <2>3. (CHOOSE it \in {it \in Mc!VisibleConnections(1) : it.id = r.id} : TRUE)
          = (CHOOSE it \in {it \in Mc!VisibleConnections(2) : it.id = r.id} : TRUE)
    BY <2>1, <2>2
  <2> QED BY <1>1, <2>2, <2>3 DEF Mc!ReadResource
<1>4. Mc!CallAtOnce(1, r) = Mc!CallAtOnce(2, r)
  BY <1>1 DEF Mc!CallAtOnce
<1> QED BY <1>2, <1>3, <1>4, Zenon DEF Mc!AnswerAtOnce

LEMMA AskKeeps == ASSUME McInv, NEW r \in Mc!Requests, Mc!Ask(r) PROVE McInv'
<1> USE DEF McInv
<1>1. McShape'
  BY DEF Mc!Ask, McShape
<1>2. McTwins'
  BY TwinAnswers DEF Mc!Ask, McTwins, Mc!NothingOutside, Mc!Worlds
<1>3. McFlow'
  BY DEF Mc!Ask, McFlow, Mc!NeedsConnection, Mc!ReadsThroughTool, Mc!Allows, Mc!AllowsConnection
<1>4. Mc!CallsConfined'
  BY DEF Mc!Ask, Mc!CallsConfined
<1> QED BY <1>1, <1>2, <1>3, <1>4

\* A row that may be used is a row, and on PostgreSQL its own database is the one named.
LEMMA KnownRow ==
    ASSUME McShape, NEW w \in Mc!Worlds, NEW r, Mc!Known(w, r).ok
    PROVE  LET f == Mc!Known(w, r) IN
           /\ r.id \in Mc!Ids /\ f.row \in RowType
           /\ f.row.kind = "postgres" /\ f.row.own # "" => f.catalog = f.row.own
<1> DEFINE it == IF r.id \in Mc!Ids THEN mcStore[w][r.id] ELSE None
           catalog == IF r.catalog = "own" /\ it # None THEN it.own ELSE r.catalog
<1>1. it \in RowType \cup {None}
  BY DEF McShape
<1>2. r.catalog # "\n" /\ ~(it = None \/ it.deleted)
      /\ ~(it.kind = "postgres" /\ catalog # "" /\ it.own # "" /\ catalog # it.own)
  BY DEF Mc!Known, Mc!Refused
<1>3. PICK f : f = Mc!Known(w, r)
  OBVIOUS
<1>4. f = [ok |-> TRUE, why |-> "", row |-> it,
           catalog |-> IF catalog # "" THEN catalog ELSE it.own]
  BY <1>2, <1>3 DEF Mc!Known
<1>5. r.id \in Mc!Ids
  BY <1>2
<1> HIDE DEF it, catalog
<1>6. f.row = it /\ f.catalog = IF catalog # "" THEN catalog ELSE it.own
  BY <1>4
<1>7. f.row \in RowType
  BY <1>1, <1>2, <1>6
<1>8. f.row.kind = "postgres" /\ f.row.own # "" => f.catalog = f.row.own
  BY <1>2, <1>6
<1> QED BY <1>3, <1>5, <1>7, <1>8

LEMMA ReadRowKeeps == ASSUME McInv, Mc!ReadRow PROVE McInv'
<1> USE DEF McInv
<1>2. \A w \in Mc!Worlds : mcFound'[w] = Mc!Resolve(w, mcRequest)
  BY DEF Mc!ReadRow
<1>3. Mc!Resolve(1, mcRequest) = Mc!Resolve(2, mcRequest)
  BY TwinRows DEF Mc!Resolve, Mc!AllowsConnection
<1>4. \A w \in Mc!Worlds : Mc!Resolve(w, mcRequest).ok =>
        /\ mcRequest.id \in mcToken.allow
        /\ Mc!Resolve(w, mcRequest) = Mc!Known(w, mcRequest)
  BY DEF Mc!Resolve, Mc!Refused, Mc!AllowsConnection
<1>5. McShape'
  BY DEF Mc!ReadRow, McShape
<1>6. McTwins'
  <2>1. mcFound'[1] = mcFound'[2]
    BY <1>2, <1>3 DEF Mc!Worlds
  <2>2. mcAnswer'[1] = mcAnswer'[2]
    BY <2>1 DEF Mc!ReadRow, Mc!Worlds, McTwins, Mc!NothingOutside
  <2> QED BY <2>1, <2>2 DEF Mc!ReadRow, McTwins, Mc!NothingOutside
<1>7. McFlow'
  <2>1. mcPc' \in {"secrets", "idle"} /\ (mcPc' = "secrets" => \A w \in Mc!Worlds : mcFound'[w].ok)
    BY <1>2 DEF Mc!ReadRow, Mc!Worlds
  <2>2. ASSUME mcPc' = "secrets", NEW w \in Mc!Worlds
        PROVE  mcRequest.id \in Mc!Ids /\ mcRequest.id \in mcToken.allow /\ RowGood(w)'
    <3>1. Mc!Resolve(w, mcRequest).ok
      BY <2>1, <2>2, <1>2
    <3>2. Mc!Known(w, mcRequest).ok /\ mcFound'[w] = Mc!Known(w, mcRequest)
      BY <2>2, <3>1, <1>2, <1>4
    <3> QED BY <1>4, <3>1, <3>2, KnownRow DEF RowGood
  <2>3. 1 \in Mc!Worlds
    BY DEF Mc!Worlds
  <2>4. mcPc' # "idle" => Mc!NeedsConnection(mcRequest)' /\ \A w \in Mc!Worlds : mcSent'[w] = None
    BY DEF Mc!ReadRow, McFlow, Mc!NeedsConnection, Mc!ReadsThroughTool, Mc!Allows, Mc!AllowsConnection
  <2>5. mcRequest' = mcRequest /\ mcToken' = mcToken
    BY DEF Mc!ReadRow
  <2> QED BY <2>1, <2>2, <2>3, <2>4, <2>5 DEF McFlow
<1>8. Mc!CallsConfined'
  BY DEF Mc!ReadRow, McFlow, Mc!CallsConfined
<1> QED BY <1>5, <1>6, <1>7, <1>8

\* The settings of a call are the same in both worlds, and what the call may do.
LEMMA TwinSettings ==
    ASSUME McTwins, NEW r, r.id \in Mc!Ids, r.id \in mcToken.allow
    PROVE  Mc!SettingsFor(1, r) = Mc!SettingsFor(2, r)
<1>1. \A it : Mc!SecretsFor(1, it, r.id) = Mc!SecretsFor(2, it, r.id)
  BY DEF McTwins, Mc!SecretsFor
<1> QED BY <1>1 DEF McTwins, Mc!SettingsFor

LEMMA SettingsGood ==
    ASSUME NEW w \in Mc!Worlds, RowGood(w), NEW r, r.id \in mcToken.allow
    PROVE  CallGood(Mc!SettingsFor(w, r), w) /\ Mc!SettingsFor(w, r).mode = "read_only"
<1>1. PICK s : s = Mc!SettingsFor(w, r)
  OBVIOUS
<1>2. PICK it : it = mcFound[w].row
  OBVIOUS
<1>3. it.kind \in {"postgres", "mysql", "trino"} /\ it.bound \in Nat
  BY <1>2 DEF RowGood, RowType
<1>4. PICK c : c = Mc!SecretsFor(w, it, r.id)
  OBVIOUS
<1>5. PICK e : e = Mc!ConnectionEnvironment(it)
  OBVIOUS
<1>6. PICK b : b = Mc!StatementTimeout(it)
  OBVIOUS
<1>7. s = [id |-> r.id, kind |-> it.kind, host |-> it.host, database |-> mcFound[w].catalog,
           env |-> e, bound |-> b, ssh |-> it.ssh, secrets |-> c, mode |-> "read_only"]
  BY <1>1, <1>2, <1>4, <1>5, <1>6 DEF Mc!SettingsFor, Mc!Mode
<1>8. /\ c = [password |-> c.password, jwt |-> c.jwt, sshPassword |-> c.sshPassword,
              passphrase |-> c.passphrase]
      /\ \A what \in {"password", "jwt", "sshPassword"} :
           c[what] # None => c[what].account = r.id
  <2> DEFINE of(what) == [account |-> r.id, slot |-> what, gen |-> mcKeychain[w][r.id]]
  <2>1. c = [password |-> IF it.jwt THEN None ELSE of("password"),
             jwt |-> IF it.jwt THEN of("jwt") ELSE None,
             sshPassword |-> IF it.ssh = "password" THEN of("ssh-password") ELSE None,
             passphrase |-> IF it.ssh = "key" THEN of("ssh-passphrase") ELSE None]
    BY <1>4 DEF Mc!SecretsFor
  <2> QED BY <2>1
<1>9. b \in 1 .. Mc!Longest
  BY <1>3, <1>6 DEF Mc!StatementTimeout, Mc!Longest
<1>10. it.kind = "trino" /\ e.sslmode = "prefer" => ~e.insecure
  BY <1>5 DEF Mc!ConnectionEnvironment
<1>11. HasFields(s)
  <2>1. s.secrets = c
    BY <1>7
  <2>2. /\ s.id = r.id /\ s.kind = it.kind /\ s.host = it.host /\ s.database = mcFound[w].catalog
        /\ s.env = e /\ s.bound = b /\ s.ssh = it.ssh /\ s.mode = "read_only"
    BY <1>7
  <2>3. s.secrets = [password |-> s.secrets.password, jwt |-> s.secrets.jwt,
                     sshPassword |-> s.secrets.sshPassword, passphrase |-> s.secrets.passphrase]
    BY <2>1, <1>8
  <2> QED BY <1>7, <2>1, <2>2, <2>3, Zenon DEF HasFields
<1>12. /\ s.id = r.id /\ s.kind = it.kind /\ s.database = mcFound[w].catalog
       /\ s.env = e /\ s.bound = b /\ s.secrets = c /\ s.mode = "read_only"
  BY <1>7
<1>13. s.kind = "postgres" /\ mcFound[w].row.own # "" => s.database = mcFound[w].row.own
  BY <1>2, <1>12 DEF RowGood
<1>14. CallGood(s, w)
  BY <1>8, <1>9, <1>10, <1>11, <1>12, <1>13 DEF CallGood
<1> QED BY <1>1, <1>12, <1>14

LEMMA ReadSecretsKeeps == ASSUME McInv, Mc!ReadSecrets PROVE McInv'
<1> USE DEF McInv
<1>1. mcRequest.id \in Mc!Ids /\ mcRequest.id \in mcToken.allow /\ \A w \in Mc!Worlds : RowGood(w)
  BY DEF Mc!ReadSecrets, McFlow
<1>2. UNCHANGED <<mcToken, mcStore, mcKeychain, mcRequest, mcFound, mcSent>>
  BY DEF Mc!ReadSecrets
<1>3. McShape'
  BY <1>2 DEF McShape
<1>4. McTwins'
  <2>1. mcSettings'[1] = mcSettings'[2]
    <3>1. CASE mcSettings' = [w \in Mc!Worlds |-> Mc!SettingsFor(w, mcRequest)]
      <4>1. Mc!SettingsFor(1, mcRequest) = Mc!SettingsFor(2, mcRequest)
        BY <1>1, TwinSettings
      <4> QED BY <3>1, <4>1 DEF Mc!Worlds
    <3>2. CASE mcSettings' = mcSettings
      BY <3>2 DEF McTwins
    <3> QED BY <3>1, <3>2 DEF Mc!ReadSecrets
  <2>2. Mc!MissingTarget(1) <=> Mc!MissingTarget(2)
    BY DEF McTwins, Mc!MissingTarget
  <2>3. mcAnswer'[1] = mcAnswer'[2]
    BY <2>2 DEF Mc!ReadSecrets, McTwins, Mc!NothingOutside, Mc!Worlds
  <2> QED BY <1>2, <2>1, <2>3 DEF McTwins, Mc!NothingOutside
<1>5. McFlow'
  <2>1. CASE mcPc' = "idle"
    BY <2>1 DEF McFlow
  <2>2. CASE mcPc' = "run"
    <3>1. \A w \in Mc!Worlds : mcSettings'[w] = Mc!SettingsFor(w, mcRequest)
      BY <2>2 DEF Mc!ReadSecrets
    <3>2. ASSUME NEW w \in Mc!Worlds
          PROVE  CallGood(mcSettings[w], w)' /\ mcSettings'[w].mode = "read_only"
      <4>1. PICK s : s = mcSettings'[w]
        OBVIOUS
      <4>2. CallGood(s, w) /\ s.mode = "read_only"
        BY <1>1, <3>1, <4>1, SettingsGood
      <4>3. mcFound' = mcFound /\ mcToken' = mcToken
        BY <1>2
      <4> QED BY <4>1, <4>2, <4>3 DEF CallGood
    <3>3. Mc!NeedsConnection(mcRequest)' /\ \A w \in Mc!Worlds : RowGood(w)' /\ mcSent'[w] = None
      BY <1>1, <1>2 DEF McFlow, Mc!ReadSecrets, RowGood, Mc!NeedsConnection, Mc!ReadsThroughTool,
                        Mc!Allows, Mc!AllowsConnection
    <3> QED BY <1>1, <1>2, <2>2, <3>2, <3>3 DEF McFlow
  <2> QED BY <2>1, <2>2 DEF Mc!ReadSecrets
<1>6. Mc!CallsConfined'
  BY <1>2 DEF Mc!ReadSecrets, McFlow, Mc!CallsConfined
<1> QED BY <1>3, <1>4, <1>5, <1>6

LEMMA RunToolKeeps == ASSUME McInv, Mc!RunTool PROVE McInv'
<1> USE DEF McInv
<1>1. UNCHANGED <<mcToken, mcStore, mcKeychain, mcRequest, mcFound, mcSettings>> /\ mcPc' = "idle"
  BY DEF Mc!RunTool
<1>2. McShape'
  BY <1>1 DEF McShape
<1>3. McFlow'
  BY <1>1 DEF McFlow
<1>4. McTwins'
  <2>1. mcSent'[1] = mcSent'[2]
    BY DEF Mc!RunTool, McTwins, Mc!Worlds
  <2>2. mcAnswer'[1] = mcAnswer'[2]
    <3> DEFINE told(w) ==
                 IF ~(mcSettings[w].mode = "read_only" /\ mcRequest.sql = "write")
                 THEN Mc!Reply("ok", <<mcSettings[w].host, mcSettings[w].database>>)
                 ELSE Mc!Fail(mcRequest, "safe mode")
    <3>1. told(1) = told(2)
      BY Zenon DEF McTwins
    <3>2. \/ mcAnswer' = [w \in Mc!Worlds |-> told(w)]
          \/ mcAnswer' = [w \in Mc!Worlds |-> Mc!Fail(mcRequest, "the server's own error")]
      BY Zenon DEF Mc!RunTool
    <3>3. 1 \in Mc!Worlds /\ 2 \in Mc!Worlds
      BY DEF Mc!Worlds
    <3> HIDE DEF told
    <3> QED BY <3>1, <3>2, <3>3, Zenon
  <2> QED BY <1>1, <2>1, <2>2 DEF McTwins, Mc!NothingOutside
<1>5. Mc!CallsConfined'
  <2> SUFFICES ASSUME NEW w \in Mc!Worlds, mcSent'[w] # None
               PROVE  LET s == mcSent'[w] IN
                      /\ Mc!Allows(mcRequest.name) /\ s.id \in mcToken.allow
                      /\ mcRequest.sql # "write"
                      /\ s.bound \in 1 .. Mc!Longest
                      /\ \A what \in {"password", "jwt", "sshPassword"} :
                           s.secrets[what] # None => s.secrets[what].account = s.id
                      /\ s.kind = "postgres" /\ mcFound[w].row.own # ""
                           => s.database = mcFound[w].row.own
                      /\ (s.kind = "trino" /\ s.env.sslmode = "prefer") => ~s.env.insecure
    BY <1>1 DEF Mc!CallsConfined, Mc!Allows
  <2>1. CallGood(mcSettings[w], w) /\ mcSettings[w].mode = "read_only"
        /\ Mc!NeedsConnection(mcRequest)
    BY DEF McFlow, Mc!RunTool
  <2>2. mcSent'[w] = Mc!Connect(mcSettings[w]) /\ mcRequest.sql # "write"
    BY <2>1 DEF Mc!RunTool
  <2>3. Mc!Allows(mcRequest.name)
    BY <2>1 DEF Mc!NeedsConnection, Mc!ReadsThroughTool
  <2>4. PICK s : s = mcSettings[w]
    OBVIOUS
  <2>5. PICK x : x = mcSent'[w]
    OBVIOUS
  <2>6. x = [s EXCEPT !.secrets.passphrase = None]
    BY <2>2, <2>4, <2>5 DEF Mc!Connect
  <2>7. /\ x.id = s.id /\ x.kind = s.kind /\ x.database = s.database /\ x.env = s.env
        /\ x.bound = s.bound
        /\ \A what \in {"password", "jwt", "sshPassword"} : x.secrets[what] = s.secrets[what]
    <3>1. HasFields(s)
      BY <2>1, <2>4 DEF CallGood
    <3> QED BY <2>6, <3>1 DEF HasFields
  <2>8. CallGood(s, w)
    BY <2>1, <2>4
  <2> QED BY <2>2, <2>3, <2>5, <2>7, <2>8 DEF CallGood
<1> QED BY <1>2, <1>3, <1>4, <1>5

\* What the app does to a connection it does in both worlds, if the token may name it.
LEMMA EditFrame ==
    ASSUME McInv, UNCHANGED <<mcToken, mcPc, mcRequest, mcFound, mcSettings, mcAnswer, mcSent>>,
           mcStore' \in [Mc!Worlds -> [Mc!Ids -> RowType \cup {None}]],
           mcKeychain' \in [Mc!Worlds -> [Mc!Ids -> Nat]],
           \A i \in Mc!Ids : i \in mcToken.allow =>
               mcStore'[1][i] = mcStore'[2][i] /\ mcKeychain'[1][i] = mcKeychain'[2][i]
    PROVE  McInv'
<1>1. McShape'
  BY DEF McShape
<1>2. McTwins'
  BY DEF McInv, McTwins, Mc!NothingOutside
<1>3. McFlow'
  BY DEF McInv, McFlow, RowGood, CallGood, HasFields, Mc!NeedsConnection, Mc!ReadsThroughTool,
         Mc!Allows, Mc!AllowsConnection
<1>4. Mc!CallsConfined'
  BY DEF McInv, Mc!CallsConfined, Mc!Allows
<1> QED BY <1>1, <1>2, <1>3, <1>4 DEF McInv

LEMMA EditKeeps ==
    ASSUME McInv, NEW w \in Mc!Worlds, NEW id \in Mc!Ids
    PROVE  /\ \A it \in SavedRows : Mc!Save(w, id, it) => McInv'
           /\ Mc!Delete(w, id) => McInv'
           /\ Mc!Rekey(w, id) => McInv'
<1> USE DEF McInv, McShape, McTwins, Mc!Edited, Mc!AllowsConnection, Mc!Worlds
<1>1. ASSUME NEW it \in SavedRows, Mc!Save(w, id, it) PROVE McInv'
  <2>1. it \in RowType
    BY McpAssumption DEF RowType
  <2>2. mcStore' \in [Mc!Worlds -> [Mc!Ids -> RowType \cup {None}]]
    BY <1>1, <2>1 DEF Mc!Save
  <2>3. \A i \in Mc!Ids : i \in mcToken.allow => mcStore'[1][i] = mcStore'[2][i]
    BY <1>1 DEF Mc!Save
  <2> QED BY <1>1, <2>2, <2>3, EditFrame DEF Mc!Save
<1>2. ASSUME Mc!Delete(w, id) PROVE McInv'
  <2>1. \A x \in Mc!Worlds : x = w \/ id \in mcToken.allow => mcStore[x][id] \in RowType
    BY <1>2 DEF Mc!Delete, Mc!Alive
  <2>2. \A it \in RowType : [it EXCEPT !.deleted = TRUE] \in RowType
    BY DEF RowType
  <2>3. mcStore' \in [Mc!Worlds -> [Mc!Ids -> RowType \cup {None}]]
    BY <1>2, <2>1, <2>2 DEF Mc!Delete
  <2>4. \A i \in Mc!Ids : i \in mcToken.allow => mcStore'[1][i] = mcStore'[2][i]
    BY <1>2 DEF Mc!Delete
  <2> QED BY <1>2, <2>3, <2>4, EditFrame DEF Mc!Delete
<1>3. ASSUME Mc!Rekey(w, id) PROVE McInv'
  <2>1. mcKeychain' \in [Mc!Worlds -> [Mc!Ids -> Nat]]
    BY <1>3 DEF Mc!Rekey
  <2>2. \A i \in Mc!Ids : i \in mcToken.allow => mcKeychain'[1][i] = mcKeychain'[2][i]
    BY <1>3 DEF Mc!Rekey
  <2> QED BY <1>3, <2>1, <2>2, EditFrame DEF Mc!Rekey
<1> QED BY <1>1, <1>2, <1>3

LEMMA McNext == McInv /\ Mc!Next => McInv'
BY AskKeeps, ReadRowKeeps, ReadSecretsKeeps, RunToolKeeps, EditKeeps DEF Mc!Next

LEMMA McStays == (part = "mcp" => McInv) /\ [AppNext]_AppVars => (part = "mcp" => McInv)'
<1> SUFFICES ASSUME part = "mcp" => McInv, [AppNext]_AppVars, part' = "mcp" PROVE McInv'
  OBVIOUS
<1>1. part = "mcp" /\ McInv
  BY DEF AppNext, StoreStep, McpStep, ConnectStep, AppVars
<1>2. CASE UNCHANGED mcVars
  BY <1>1, <1>2 DEF mcVars, McInv, McShape, McTwins, McFlow, RowGood, CallGood, HasFields,
     Mc!NothingOutside, Mc!CallsConfined, Mc!NeedsConnection, Mc!ReadsThroughTool, Mc!Allows,
     Mc!AllowsConnection
<1>3. UNCHANGED mcVars \/ Mc!Next
  BY DEF AppNext, StoreStep, McpStep, ConnectStep, AppVars
<1> QED BY <1>1, <1>2, <1>3, McNext

\* Nothing a token's holder is told, and nothing a database is told for it, depends on a connection
\* the token does not name, and what reaches a database is inside the token, whatever the app saves,
\* deletes and re-keys meanwhile (mcp.rs resolve, settings_for).
THEOREM McpIsConfined == AppSpec => []McpConfined
<1>1. AppInit => (part = "mcp" => McInv)
  BY McFirst DEF AppInit
<1>2. (part = "mcp" => McInv) => McpConfined
  BY DEF McInv, McTwins, McpConfined
<1> QED BY <1>1, <1>2, McStays, PTL DEF AppSpec

-----------------------------------------------------------------------------
(* From settings to a connection, of MCAppStore. *)

\* What build makes of the settings asked for, as far as a credential depends on it.
CnMade ==
    /\ cnConfig = [kind |-> cnConfig.kind, host |-> cnConfig.host, port |-> cnConfig.port,
                   password |-> cnConfig.password, bearer |-> cnConfig.bearer,
                   tls |-> cnConfig.tls, ca |-> cnConfig.ca, tunnel |-> cnConfig.tunnel,
                   name |-> cnConfig.name]
    /\ cnConfig.tunnel = Cn!Asked.ssh
    /\ cnConfig.password # None => cnConfig.password \in Cn!OwnSecrets
    /\ cnConfig.bearer # None => cnConfig.bearer \in Cn!OwnSecrets
    /\ cnConfig.kind = "trino" /\ cnConfig.tls = "Disable" => Cn!Secret = None
    /\ cnConfig.tls \in {"Disable", "Prefer"} /\ cnConfig.kind # "trino" =>
         /\ Cn!AskedWord \in {"", "prefer", "disable"}
         /\ Cn!Asked.insecure => Cn!AskedWord = "disable"
    /\ Cn!AskedVerified \/ Cn!Asked.ca # "" => cnConfig.tls = "Require"
    /\ cnConfig.ca # None <=> Cn!Asked.ca # ""
    /\ cnConfig.kind = "mysql" /\ Cn!Asked.ssh # None => cnConfig.tls # "Require"
    /\ cnConfig.kind \in {"trino", "postgres", "mysql"}
    /\ Cn!AskedHost \in STRING
    /\ Cn!Parts(Cn!View(cnSaid, cnSide)).host = Cn!AskedHost

\* Where the driver is pointed before the tunnel, and after it.
Direct == cnConfig.host = Cn!AskedHost /\ cnConfig.name = None
Tunnelled ==
    /\ cnConfig.host = Cn!Loopback
    /\ \/ /\ cnConfig.name = Cn!AskedHost
          /\ cnConfig.kind \in {"postgres", "trino"}
          /\ cnConfig.kind = "trino" => Cn!AskedHost \notin Cn!Literals
       \/ cnConfig.name = None /\ cnConfig.kind \in {"trino", "mysql"}

\* A connection in clear text is one that may be, and one that is not holds its handshake.
CnSession ==
    /\ cnPc = "retry" => cnConfig.tls = "Prefer"
    /\ cnPc = "retry" => cnConfig.kind # "trino"
    /\ cnPc = "login" => /\ cnConfig.kind # "trino"
                         /\ IF cnClear THEN cnConfig.tls \in {"Disable", "Prefer"}
                            ELSE cnConfig.tls # "Disable" /\ Cn!HandshakeHolds
    /\ cnPc = "pages" => cnConfig.kind = "trino"

CnShape ==
    /\ cnSaid \in SaidType /\ cnServer \in KnownServers /\ cnSide \in {"", "DEST"}
    /\ cnClear \in BOOLEAN
    /\ cnPc \in {"settings", "tunnel", "dial", "retry", "login", "pages", "open", "failed"}

CnInv ==
    /\ CnShape
    /\ cnPc = "settings" => cnWire = {} /\ cnClear = FALSE
    /\ cnPc \notin {"settings", "failed"} => CnMade
    /\ cnPc = "tunnel" => Direct /\ Cn!Asked.ssh # None /\ cnClear = FALSE /\ cnWire = {}
    /\ cnPc = "dial" => cnClear = FALSE
    /\ cnPc \notin {"settings", "failed", "tunnel"} =>
         IF Cn!Asked.ssh = None THEN Direct ELSE Tunnelled
    /\ CnSession
    /\ Cn!SecretsGuarded

-----------------------------------------------------------------------------

\* The settings of a side are those asked for, but for the path.
SameSettings(s, a) ==
    /\ s.kind = a.kind /\ s.url = a.url /\ s.scheme = a.scheme /\ s.sslmode = a.sslmode
    /\ s.host = a.host /\ s.password = a.password /\ s.jwt = a.jwt
    /\ s.insecure = a.insecure /\ s.ca = a.ca /\ s.ssh = a.ssh
SideOf(sd, where) == IF where = "DEST" THEN sd.DEST ELSE sd.bare

LEMMA ViewFields ==
    ASSUME NEW sd \in SaidType, NEW where \in {"", "DEST"},
           NEW s, s = Cn!View(sd, where), NEW a, a = SideOf(sd, where)
    PROVE  s \in SettingsType /\ a \in SettingsType /\ SameSettings(s, a)
<1>1. sd.bare \in SettingsType /\ sd.DEST \in SettingsType
  BY DEF SaidType
<1>2. CASE where = ""
  <2>1. s = sd.bare /\ a = sd.bare
    BY <1>2 DEF Cn!View, Cn!WithoutPrefix, SideOf
  <2> QED BY <1>1, <2>1 DEF SameSettings
<1>3. CASE where = "DEST"
  <2>1. PICK b : b = sd.bare
    OBVIOUS
  <2>2. a = sd.DEST /\ s = [a EXCEPT !.path = b.path]
    BY <1>3, <2>1 DEF Cn!View, Cn!Prefixed, SideOf
  <2>3. a \in SettingsType /\ b \in SettingsType
    BY <1>1, <2>1, <2>2
  <2> QED BY <2>2, <2>3 DEF SettingsType, SameSettings
<1> QED BY <1>2, <1>3

\* The word for TLS, the host and the password that settings give, a URL's under their own.
WordOf(s) == IF s.sslmode # "" THEN s.sslmode ELSE IF s.url # None THEN s.url.sslmode ELSE ""
HostOf(s) == IF s.host # "" THEN s.host ELSE s.url.host

LEMMA PartsAre ==
    ASSUME NEW s \in SettingsType, ~Cn!BuildRefused(s)
    PROVE  LET p == Cn!Parts(s) IN
           /\ p.kind \in {"trino", "postgres", "mysql"}
           /\ p.host = HostOf(s) /\ HostOf(s) \in STRING
           /\ p.sslmode = WordOf(s)
           /\ p.password # None => p.password \in {s.password} \cup
                                     IF s.url = None THEN {} ELSE {s.url.password}
           /\ p.kind = "trino" => p.scheme \in {"", "http", "https"}
<1>1. PICK p : p = Cn!Parts(s)
  OBVIOUS
<1>2. s.host \in STRING /\ (s.url # None => s.url \in UrlType)
  BY DEF SettingsType
<1>3. s.url # None => s.url.host \in STRING /\ s.url.host # ""
  BY <1>2 DEF UrlType, Cn!BuildRefused, Cn!UrlRefused
<1>4. s.url = None => s.host # ""
  BY DEF Cn!BuildRefused
<1>5. p.kind \in {"trino", "postgres", "mysql"}
      /\ (p.kind = "trino" => p.scheme \in {"", "http", "https"})
  BY <1>1 DEF Cn!BuildRefused, Cn!Kinds
<1> DEFINE kind == IF s.kind # "" THEN s.kind
                   ELSE IF s.url = None THEN "trino" ELSE Cn!KindOfScheme(s.url.scheme)
<1>6. /\ p.host = HostOf(s) /\ p.sslmode = WordOf(s)
      /\ p.password # None => p.password \in {s.password} \cup
                              IF s.url = None THEN {} ELSE {s.url.password}
  <2>1. CASE s.url = None
    <3>1. /\ p.host = Cn!Or("", s.host) /\ p.sslmode = Cn!Or("", s.sslmode)
          /\ p.password = IF s.password # "" THEN s.password ELSE None
      BY <1>1, <2>1 DEF Cn!Parts
    <3> QED BY <1>4, <2>1, <3>1 DEF HostOf, WordOf, Cn!Or
  <2>2. CASE s.url # None
    <3>1. PICK u : u = Cn!FromUrl(s.url, kind)
      OBVIOUS
    <3>2. u.host = s.url.host /\ u.password = s.url.password /\ u.sslmode = s.url.sslmode
      BY <3>1 DEF Cn!FromUrl
    <3>3. /\ p.host = Cn!Or(u.host, s.host) /\ p.sslmode = Cn!Or(u.sslmode, s.sslmode)
          /\ p.password = IF s.password # "" THEN s.password ELSE u.password
      BY <1>1, <2>2, <3>1 DEF Cn!Parts
    <3> QED BY <2>2, <3>2, <3>3 DEF HostOf, WordOf, Cn!Or
  <2> QED BY <2>1, <2>2
<1>8. HostOf(s) \in STRING
  BY <1>2, <1>3, <1>4 DEF HostOf
<1> QED BY <1>1, <1>5, <1>6, <1>8

\* What becomes of the word for TLS.
LEMMA TlsIs ==
    ASSUME NEW s \in SettingsType, ~Cn!BuildRefused(s), NEW p, p = Cn!Parts(s)
    PROVE  /\ p.kind # "trino" /\ Cn!Tls(s, p) \in {"Disable", "Prefer"} =>
                /\ WordOf(s) \in {"", "prefer", "disable"}
                /\ s.insecure => WordOf(s) = "disable"
           /\ WordOf(s) \in {"verify-ca", "verify-full"} /\ ~s.insecure => Cn!Tls(s, p) = "Require"
           /\ s.ca # "" => Cn!Tls(s, p) = "Require"
           /\ p.kind = "trino" /\ Cn!Tls(s, p) = "Disable" => p.password = None /\ s.jwt = ""
<1>1. p.sslmode = WordOf(s) /\ (p.kind = "trino" => p.scheme \in {"", "http", "https"})
  BY PartsAre
<1>2. Cn!NamedMode(p) # "unknown" /\ ~Cn!CaRefused(s, p) /\ ~Cn!BearerRefused(s, p)
  BY DEF Cn!BuildRefused
<1>3. PICK m : m = Cn!NamedMode(p)
  OBVIOUS
<1>4. /\ m = "none" <=> WordOf(s) = ""
      /\ m = "Disable" <=> WordOf(s) = "disable"
      /\ m = "Prefer" <=> WordOf(s) = "prefer"
      /\ WordOf(s) \in {"verify-ca", "verify-full"} => m = "Require"
  BY <1>1, <1>3 DEF Cn!NamedMode
<1>5. p.kind # "trino" =>
        Cn!Tls(s, p) = Cn!Insecurely(s, IF m = "none" THEN "Prefer" ELSE m)
  BY <1>3 DEF Cn!Tls
<1>6. PICK t : t = Cn!TrinoMode(s, p)
  OBVIOUS
<1>7. /\ m # "none" /\ m # "Disable" => t = m
      /\ t = "Disable" => p.password = None
      /\ t = "Disable" => m \in {"Disable", "none"}
      /\ t = "Disable" /\ m = "none" => p.scheme # "https" /\ ~(s.jwt # "" /\ p.scheme = "")
  <2>1. CASE m # "none"
    <3>1. t = IF m = "Disable" /\ (p.password # None \/ p.port \in {443, 8443}) THEN "Require"
              ELSE m
      BY <1>3, <1>6, <2>1 DEF Cn!TrinoMode
    <3> QED BY <2>1, <3>1
  <2> DEFINE asks == p.scheme = "https" \/ (s.jwt # "" /\ p.scheme = "")
             raised == p.password # None \/ p.port \in {443, 8443}
  <2>2. t = LET mode == IF m # "none" THEN m ELSE IF asks THEN "Require" ELSE "Disable"
            IN IF mode = "Disable" /\ raised THEN "Require" ELSE mode
    <3>1. Cn!TrinoMode(s, p) =
            LET named == Cn!NamedMode(p)
                mode == IF named # "none" THEN named
                        ELSE IF asks THEN "Require" ELSE "Disable"
            IN IF mode = "Disable" /\ raised THEN "Require" ELSE mode
      BY Zenon DEF Cn!TrinoMode
    <3> HIDE DEF asks, raised
    <3> QED BY <1>3, <1>6, <3>1, Zenon
  <2>3. /\ p.password # None => raised
        /\ ~asks => p.scheme # "https" /\ ~(s.jwt # "" /\ p.scheme = "")
    OBVIOUS
  <2> HIDE DEF asks, raised
  <2>4. CASE m = "none"
    BY <2>2, <2>3, <2>4
  <2> QED BY <2>1, <2>4
<1>8. p.kind = "trino" => Cn!Tls(s, p) = Cn!Insecurely(s, t)
  BY <1>6 DEF Cn!Tls
<1>9. p.kind = "trino" /\ t = "Disable" => s.jwt = ""
  BY <1>1, <1>2, <1>3, <1>7 DEF Cn!BearerRefused
<1>10. s.ca # "" => Cn!Tls(s, p) = "Require"
  BY <1>2 DEF Cn!CaRefused
<1> QED BY <1>4, <1>5, <1>7, <1>8, <1>9, <1>10 DEF Cn!Insecurely

LEMMA ConfigureKeeps ==
    ASSUME CnInv, NEW where \in {"", "DEST"}, Cn!Configure(where) PROVE CnInv'
<1>1. /\ cnPc = "settings" /\ cnSide' = where /\ cnWire = {} /\ cnClear = FALSE
      /\ UNCHANGED <<cnSaid, cnServer, cnClear, cnUrl, cnWire, cnPages>>
  BY DEF Cn!Configure, CnInv
<1>2. Cn!SecretsGuarded'
  BY <1>1 DEF Cn!SecretsGuarded
<1>3. cnPc' \in {"failed", "dial", "tunnel"}
  BY DEF Cn!Configure
<1>4. CnShape'
  BY <1>1, <1>3 DEF CnShape, CnInv
<1>5. CnSession'
  BY <1>3 DEF CnSession
<1>6. CASE cnPc' = "failed"
  BY <1>1, <1>2, <1>4, <1>5, <1>6 DEF CnInv
<1>7. CASE cnPc' # "failed"
  <2>1. PICK s : s = Cn!View(cnSaid, where)
    OBVIOUS
  <2>2. ~Cn!BuildRefused(s) /\ cnConfig' = Cn!Build(s)
        /\ cnPc' = IF s.ssh = None THEN "dial" ELSE "tunnel"
    BY <1>7, <2>1 DEF Cn!Configure
  <2>3. PICK a : a = SideOf(cnSaid, where)
    OBVIOUS
  <2>4. cnSaid \in SaidType
    BY DEF CnInv, CnShape
  <2>5. /\ s \in SettingsType /\ a \in SettingsType
        /\ s.url = a.url /\ s.sslmode = a.sslmode /\ s.host = a.host
        /\ s.password = a.password /\ s.jwt = a.jwt
        /\ s.insecure = a.insecure /\ s.ca = a.ca /\ s.ssh = a.ssh
    <3>1. PICK sd : sd = cnSaid
      OBVIOUS
    <3>2. sd \in SaidType /\ s = Cn!View(sd, where) /\ a = SideOf(sd, where)
      BY <2>1, <2>3, <2>4, <3>1
    <3>3. s \in SettingsType /\ a \in SettingsType /\ SameSettings(s, a)
      BY <3>2, ViewFields
    <3> QED BY <3>3 DEF SameSettings
  <2>6. Cn!Asked' = a
    BY <1>1, <2>3 DEF Cn!Asked, SideOf
  <2>7. PICK p : p = Cn!Parts(s)
    OBVIOUS
  <2>8. /\ p.kind \in {"trino", "postgres", "mysql"}
        /\ p.host = HostOf(s) /\ HostOf(s) \in STRING /\ p.sslmode = WordOf(s)
        /\ p.password # None => p.password \in {s.password} \cup
                                  IF s.url = None THEN {} ELSE {s.url.password}
    BY <2>2, <2>5, <2>7, PartsAre
  <2>9. PICK t : t = Cn!Tls(s, p)
    OBVIOUS
  <2>10. /\ p.kind # "trino" /\ t \in {"Disable", "Prefer"} =>
              /\ WordOf(s) \in {"", "prefer", "disable"}
              /\ s.insecure => WordOf(s) = "disable"
         /\ WordOf(s) \in {"verify-ca", "verify-full"} /\ ~s.insecure => t = "Require"
         /\ s.ca # "" => t = "Require"
         /\ p.kind = "trino" /\ t = "Disable" => p.password = None /\ s.jwt = ""
    BY <2>2, <2>5, <2>7, <2>9, TlsIs
  <2>11. /\ WordOf(s) = WordOf(a) /\ HostOf(s) = HostOf(a)
         /\ Cn!AskedWord' = WordOf(a) /\ Cn!AskedHost' = HostOf(a)
    <3>1. WordOf(s) = WordOf(a) /\ HostOf(s) = HostOf(a)
      BY <2>5 DEF WordOf, HostOf
    <3>2. Cn!AskedWord' = WordOf(a)
      BY <2>6 DEF WordOf, Cn!AskedWord
    <3>3. Cn!AskedHost' = HostOf(a)
      BY <2>6 DEF HostOf, Cn!AskedHost
    <3> QED BY <3>1, <3>2, <3>3
  <2>12. PICK c : c = cnConfig'
    OBVIOUS
  <2>13. /\ c.kind = p.kind /\ c.host = p.host /\ c.password = p.password /\ c.tls = t
         /\ c.bearer = Cn!Optional(s.jwt) /\ c.ca = Cn!Optional(s.ca) /\ c.tunnel = s.ssh
         /\ c.name = None
    BY <2>2, <2>7, <2>9, <2>12 DEF Cn!Build
  <2>14. c.kind = "mysql" /\ a.ssh # None => c.tls # "Require"
    BY <2>2, <2>5, <2>7, <2>9, <2>13 DEF Cn!BuildRefused
  <2>15. CnMade'
    <3>1. cnConfig'.tunnel = Cn!Asked.ssh'
      BY <2>5, <2>6, <2>12, <2>13
    <3>2. /\ cnConfig'.password # None => cnConfig'.password \in Cn!OwnSecrets'
          /\ cnConfig'.bearer # None => cnConfig'.bearer \in Cn!OwnSecrets'
      BY <2>5, <2>6, <2>8, <2>12, <2>13 DEF Cn!OwnSecrets, Cn!Optional
    <3>3. cnConfig'.kind = "trino" /\ cnConfig'.tls = "Disable" => Cn!Secret' = None
      BY <2>10, <2>12, <2>13 DEF Cn!Secret, Cn!Optional
    <3>4. /\ cnConfig'.tls \in {"Disable", "Prefer"} /\ cnConfig'.kind # "trino" =>
               /\ Cn!AskedWord' \in {"", "prefer", "disable"}
               /\ Cn!Asked.insecure' => Cn!AskedWord' = "disable"
          /\ Cn!AskedVerified' \/ Cn!Asked.ca' # "" => cnConfig'.tls = "Require"
      BY <2>5, <2>6, <2>10, <2>11, <2>12, <2>13 DEF Cn!AskedVerified
    <3>5. a.ca \in STRING /\ None \notin STRING
      BY <2>5, ConnectAssumption DEF SettingsType
    <3>6. cnConfig'.ca # None <=> Cn!Asked.ca' # ""
      BY <2>5, <2>6, <2>12, <2>13, <3>5 DEF Cn!Optional
    <3>7. Cn!Parts(Cn!View(cnSaid, cnSide))' = p
      BY <1>1, <2>1, <2>7
    <3>8. Cn!AskedHost' \in STRING /\ Cn!Parts(Cn!View(cnSaid, cnSide)).host' = Cn!AskedHost'
      BY <2>8, <2>11, <3>7
    <3>9. cnConfig'.kind = "mysql" /\ Cn!Asked.ssh' # None => cnConfig'.tls # "Require"
      BY <2>6, <2>12, <2>14
    <3>10. cnConfig'.kind \in {"trino", "postgres", "mysql"}
      BY <2>8, <2>12, <2>13
    <3>11. c = [kind |-> c.kind, host |-> c.host, port |-> c.port, password |-> c.password,
                bearer |-> c.bearer, tls |-> c.tls, ca |-> c.ca, tunnel |-> c.tunnel,
                name |-> c.name]
      BY <2>2, <2>7, <2>9, <2>12 DEF Cn!Build
    <3> QED BY <2>12, <3>1, <3>2, <3>3, <3>4, <3>6, <3>8, <3>9, <3>10, <3>11 DEF CnMade
  <2>16. Direct'
    BY <2>8, <2>11, <2>12, <2>13 DEF Direct
  <2>17. cnPc' = IF Cn!Asked.ssh' = None THEN "dial" ELSE "tunnel"
    BY <2>2, <2>5, <2>6
  <2> QED BY <1>1, <1>2, <1>3, <1>4, <1>5, <2>15, <2>16, <2>17 DEF CnInv
<1> QED BY <1>6, <1>7

-----------------------------------------------------------------------------

\* The places of a connection that has its configuration.
Pointed == IF Cn!Asked.ssh = None THEN Direct ELSE Tunnelled

\* What the later steps leave alone, and what therefore still holds.
LEMMA Kept ==
    ASSUME UNCHANGED <<cnSaid, cnServer, cnSide, cnConfig>>
    PROVE  /\ CnMade => CnMade'
           /\ Pointed => Pointed'
           /\ Cn!HandshakeHolds => Cn!HandshakeHolds'
           /\ UNCHANGED Cn!Asked
           /\ cnWire' = cnWire /\ Cn!SecretsGuarded => Cn!SecretsGuarded'
<1>1. UNCHANGED <<Cn!Asked, Cn!AskedHost, Cn!AskedWord, Cn!AskedVerified, Cn!OwnSecrets, Cn!Secret>>
  BY DEF Cn!Asked, Cn!AskedHost, Cn!AskedWord, Cn!AskedVerified, Cn!OwnSecrets, Cn!Secret
<1>2. UNCHANGED Cn!Parts(Cn!View(cnSaid, cnSide))
  OBVIOUS
<1>3. CnMade => CnMade'
  BY <1>1, <1>2 DEF CnMade
<1>4. Pointed => Pointed'
  BY <1>1 DEF Pointed, Direct, Tunnelled
<1>5. Cn!HandshakeHolds => Cn!HandshakeHolds'
  BY DEF Cn!HandshakeHolds, Cn!Verifies, Cn!Roots, Cn!CheckedName
<1>6. cnWire' = cnWire /\ Cn!SecretsGuarded => Cn!SecretsGuarded'
  BY <1>1 DEF Cn!SecretsGuarded
<1> QED BY <1>1, <1>3, <1>4, <1>5, <1>6

\* A handshake that had to verify found the settings' own host, vouched for as they ask.
LEMMA Vouched ==
    ASSUME CnShape, CnMade, Pointed, Cn!HandshakeHolds, cnConfig.tls = "Require"
    PROVE  /\ cnServer.tls = "yes" /\ Cn!AskedHost \in cnServer.names
           /\ cnServer.issuer \in IF Cn!Asked.ca # "" THEN {"private"} ELSE {"public", "corporate"}
<1>1. /\ cnServer.tls = "yes" /\ cnServer.issuer \in Cn!Roots /\ Cn!CheckedName \in cnServer.names
  BY DEF Cn!HandshakeHolds, Cn!Verifies
<1>2. Cn!Loopback \notin cnServer.names
  BY ConnectAssumption DEF CnShape, Cn!Loopback
<1>3. Cn!AskedHost # None
  BY ConnectAssumption DEF CnMade
<1>4. Cn!CheckedName = Cn!AskedHost
  <2>1. CASE Direct
    BY <2>1 DEF Direct, Cn!CheckedName
  <2>2. CASE Tunnelled /\ cnConfig.name = Cn!AskedHost
    BY <1>3, <2>2 DEF Cn!CheckedName
  <2>3. CASE Tunnelled /\ cnConfig.name = None
    BY <1>1, <1>2, <2>3 DEF Tunnelled, Cn!CheckedName
  <2>4. Direct \/ Tunnelled
    BY DEF Pointed
  <2>5. Tunnelled => cnConfig.name \in {Cn!AskedHost, None}
    BY DEF Tunnelled
  <2> QED BY <2>1, <2>2, <2>3, <2>4, <2>5
<1>5. cnServer.issuer \in IF Cn!Asked.ca # "" THEN {"private"} ELSE {"public", "corporate"}
  <2>1. CASE Cn!Asked.ca # ""
    BY <1>1, <2>1 DEF Cn!Roots, CnMade
  <2>2. CASE Cn!Asked.ca = ""
    BY <1>1, <2>2 DEF Cn!Roots, CnMade
  <2> QED BY <2>1, <2>2
<1> QED BY <1>1, <1>4, <1>5

\* A socket towards the configured host or the checked name ends at the settings' database, through
\* the bastion when one is named.
LEMMA ReachesOwn ==
    ASSUME CnMade, Pointed, NEW host,
           host = cnConfig.host \/ (cnConfig.kind = "trino" /\ host = Cn!CheckedName)
    PROVE  /\ Cn!Reaches(host).at = "database"
           /\ Cn!Asked.ssh # None => Cn!Reaches(host).via = "tunnel"
<1>1. cnConfig.tunnel = Cn!Asked.ssh /\ Cn!AskedHost # None
  BY ConnectAssumption DEF CnMade
<1>2. CASE Cn!Asked.ssh = None
  <2>1. host = Cn!AskedHost
    BY <1>2 DEF Pointed, Direct, Cn!CheckedName
  <2>2. Cn!Parts(Cn!View(cnSaid, cnSide)).host = Cn!AskedHost
    BY DEF CnMade
  <2> QED BY <1>1, <1>2, <2>1, <2>2 DEF Cn!Reaches
<1>3. CASE Cn!Asked.ssh # None
  <2>1. Tunnelled
    BY <1>3 DEF Pointed
  <2>2. \/ host = Cn!Loopback
        \/ host = cnConfig.name /\ host = Cn!AskedHost /\ cnConfig.kind = "trino"
    BY <1>1, <2>1 DEF Tunnelled, Cn!CheckedName
  <2>3. CASE host = Cn!Loopback
    BY <1>1, <1>3, <2>3 DEF Cn!Reaches
  <2>4. CASE host = cnConfig.name /\ host = Cn!AskedHost /\ cnConfig.kind = "trino"
    <3>1. host \notin Cn!Literals \/ cnConfig.name # host
      BY <1>1, <2>1, <2>2, <2>4 DEF Tunnelled
    <3> QED BY <1>1, <1>3, <2>4, <3>1 DEF Cn!Reaches
  <2> QED BY <2>2, <2>3, <2>4
<1> QED BY <1>2, <1>3

-----------------------------------------------------------------------------

\* The tunnel's end is where the driver is pointed, and the bastion alone was given its password.
LEMMA OpenTunnelKeeps ==
    ASSUME CnInv, Cn!OpenTunnel PROVE CnInv'
<1>1. /\ cnPc = "tunnel" /\ cnPc' \in {"dial", "failed"} /\ cnClear = FALSE /\ cnWire = {}
      /\ UNCHANGED <<cnSaid, cnServer, cnSide, cnClear, cnUrl, cnPages>>
      /\ CnMade /\ Direct /\ Cn!Asked.ssh # None /\ CnShape
  BY DEF Cn!OpenTunnel, CnInv
<1>2. UNCHANGED <<Cn!Asked, Cn!AskedHost, Cn!AskedWord, Cn!AskedVerified, Cn!OwnSecrets>>
  BY <1>1 DEF Cn!Asked, Cn!AskedHost, Cn!AskedWord, Cn!AskedVerified, Cn!OwnSecrets
<1>3. CnShape' /\ CnSession'
  BY <1>1 DEF CnShape, CnSession
<1>4. CASE cnPc' = "failed" /\ UNCHANGED <<cnConfig, cnWire>>
  <2>1. Cn!SecretsGuarded'
    BY <1>1, <1>4 DEF Cn!SecretsGuarded
  <2> QED BY <1>3, <1>4, <2>1 DEF CnInv
<1>5. CASE /\ cnPc' = "dial" /\ cnConfig' = Cn!Retarget(cnConfig)
           /\ cnWire' = IF cnConfig.tunnel.auth # "password" THEN cnWire
                        ELSE cnWire \cup {[secret |-> cnConfig.tunnel.password, at |-> "bastion",
                                           via |-> "direct", clear |-> FALSE]}
  <2>1. PICK c, d : c = cnConfig /\ d = cnConfig'
    OBVIOUS
  <2>2. c = [kind |-> c.kind, host |-> c.host, port |-> c.port, password |-> c.password,
             bearer |-> c.bearer, tls |-> c.tls, ca |-> c.ca, tunnel |-> c.tunnel, name |-> c.name]
    BY <1>1, <2>1 DEF CnMade
  <2>3. PICK n : n = IF c.kind = "postgres" \/ (c.kind = "trino" /\ c.host \notin Cn!Literals)
                     THEN c.host ELSE None
    OBVIOUS
  <2>4. d = [c EXCEPT !.name = n, !.host = Cn!Loopback, !.port = Cn!LocalPort]
    BY <1>5, <2>1, <2>3 DEF Cn!Retarget
  <2>5. d = [kind |-> c.kind, host |-> Cn!Loopback, port |-> Cn!LocalPort, password |-> c.password,
             bearer |-> c.bearer, tls |-> c.tls, ca |-> c.ca, tunnel |-> c.tunnel, name |-> n]
    BY <2>2, <2>4
  <2>6. /\ d.kind = c.kind /\ d.host = Cn!Loopback /\ d.password = c.password
        /\ d.bearer = c.bearer /\ d.tls = c.tls /\ d.ca = c.ca /\ d.tunnel = c.tunnel
        /\ d.name = n /\ d.port = Cn!LocalPort
    BY <2>5
  <2>7. CnMade'
    <3>1. Cn!Secret' = Cn!Secret
      BY <2>1, <2>6 DEF Cn!Secret
    <3>2. UNCHANGED Cn!Parts(Cn!View(cnSaid, cnSide))
      BY <1>1
    <3>3. cnConfig' = [kind |-> cnConfig'.kind, host |-> cnConfig'.host, port |-> cnConfig'.port,
                       password |-> cnConfig'.password, bearer |-> cnConfig'.bearer,
                       tls |-> cnConfig'.tls, ca |-> cnConfig'.ca, tunnel |-> cnConfig'.tunnel,
                       name |-> cnConfig'.name]
      BY <2>1, <2>5, <2>6
    <3> QED BY <1>1, <1>2, <2>1, <2>6, <3>1, <3>2, <3>3 DEF CnMade
  <2>8. Tunnelled'
    <3>1. c.host = Cn!AskedHost /\ c.kind \in {"trino", "postgres", "mysql"}
      BY <1>1, <2>1 DEF CnMade, Direct
    <3>2. CASE c.kind = "postgres" \/ (c.kind = "trino" /\ c.host \notin Cn!Literals)
      BY <1>2, <2>1, <2>3, <2>6, <3>1, <3>2 DEF Tunnelled
    <3>3. CASE ~(c.kind = "postgres" \/ (c.kind = "trino" /\ c.host \notin Cn!Literals))
      BY <1>2, <2>1, <2>3, <2>6, <3>1, <3>3 DEF Tunnelled
    <3> QED BY <3>2, <3>3
  <2>9. Cn!SecretsGuarded'
    <3>1. \A w \in cnWire' : w.secret = Cn!Asked.ssh.password /\ w.at = "bastion"
      <4>1. PICK h : h = Cn!Asked.ssh
        OBVIOUS
      <4>2. cnConfig.tunnel = h
        BY <1>1, <4>1 DEF CnMade
      <4>3. \A w \in cnWire' : w = [secret |-> h.password, at |-> "bastion", via |-> "direct",
                                    clear |-> FALSE]
        BY <1>1, <1>5, <4>2
      <4> QED BY <4>1, <4>3
    <3>2. Cn!Asked.ssh.password \in Cn!OwnSecrets
      BY <1>1 DEF Cn!OwnSecrets
    <3> QED BY <1>2, <3>1, <3>2 DEF Cn!SecretsGuarded
  <2> QED BY <1>1, <1>2, <1>3, <1>5, <2>7, <2>8, <2>9 DEF CnInv
<1> QED BY <1>1, <1>4, <1>5 DEF Cn!OpenTunnel

\* A step that sends nothing and keeps the configuration has only its own counters to answer for.
LEMMA SilentKeeps ==
    ASSUME CnInv, UNCHANGED <<cnSaid, cnServer, cnSide, cnConfig, cnWire>>,
           cnPc \notin {"settings", "tunnel", "failed"}, cnPc' \notin {"settings", "tunnel", "dial"},
           CnShape', CnSession'
    PROVE  CnInv'
<1>1. CnMade /\ Pointed /\ Cn!SecretsGuarded
  BY DEF CnInv, Pointed
<1>2. CnMade' /\ Pointed' /\ Cn!SecretsGuarded'
  BY <1>1, Kept
<1> QED BY <1>2 DEF CnInv, Pointed

LEMMA DialKeeps ==
    ASSUME CnInv, Cn!PostgresDial \/ Cn!MysqlDial PROVE CnInv'
<1>1. /\ cnPc = "dial" /\ cnConfig.kind # "trino" /\ cnClear = FALSE
      /\ UNCHANGED <<cnSaid, cnServer, cnSide, cnConfig, cnWire>> /\ Cn!FirstAttempt /\ CnShape
  BY DEF Cn!PostgresDial, Cn!MysqlDial, Cn!FirstAttempt, CnInv
<1>2. /\ cnPc' \in {"login", "retry", "failed"} /\ cnClear' \in BOOLEAN
      /\ cnPc' = "retry" => cnConfig.tls = "Prefer"
      /\ cnPc' = "login" => IF cnClear' THEN cnConfig.tls = "Disable"
                            ELSE cnConfig.tls # "Disable" /\ Cn!HandshakeHolds
  <2>1. CASE cnConfig.tls = "Disable" /\ cnClear' = TRUE /\ cnPc' = "login"
    BY <2>1
  <2>2. CASE cnConfig.tls # "Disable" /\ Cn!HandshakeHolds /\ cnPc' = "login" /\ cnClear' = cnClear
    BY <1>1, <2>2
  <2>3. CASE (cnPc' = IF Cn!MayFallBack THEN "retry" ELSE "failed") /\ cnClear' = cnClear
    BY <1>1, <2>3 DEF Cn!MayFallBack
  <2>4. CASE cnPc' = "failed" /\ cnClear' = cnClear
    BY <1>1, <2>4
  <2> QED BY <1>1, <2>1, <2>2, <2>3, <2>4 DEF Cn!FirstAttempt
<1>3. CnShape'
  BY <1>1, <1>2 DEF CnShape
<1>4. CnSession'
  BY <1>1, <1>2, Kept DEF CnSession
<1> QED BY <1>1, <1>2, <1>3, <1>4, SilentKeeps

LEMMA DialInClearKeeps ==
    ASSUME CnInv, Cn!DialInClear PROVE CnInv'
<1>1. /\ cnPc = "retry" /\ cnPc' = "login" /\ cnClear' = TRUE /\ cnConfig.kind # "trino"
      /\ UNCHANGED <<cnSaid, cnServer, cnSide, cnConfig, cnWire>>
      /\ cnConfig.tls = "Prefer" /\ CnShape
  BY DEF Cn!DialInClear, CnInv, CnSession
<1>2. CnShape' /\ CnSession'
  BY <1>1 DEF CnShape, CnSession
<1> QED BY <1>1, <1>2, SilentKeeps

LEMMA GiveUpKeeps ==
    ASSUME CnInv, Cn!GiveUp \/ Cn!RequestFails PROVE CnInv'
<1>1. /\ cnPc \notin {"settings", "tunnel", "failed"} /\ cnPc' = "failed" /\ cnClear' = cnClear
      /\ UNCHANGED <<cnSaid, cnServer, cnSide, cnConfig, cnWire>> /\ CnShape
  BY DEF Cn!GiveUp, Cn!RequestFails, CnInv
<1>2. CnShape' /\ CnSession'
  BY <1>1 DEF CnShape, CnSession
<1> QED BY <1>1, <1>2, SilentKeeps

LEMMA TrinoConnectKeeps ==
    ASSUME CnInv, Cn!TrinoConnect \/ Cn!RequestInClear PROVE CnInv'
<1>1. /\ cnPc \in {"dial", "pages"} /\ cnPc' = "pages" /\ cnClear' \in BOOLEAN
      /\ cnConfig.kind = "trino"
      /\ UNCHANGED <<cnSaid, cnServer, cnSide, cnConfig, cnWire>> /\ CnShape
  BY DEF Cn!TrinoConnect, Cn!RequestInClear, CnInv, CnSession, CnShape
<1>2. CnShape' /\ CnSession'
  BY <1>1 DEF CnShape, CnSession
<1> QED BY <1>1, <1>2, SilentKeeps

-----------------------------------------------------------------------------

\* What a step that sends one secret of its own leaves behind.
LEMMA SendingKeeps ==
    ASSUME CnInv, UNCHANGED <<cnSaid, cnServer, cnSide, cnConfig>>,
           cnPc \notin {"settings", "tunnel", "failed"}, NEW secret, cnWire' = Cn!Send(secret),
           secret # None =>
             /\ secret \in Cn!OwnSecrets
             /\ Cn!Dialled = cnConfig.host \/ (cnConfig.kind = "trino" /\ Cn!Dialled = Cn!CheckedName)
             /\ IF cnConfig.kind = "trino" THEN cnUrl.scheme # "http" ELSE TRUE
             /\ IF cnConfig.kind # "trino" /\ cnClear THEN cnConfig.tls \in {"Disable", "Prefer"}
                ELSE Cn!HandshakeHolds
    PROVE  Cn!SecretsGuarded'
<1>1. CnMade /\ Pointed /\ Cn!SecretsGuarded /\ CnShape
  BY DEF CnInv, Pointed
<1>2. UNCHANGED <<Cn!Asked, Cn!AskedHost, Cn!AskedWord, Cn!AskedVerified, Cn!OwnSecrets>>
  BY DEF Cn!Asked, Cn!AskedHost, Cn!AskedWord, Cn!AskedVerified, Cn!OwnSecrets
<1>3. CASE secret = None
  BY <1>1, <1>3, Kept DEF Cn!Send
<1>4. CASE secret # None
  <2>1. PICK r : r = Cn!Reaches(Cn!Dialled)
    OBVIOUS
  <2>2. r.at = "database" /\ (Cn!Asked.ssh # None => r.via = "tunnel")
    <3>1. PICK host : host = Cn!Dialled
      OBVIOUS
    <3>2. host = cnConfig.host \/ (cnConfig.kind = "trino" /\ host = Cn!CheckedName)
      BY <1>4, <3>1
    <3> QED BY <1>1, <2>1, <3>1, <3>2, ReachesOwn
  <2> DEFINE inClear == IF cnConfig.kind = "trino" THEN cnUrl.scheme = "http" ELSE cnClear
  <2>3. cnWire' = cnWire \cup {[secret |-> secret, at |-> r.at, via |-> r.via, clear |-> inClear]}
    BY <1>4, <2>1, Zenon DEF Cn!Send
  <2>4. inClear => cnConfig.kind # "trino" /\ cnConfig.tls \in {"Disable", "Prefer"}
    BY <1>4 DEF CnInv
  <2>5. ~inClear => Cn!HandshakeHolds
    BY <1>4
  <2> HIDE DEF inClear
  <2>6. inClear => /\ Cn!AskedWord \in {"", "prefer", "disable"}
                   /\ Cn!Asked.insecure => Cn!AskedWord = "disable"
    BY <1>1, <2>4 DEF CnMade
  <2>7. Cn!AskedVerified \/ Cn!Asked.ca # "" =>
          /\ cnServer.tls = "yes" /\ Cn!AskedHost \in cnServer.names
          /\ cnServer.issuer \in IF Cn!Asked.ca # "" THEN {"private"} ELSE {"public", "corporate"}
    <3>1. Cn!AskedVerified \/ Cn!Asked.ca # "" => cnConfig.tls = "Require"
      BY <1>1 DEF CnMade
    <3>2. cnConfig.tls = "Require" => Cn!HandshakeHolds
      BY <2>4, <2>5
    <3> QED BY <1>1, <3>1, <3>2, Vouched
  <2>8. PICK m : m = [secret |-> secret, at |-> r.at, via |-> r.via, clear |-> inClear]
    OBVIOUS
  <2>9. m.secret = secret /\ m.at = r.at /\ m.via = r.via /\ (m.clear <=> inClear)
    BY <2>8
  <2>10. secret \in Cn!OwnSecrets
    BY <1>4
  <2> DEFINE Fine(x) ==
        /\ x.secret \in Cn!OwnSecrets
        /\ x.at # "bastion" =>
            /\ x.at = "database" /\ (Cn!Asked.ssh # None => x.via = "tunnel")
            /\ x.clear =>
                /\ cnConfig.kind # "trino" /\ Cn!AskedWord \in {"", "prefer", "disable"}
                /\ Cn!Asked.insecure => Cn!AskedWord = "disable"
            /\ Cn!AskedVerified \/ Cn!Asked.ca # "" =>
                /\ cnServer.tls = "yes" /\ Cn!AskedHost \in cnServer.names
                /\ cnServer.issuer \in IF Cn!Asked.ca # "" THEN {"private"}
                                       ELSE {"public", "corporate"}
  <2>11. Fine(m)
    BY <2>2, <2>4, <2>6, <2>7, <2>9, <2>10
  <2>12. \A x \in cnWire : Fine(x)
    BY <1>1, Zenon DEF Cn!SecretsGuarded
  <2>13. \A x \in cnWire' : Fine(x)
    <3> HIDE DEF Fine
    <3> QED BY <2>3, <2>8, <2>11, <2>12
  <2> QED BY <1>2, <2>13 DEF Cn!SecretsGuarded
<1> QED BY <1>3, <1>4

LEMMA SentKeeps ==
    ASSUME CnInv, UNCHANGED <<cnSaid, cnServer, cnSide, cnConfig>>,
           cnPc \notin {"settings", "tunnel", "failed"}, cnPc' \notin {"settings", "tunnel", "dial"},
           CnShape', CnSession', Cn!SecretsGuarded'
    PROVE  CnInv'
<1>1. CnMade /\ Pointed
  BY DEF CnInv, Pointed
<1>2. CnMade' /\ Pointed'
  BY <1>1, Kept
<1> QED BY <1>2 DEF CnInv, Pointed

LEMMA LoginKeeps ==
    ASSUME CnInv, Cn!Login PROVE CnInv'
<1>1. /\ cnPc = "login" /\ cnPc' = "open" /\ cnWire' = Cn!Send(cnConfig.password)
      /\ UNCHANGED <<cnSaid, cnServer, cnSide, cnConfig, cnClear>>
      /\ CnShape /\ CnMade /\ CnSession
  BY DEF Cn!Login, CnInv
<1>2. /\ cnConfig.kind # "trino"
      /\ IF cnClear THEN cnConfig.tls \in {"Disable", "Prefer"} ELSE Cn!HandshakeHolds
  BY <1>1 DEF CnSession
<1>3. PICK secret : secret = cnConfig.password
  OBVIOUS
<1>4. secret # None => secret \in Cn!OwnSecrets
  BY <1>1, <1>3 DEF CnMade
<1>5. Cn!Dialled = cnConfig.host
  BY <1>2 DEF Cn!Dialled
<1>6. IF cnConfig.kind # "trino" /\ cnClear THEN cnConfig.tls \in {"Disable", "Prefer"}
      ELSE Cn!HandshakeHolds
  BY <1>2
<1>7. Cn!SecretsGuarded'
  BY <1>1, <1>2, <1>3, <1>4, <1>5, <1>6, SendingKeeps
<1>8. CnShape' /\ CnSession'
  BY <1>1 DEF CnShape, CnSession
<1> QED BY <1>1, <1>7, <1>8, SentKeeps

LEMMA RequestKeeps ==
    ASSUME CnInv, Cn!Request PROVE CnInv'
<1>1. /\ cnPc = "pages" /\ cnPc' \in {"pages", "open"} /\ cnWire' = Cn!Send(Cn!Secret)
      /\ Cn!MayCarry(cnUrl) /\ (cnUrl.scheme = "http" \/ Cn!HandshakeHolds)
      /\ UNCHANGED <<cnSaid, cnServer, cnSide, cnConfig, cnClear>>
      /\ CnShape /\ CnMade /\ CnSession
  BY DEF Cn!Request, CnInv
<1>2. cnConfig.kind = "trino"
  BY <1>1 DEF CnSession
<1>3. PICK secret : secret = Cn!Secret
  OBVIOUS
<1>4. secret # None => secret \in Cn!OwnSecrets
  BY <1>1, <1>3 DEF CnMade, Cn!Secret
<1>5. secret # None => cnUrl.host = Cn!CheckedName /\ cnUrl.scheme = "https"
  <2>1. secret # None => cnUrl = Cn!Base /\ cnConfig.tls # "Disable"
    BY <1>1, <1>2, <1>3 DEF Cn!MayCarry, Cn!SameOrigin, CnMade
  <2> QED BY <2>1 DEF Cn!Base
<1>6. secret # None => /\ Cn!Dialled = Cn!CheckedName
                       /\ cnUrl.scheme # "http"
                       /\ Cn!HandshakeHolds
  BY <1>1, <1>2, <1>5 DEF Cn!Dialled
<1>7. Cn!SecretsGuarded'
  BY <1>1, <1>2, <1>3, <1>4, <1>6, SendingKeeps
<1>8. CnShape' /\ CnSession'
  BY <1>1, <1>2 DEF CnShape, CnSession
<1> QED BY <1>1, <1>7, <1>8, SentKeeps

-----------------------------------------------------------------------------

CnStays == part = "connect" => CnInv

LEMMA CnStarts == AppInit => CnStays
<1> SUFFICES ASSUME AppInit, part = "connect" PROVE CnInv
  BY DEF CnStays
<1>1. /\ \E f \in DOMAIN GivenSettings : cnSaid \in GivenSettings[f]
      /\ cnServer \in KnownServers /\ cnSide = "" /\ cnPc = "settings" /\ cnClear = FALSE
      /\ cnWire = {}
  BY DEF AppInit, Cn!Init
<1>2. CnShape
  BY <1>1, ConnectAssumption DEF CnShape
<1>3. CnSession
  BY <1>1 DEF CnSession
<1>4. Cn!SecretsGuarded
  BY <1>1 DEF Cn!SecretsGuarded
<1> QED BY <1>1, <1>2, <1>3, <1>4 DEF CnInv

LEMMA CnFrame ==
    ASSUME CnInv, UNCHANGED cnVars PROVE CnInv'
<1>1. UNCHANGED <<cnSaid, cnServer, cnSide, cnPc, cnConfig, cnClear, cnUrl, cnWire, cnPages>>
  BY DEF cnVars
<1>2. CnShape' /\ Cn!SecretsGuarded' /\ UNCHANGED Cn!Asked /\ (CnMade => CnMade')
  BY <1>1, Kept DEF CnInv, CnShape
<1>3. CnSession'
  BY <1>1, Kept DEF CnInv, CnSession
<1>4. (Direct => Direct') /\ (Tunnelled => Tunnelled')
  <2>1. UNCHANGED Cn!AskedHost
    BY <1>2 DEF Cn!AskedHost
  <2> QED BY <1>1, <2>1 DEF Direct, Tunnelled
<1> QED BY <1>1, <1>2, <1>3, <1>4 DEF CnInv

LEMMA CnGoes == CnStays /\ [AppNext]_AppVars => CnStays'
<1> SUFFICES ASSUME CnStays, [AppNext]_AppVars, part' = "connect" PROVE CnInv'
  BY DEF CnStays
<1>1. part = "connect" /\ CnInv
  BY DEF AppNext, StoreStep, McpStep, ConnectStep, AppVars, CnStays
<1>2. CASE ConnectStep
  <2>1. Cn!Next
    BY <1>2 DEF ConnectStep
  <2>2. ASSUME NEW where \in {"", "DEST"}, Cn!Configure(where) PROVE CnInv'
    BY <1>1, <2>2, ConfigureKeeps
  <2>3. CASE Cn!OpenTunnel
    BY <1>1, <2>3, OpenTunnelKeeps
  <2>4. CASE Cn!PostgresDial \/ Cn!MysqlDial
    BY <1>1, <2>4, DialKeeps
  <2>5. CASE Cn!DialInClear
    BY <1>1, <2>5, DialInClearKeeps
  <2>6. CASE Cn!Login
    BY <1>1, <2>6, LoginKeeps
  <2>7. CASE Cn!GiveUp \/ Cn!RequestFails
    BY <1>1, <2>7, GiveUpKeeps
  <2>8. CASE Cn!TrinoConnect \/ Cn!RequestInClear
    BY <1>1, <2>8, TrinoConnectKeeps
  <2>9. CASE Cn!Request
    BY <1>1, <2>9, RequestKeeps
  <2> QED BY <2>1, <2>2, <2>3, <2>4, <2>5, <2>6, <2>7, <2>8, <2>9 DEF Cn!Next
<1>3. CASE UNCHANGED cnVars
  BY <1>1, <1>3, CnFrame
<1>4. ConnectStep \/ UNCHANGED cnVars
  BY <1>1 DEF AppNext, StoreStep, McpStep, AppVars
<1> QED BY <1>2, <1>3, <1>4

\* Every credential that leaves is the connection's own, and goes only where, and only as, the
\* settings say: for every family of settings, every database and every number of pages (config.rs
\* build, tunnel.rs retarget, the drivers' connect).
THEOREM SecretsAreGuarded == AppSpec => []SecretsGuarded
<1>1. CnStays => SecretsGuarded
  BY DEF CnStays, CnInv, SecretsGuarded
<1> QED BY <1>1, CnStarts, CnGoes, PTL DEF AppSpec
=============================================================================
