---------------------------- MODULE ResultsProofs ----------------------------
(***************************************************************************)
(* The views of crates/qh-result-store for every number of chunks, views   *)
(* and pool tasks: once nothing is under way, the current view shows every *)
(* matching row that was published (store.rs set_view, push, finish,       *)
(* maybe_expand_view, expand_view).  And the runs that fill a store        *)
(* (crates/qh-ffi host.rs, commands.rs) for every number of calls and rows *)
(* and every LIMIT.                                                        *)
(***************************************************************************)
EXTENDS MCResults, SequenceTheorems, TLAPS

\* A task that holds the right to expand its view, and one that may still take it again.
Holds(x) == task[x].pc \in {"snap", "scan", "mark", "end"}
Coming == \E x \in Pool : task[x].view = current /\ task[x].pc # "off"

\* The view shows the matching rows of the first n chunks.
Covered(v, n) == \A r \in matching \cap (1 .. n) : Shows(v, r)

\* The call of set_view: the id it took is the next one, and what it saw of the run and of the
\* chunk table is still true, unless its view is one that grows.
SetterOK ==
    /\ seq = IF setter.pc \in {"compute", "install"} THEN current + 1 ELSE current
    /\ setter.upto <= count
    /\ setter.pc \in {"compute", "install"} /\ ~setter.streaming => finished
    /\ setter.pc = "install" /\ ~setter.streaming => setter.upto = count

\* A task works on a view that is installed, on chunks that are listed, and up to where it began
\* the view is complete; the expansion of finish sees every chunk.
TaskOK(x) ==
    /\ task[x].pc # "off" => task[x].view \in 1 .. current
    /\ task[x].pc \in {"scan", "mark"} => task[x].from <= task[x].upto /\ task[x].upto <= count
    /\ task[x].pc = "scan" => Covered(task[x].view, task[x].from)
    /\ task[x].pc = "mark" => Covered(task[x].view, task[x].upto)

FinisherOK ==
    /\ task[Finisher].pc \in {"off", "snap", "scan", "mark"}
    /\ task[Finisher].pc # "off" => finished
    /\ task[Finisher].pc \in {"scan", "mark"} => task[Finisher].upto = count

\* Up to its watermark a view is complete, and the right to expand it is in somebody's hands.
ViewOK(v) ==
    /\ view[v].scanned <= count
    /\ Covered(v, view[v].scanned)
    /\ view[v].expanding => \E x \in Pool : Holds(x) /\ task[x].view = v

\* The current view: one that does not grow is complete, and one that owes rows will be looked at.
CurrentOK ==
    current # 0 =>
        /\ ~view[current].expandable => finished /\ Covered(current, count)
        /\ Owes => writer = "hook" \/ setter.pc = "hook" \/ Coming

ViewInv ==
    /\ TypeOK
    /\ writer \in {"final", "done"} => finished
    /\ SetterOK
    /\ \A x \in Expanders : TaskOK(x)
    /\ FinisherOK
    /\ \A v \in ViewIds : ViewOK(v)
    /\ CurrentOK

-----------------------------------------------------------------------------
(* Types.                                                                  *)

LEMMA Bounds ==
  ASSUME TypeOK
  PROVE  /\ MaxChunks \in Nat /\ MaxViews \in Nat /\ count \in Nat /\ current \in Nat /\ seq \in Nat
         /\ Finisher \in Expanders /\ Finisher \notin Pool /\ Pool \subseteq Expanders
         /\ view \in [ViewIds -> View] /\ task \in [Expanders -> Task] /\ setter \in Setter
         /\ (current # 0 => current \in ViewIds)
  BY ViewAssumption DEF TypeOK, Expanders, ViewIds

LEMMA ViewFields ==
  ASSUME TypeOK, NEW v \in ViewIds
  PROVE  /\ view[v] \in View /\ view[v].rows \in Seq(SUBSET (1 .. MaxChunks))
         /\ view[v].scanned \in 0 .. MaxChunks /\ view[v].scanned \in Nat
         /\ view[v].expandable \in BOOLEAN /\ view[v].expanding \in BOOLEAN
         /\ view[v].cancelled \in BOOLEAN
  BY Bounds DEF TypeOK, View

LEMMA TaskFields ==
  ASSUME TypeOK, NEW x \in Expanders
  PROVE  /\ task[x] \in Task /\ task[x].pc \in {"off", "snap", "scan", "mark", "end", "recheck"}
         /\ task[x].view \in 0 .. MaxViews /\ task[x].from \in 0 .. MaxChunks
         /\ task[x].upto \in 0 .. MaxChunks /\ task[x].from \in Nat /\ task[x].upto \in Nat
         /\ task[x].view \in Nat
  BY Bounds DEF TypeOK, Task

\* What a scan of the chunks from n to m adds.
LEMMA Appended ==
  ASSUME NEW rows \in Seq(SUBSET (1 .. MaxChunks)), NEW S \in SUBSET (1 .. MaxChunks)
  PROVE  /\ Append(rows, S) \in Seq(SUBSET (1 .. MaxChunks))
         /\ \A r : (\E i \in DOMAIN rows : r \in rows[i]) => \E i \in DOMAIN Append(rows, S) : r \in Append(rows, S)[i]
         /\ \A r \in S : \E i \in DOMAIN Append(rows, S) : r \in Append(rows, S)[i]
<1> DEFINE all == Append(rows, S)
<1>1. /\ all \in Seq(SUBSET (1 .. MaxChunks)) /\ Len(rows) \in Nat /\ Len(all) = Len(rows) + 1
      /\ all[Len(rows) + 1] = S /\ \A i \in 1 .. Len(rows) : all[i] = rows[i]
      /\ DOMAIN rows = 1 .. Len(rows) /\ DOMAIN all = 1 .. Len(all)
  OBVIOUS
<1> HIDE DEF all
<1>2. DOMAIN rows \subseteq DOMAIN all /\ Len(rows) + 1 \in DOMAIN all
  BY <1>1
<1>3. \A r : (\E i \in DOMAIN rows : r \in rows[i]) => \E i \in DOMAIN all : r \in all[i]
  BY <1>1, <1>2
<1>4. \A r \in S : \E i \in DOMAIN all : r \in all[i]
  BY <1>1, <1>2
<1> QED BY <1>1, <1>3, <1>4 DEF all

LEMMA ViewInit == Init => ViewInv
<1> SUFFICES ASSUME Init PROVE ViewInv
  OBVIOUS
<1>1. NoView \in View /\ NoTask \in Task /\ NoSetter \in Setter
  BY ViewAssumption DEF NoView, View, NoTask, Task, NoSetter, Setter
<1>2. TypeOK
  <2>1. view \in [ViewIds -> View]
    BY <1>1 DEF Init
  <2>2. task \in [Expanders -> Task]
    BY <1>1 DEF Init
  <2>3. setter \in Setter
    BY <1>1 DEF Init
  <2>4. matching \subseteq 1 .. MaxChunks /\ finished \in BOOLEAN /\ writer \in {"idle", "hook", "final", "done"}
    BY Zenon DEF Init
  <2>5. count \in 0 .. MaxChunks /\ current \in 0 .. MaxViews /\ seq \in 0 .. MaxViews
    BY ViewAssumption DEF Init
  <2> QED BY <2>1, <2>2, <2>3, <2>4, <2>5 DEF TypeOK
<1>3. /\ \A x \in Expanders : task[x].pc = "off"
      /\ \A v \in ViewIds : view[v].scanned = 0 /\ ~view[v].expanding
      /\ setter.pc = "idle" /\ setter.upto = 0 /\ count = 0 /\ current = 0 /\ seq = 0
      /\ writer = "idle" /\ Finisher \in Expanders
  BY <1>2, Bounds DEF Init, NoTask, NoView, NoSetter
<1>4. SetterOK
  BY <1>3 DEF SetterOK
<1>5. (\A x \in Expanders : TaskOK(x)) /\ FinisherOK
  BY <1>3 DEF TaskOK, FinisherOK
<1>6. \A v \in ViewIds : ViewOK(v)
  BY <1>3 DEF ViewOK, Covered
<1>7. CurrentOK
  BY <1>3 DEF CurrentOK
<1> QED BY <1>2, <1>3, <1>4, <1>5, <1>6, <1>7 DEF ViewInv

-----------------------------------------------------------------------------
(* What a step keeps.                                                      *)

\* A view that loses no row stays complete.
LEMMA CoveredKept ==
  ASSUME NEW v, NEW n, matching' = matching, \A r : Shows(v, r) => Shows(v, r)', Covered(v, n)
  PROVE  Covered(v, n)'
  BY DEF Covered

LEMMA TaskKept ==
  ASSUME ViewInv, NEW x \in Expanders, task'[x] = task[x], matching' = matching,
         count' \in Nat, count <= count', current' \in Nat, current <= current',
         \A v \in 1 .. current : \A r : Shows(v, r) => Shows(v, r)'
  PROVE  TaskOK(x)'
<1>1. TypeOK /\ TaskOK(x)
  BY DEF ViewInv
<1>2. PICK t : t = task[x]
  OBVIOUS
<1>3. /\ t.view \in Nat /\ t.from \in Nat /\ t.upto \in Nat /\ count \in Nat /\ current \in Nat
  BY <1>1, <1>2, TaskFields, Bounds
<1>4. /\ t.pc # "off" => t.view \in 1 .. current
      /\ t.pc \in {"scan", "mark"} => t.from <= t.upto /\ t.upto <= count
      /\ t.pc = "scan" => Covered(t.view, t.from)
      /\ t.pc = "mark" => Covered(t.view, t.upto)
  BY <1>1, <1>2 DEF TaskOK
<1>5. /\ t.pc = "scan" => Covered(t.view, t.from)'
      /\ t.pc = "mark" => Covered(t.view, t.upto)'
  <2>1. CASE t.pc = "scan"
    BY <2>1, <1>4, CoveredKept
  <2>2. CASE t.pc = "mark"
    BY <2>2, <1>4, CoveredKept
  <2> QED BY <2>1, <2>2
<1>6. task'[x] = t
  BY <1>2
<1>7. t.pc # "off" => t.view \in 1 .. current'
  BY <1>3, <1>4
<1>8. t.pc \in {"scan", "mark"} => t.from <= t.upto /\ t.upto <= count'
  BY <1>3, <1>4
<1> QED BY <1>5, <1>6, <1>7, <1>8 DEF TaskOK

LEMMA ViewKept ==
  ASSUME ViewInv, NEW v \in ViewIds, matching' = matching, count' \in Nat, count <= count',
         \A r : Shows(v, r) => Shows(v, r)', view'[v].scanned = view[v].scanned,
         view'[v].expanding =>
             \E x \in Pool : task'[x].pc \in {"snap", "scan", "mark", "end"} /\ task'[x].view = v
  PROVE  ViewOK(v)'
<1>1. PICK n : n = view[v].scanned
  OBVIOUS
<1>2. TypeOK /\ n <= count /\ Covered(v, n)
  BY <1>1 DEF ViewInv, ViewOK
<1>3. Covered(v, n)'
  BY <1>2, CoveredKept
<1>4. n \in Nat /\ count \in Nat
  BY <1>1, <1>2, ViewFields, Bounds
<1>5. view'[v].scanned = n /\ n <= count'
  BY <1>1, <1>2, <1>4
<1> QED BY <1>3, <1>5 DEF ViewOK, Holds

-----------------------------------------------------------------------------
(* Expansion.                                                              *)

\* One step of a task between its start and the end of its scan.
LEMMA Expansion ==
  ASSUME ViewInv, NEW x \in Expanders, NEW t \in Task, NEW v \in ViewIds, NEW w \in View,
         UNCHANGED <<matching, count, finished, current, seq, writer, setter>>,
         task[x].pc \in {"snap", "scan", "mark"}, v = task[x].view,
         task' = [task EXCEPT ![x] = t], view' = [view EXCEPT ![v] = w],
         x # Finisher => t.pc \in {"scan", "mark", "end"} /\ t.view = v,
         x = Finisher => t.pc \in {"off", "scan", "mark"},
         t.pc \in {"scan", "mark"} =>
            /\ t.view = v /\ t.from <= t.upto /\ t.upto <= count
            /\ x = Finisher => t.upto = count,
         t.pc = "scan" => Covered(v, t.from)', t.pc = "mark" => Covered(v, t.upto)',
         w.expanding = view[v].expanding, w.expandable = view[v].expandable,
         view[v].cancelled => w.cancelled, \A r : Shows(v, r) => Shows(v, r)',
         \/ w.scanned = view[v].scanned
         \/ w.scanned <= count /\ Covered(v, w.scanned)' /\ (x = Finisher => w.scanned = count)
  PROVE  ViewInv'
<1>1. TypeOK /\ TaskOK(x) /\ FinisherOK /\ CurrentOK /\ SetterOK
  BY DEF ViewInv
<1>2. TypeOK'
  BY <1>1, Bounds DEF TypeOK
<1>3. \A y \in Expanders \ {x} : task'[y] = task[y]
  BY <1>1, Bounds
<1>4. task'[x] = t /\ view'[v] = w /\ (\A u \in ViewIds \ {v} : view'[u] = view[u])
  BY <1>1, Bounds
<1>5. count' = count /\ current' = current /\ count \in Nat /\ current \in Nat /\ current \in 0 .. MaxViews
  BY <1>1, Bounds DEF TypeOK
<1>6. \A u \in ViewIds : \A r : Shows(u, r) => Shows(u, r)'
  BY <1>4 DEF Shows
<1>7. v \in 1 .. current
  BY <1>1 DEF TaskOK
<1>8. ASSUME NEW y \in Expanders PROVE TaskOK(y)'
  <2>1. CASE y # x
    BY <2>1, <1>3, <1>5, <1>6, TaskKept, ViewAssumption DEF ViewIds
  <2>2. CASE y = x
    <3>1. t.view # v => t.pc = "off"
      OBVIOUS
    <3> QED BY <2>2, <3>1, <1>4, <1>5, <1>7 DEF TaskOK
  <2> QED BY <2>1, <2>2
<1>9. FinisherOK'
  <2>1. CASE x = Finisher
    BY <2>1, <1>1, <1>4, <1>5 DEF FinisherOK
  <2>2. CASE x # Finisher
    <3>1. task'[Finisher] = task[Finisher]
      BY <2>2, <1>1, <1>3, Bounds
    <3> QED BY <3>1, <1>1, <1>5 DEF FinisherOK
  <2> QED BY <2>1, <2>2
<1>10. ASSUME NEW y \in Pool, task[y].pc \in {"snap", "scan", "mark", "end"}
       PROVE  task'[y].pc \in {"snap", "scan", "mark", "end"} /\ task'[y].view = task[y].view
  <2>1. y \in Expanders /\ y # Finisher
    BY <1>1, Bounds
  <2>2. CASE y = x
    BY <2>1, <2>2, <1>4
  <2>3. CASE y # x
    BY <2>1, <2>3, <1>3, <1>10
  <2> QED BY <2>2, <2>3
<1>11. ASSUME NEW u \in ViewIds PROVE ViewOK(u)'
  <2>1. view'[u].expanding = view[u].expanding
    BY <1>4
  <2>2. view[u].expanding =>
            \E y \in Pool : task[y].pc \in {"snap", "scan", "mark", "end"} /\ task[y].view = u
    BY DEF ViewInv, ViewOK, Holds
  <2>3. view'[u].expanding =>
            \E y \in Pool : task'[y].pc \in {"snap", "scan", "mark", "end"} /\ task'[y].view = u
    BY <2>1, <2>2, <1>10
  <2>4. CASE view'[u].scanned = view[u].scanned
    BY <2>3, <2>4, <1>5, <1>6, ViewKept
  <2>5. CASE u = v /\ w.scanned <= count /\ Covered(v, w.scanned)'
    BY <2>3, <2>5, <1>4, <1>5 DEF ViewOK, Holds
  <2> QED BY <2>4, <2>5, <1>4
<1>12. CurrentOK'
  <2> SUFFICES ASSUME current # 0
               PROVE  /\ ~view'[current].expandable => finished /\ Covered(current, count)'
                      /\ Owes' => writer = "hook" \/ setter.pc = "hook" \/ Coming'
    BY <1>5 DEF CurrentOK
  <2>1. current \in ViewIds /\ current' = current
    BY <1>1, <1>5, Bounds
  <2>2. PICK c, n : c = current /\ n = count
    OBVIOUS
  <2>3. view'[c].expandable = view[c].expandable
    BY <2>1, <2>2, <1>4
  <2>4. ~view[c].expandable => finished /\ Covered(c, n)
    BY <1>1, <2>2 DEF CurrentOK
  <2>5. Covered(c, n) => Covered(c, n)'
    BY <2>1, <2>2, <1>6, CoveredKept
  <2>6. Covered(c, n)' <=> Covered(current, count)'
    BY <2>2, <1>5
  <2>7. ~view'[current].expandable => finished /\ Covered(current, count)'
    BY <2>2, <2>3, <2>4, <2>5, <2>6
  <2>8. Coming => Coming'
    <3>1. ASSUME NEW y \in Pool, task[y].view = current, task[y].pc # "off"
          PROVE  task'[y].view = current' /\ task'[y].pc # "off"
      <4>1. y \in Expanders /\ y # Finisher
        BY <1>1, Bounds
      <4> QED BY <4>1, <3>1, <2>1, <1>3, <1>4
    <3> QED BY <3>1 DEF Coming
  <2>9. ASSUME Owes' PROVE writer = "hook" \/ setter.pc = "hook" \/ Coming'
    <3>1. CASE Owes
      BY <3>1, <2>8, <1>1 DEF CurrentOK
    <3>2. CASE ~Owes
      <4>1. /\ view'[c].expandable /\ ~view'[c].cancelled /\ view'[c].scanned < count /\ c \in ViewIds
        BY <2>9, <2>1, <2>2, <1>5 DEF Owes
      <4>2. ~(view[c].expandable /\ ~view[c].cancelled /\ view[c].scanned < count)
        BY <3>2, <2>2 DEF Owes
      <4>3. c = v
        BY <4>1, <4>2, <1>4
      <4>4. view'[c] = w
        BY <4>3, <1>4
      <4>5. w.scanned # view[v].scanned
        BY <4>1, <4>2, <4>3, <4>4
      <4>6. x # Finisher
        BY <4>1, <4>4, <4>5, <1>5
      <4>7. x \in Pool /\ task'[x].view = current' /\ task'[x].pc # "off"
        BY <4>3, <4>6, <2>1, <2>2, <1>4 DEF Expanders
      <4> QED BY <4>7 DEF Coming
    <3> QED BY <3>1, <3>2
  <2> QED BY <2>7, <2>9
<1>13. SetterOK' /\ (writer' \in {"final", "done"} => finished')
  BY <1>1 DEF SetterOK, ViewInv
<1> QED BY <1>2, <1>8, <1>9, <1>11, <1>12, <1>13 DEF ViewInv

\* The view a task works on is one that is installed.
LEMMA TaskView ==
  ASSUME ViewInv, NEW x \in Expanders, task[x].pc # "off"
  PROVE  task[x].view \in ViewIds /\ task[x].view \in 1 .. current
<1>1. TypeOK /\ task[x].view \in 1 .. current /\ current \in 0 .. MaxViews
  BY DEF ViewInv, TaskOK, TypeOK
<1> QED BY <1>1, ViewAssumption DEF ViewIds

\* What Leave gives: the expansion of finish ends, a task of the pool goes on to give up its right.
LEMMA Left ==
  ASSUME ViewInv, NEW x \in Expanders, task[x].pc # "off"
  PROVE  /\ Leave(x) \in Task
         /\ x = Finisher => Leave(x).pc = "off"
         /\ x # Finisher => Leave(x).pc = "end" /\ Leave(x).view = task[x].view
<1>1. task[x] \in Task
  BY TaskFields DEF ViewInv
<1>2. NoTask \in Task /\ NoTask.pc = "off"
  BY ViewAssumption DEF NoTask, Task
<1> QED BY <1>1, <1>2 DEF Leave, Task

LEMMA SnapshotKeeps == ASSUME ViewInv, NEW x \in Expanders, Snapshot(x) PROVE ViewInv'
<1>1. PICK u, w, m : /\ u = task[x].view /\ w = view[u]
                     /\ m = IF w.scanned >= count THEN Leave(x)
                            ELSE [task[x] EXCEPT !.pc = "scan", !.from = w.scanned, !.upto = count]
  OBVIOUS
<1>2. /\ task[x].pc = "snap" /\ view' = view /\ task' = [task EXCEPT ![x] = m]
      /\ UNCHANGED <<matching, count, finished, current, seq, writer, setter>>
  BY <1>1 DEF Snapshot
<1>3. TypeOK /\ u \in ViewIds
  BY <1>1, <1>2, TaskView DEF ViewInv
<1>4. /\ w \in View /\ w.scanned \in 0 .. MaxChunks /\ w.scanned \in Nat /\ task[x] \in Task
      /\ count \in 0 .. MaxChunks /\ count \in Nat /\ view \in [ViewIds -> View]
  BY <1>1, <1>3, ViewFields, TaskFields, Bounds DEF TypeOK
<1>5. view' = [view EXCEPT ![u] = w]
  BY <1>1, <1>2, <1>4
<1>6. \A r : Shows(u, r) => Shows(u, r)'
  BY <1>2 DEF Shows
<1>7. CASE w.scanned >= count
  <2>1. m \in Task /\ (x = Finisher => m.pc = "off") /\ (x # Finisher => m.pc = "end" /\ m.view = u)
    BY <1>1, <1>2, <1>7, Left
  <2>2. m.pc \notin {"scan", "mark"} /\ w = view[u] /\ u = task[x].view
    BY <2>1, <1>1
  <2> QED BY <2>1, <2>2, <1>2, <1>3, <1>4, <1>5, <1>6, Expansion
<1>8. CASE ~(w.scanned >= count)
  <2>1. m = [task[x] EXCEPT !.pc = "scan", !.from = w.scanned, !.upto = count]
    BY <1>1, <1>8
  <2>2. /\ m \in Task /\ m.pc = "scan" /\ m.view = u /\ m.from = w.scanned /\ m.upto = count
        /\ m.from <= m.upto /\ m.upto <= count
    <3>1. task[x].view = u /\ w.scanned <= count /\ count <= count
      BY <1>1, <1>4, <1>8
    <3>2. m \in Task
      BY <2>1, <1>4 DEF Task
    <3>3. m.pc = "scan" /\ m.view = task[x].view /\ m.from = w.scanned /\ m.upto = count
      BY <2>1, <1>4 DEF Task
    <3> QED BY <3>1, <3>2, <3>3
  <2>3. Covered(u, w.scanned)
    BY <1>1, <1>3 DEF ViewInv, ViewOK
  <2>4. Covered(u, m.from)
    BY <2>2, <2>3
  <2>5. Covered(u, m.from)'
    BY <2>4, <1>2, <1>6, CoveredKept
  <2>6. w = view[u] /\ u = task[x].view
    BY <1>1
  <2> QED BY <2>2, <2>5, <2>6, <1>2, <1>3, <1>4, <1>5, <1>6, Expansion
<1> QED BY <1>7, <1>8

LEMMA LoadFailsKeeps == ASSUME ViewInv, NEW x \in Expanders, LoadFails(x) PROVE ViewInv'
<1>1. PICK u, m : u = task[x].view /\ m = Leave(x)
  OBVIOUS
<1> DEFINE w == [view[u] EXCEPT !.cancelled = TRUE]
<1>2. /\ task[x].pc = "scan" /\ view' = [view EXCEPT ![u] = w] /\ task' = [task EXCEPT ![x] = m]
      /\ UNCHANGED <<matching, count, finished, current, seq, writer, setter>>
  BY <1>1 DEF LoadFails
<1>3. TypeOK /\ u \in ViewIds
  BY <1>1, <1>2, TaskView DEF ViewInv
<1>4. /\ w \in View /\ w.rows = view[u].rows /\ w.scanned = view[u].scanned /\ w.cancelled
      /\ w.expanding = view[u].expanding /\ w.expandable = view[u].expandable
  BY <1>3, ViewFields DEF View
<1>5. m \in Task /\ (x = Finisher => m.pc = "off") /\ (x # Finisher => m.pc = "end" /\ m.view = u)
  BY <1>1, <1>2, Left
<1>6. view'[u] = w
  BY <1>2, <1>3, Bounds
<1> HIDE DEF w
<1>7. \A r : Shows(u, r) => Shows(u, r)'
  BY <1>4, <1>6 DEF Shows
<1> QED BY <1>1, <1>2, <1>3, <1>4, <1>5, <1>7, Expansion

LEMMA AppendKeeps == ASSUME ViewInv, NEW x \in Expanders, AppendRows(x) PROVE ViewInv'
<1>1. PICK u : u = task[x].view
  OBVIOUS
<1>2. task[x].pc = "scan" /\ UNCHANGED <<matching, count, finished, current, seq, writer, setter>>
  BY DEF AppendRows
<1>3. TypeOK /\ u \in ViewIds /\ TaskOK(x)
  BY <1>1, <1>2, TaskView DEF ViewInv
<1>4. view[u] \in View /\ task[x] \in Task
  BY <1>3, ViewFields, TaskFields
<1>5. CASE view[u].cancelled
  <2>1. PICK m : m = Leave(x)
    OBVIOUS
  <2>2. task' = [task EXCEPT ![x] = m] /\ view' = view
    BY <2>1, <1>1, <1>5 DEF AppendRows
  <2>3. m \in Task /\ (x = Finisher => m.pc = "off") /\ (x # Finisher => m.pc = "end" /\ m.view = u)
    BY <2>1, <1>1, <1>2, Left
  <2>4. view' = [view EXCEPT ![u] = view[u]]
    BY <2>2, <1>3, Bounds
  <2>5. \A r : Shows(u, r) => Shows(u, r)'
    BY <2>2 DEF Shows
  <2> QED BY <2>2, <2>3, <2>4, <2>5, <1>1, <1>2, <1>3, <1>4, Expansion
<1>6. CASE ~view[u].cancelled
  <2>1. PICK S, n, k : S = Matches(task[x].from, task[x].upto) /\ n = task[x].from /\ k = task[x].upto
    OBVIOUS
  <2>a. PICK w, m : /\ w = [view[u] EXCEPT !.rows = Append(view[u].rows, S)]
                    /\ m = [task[x] EXCEPT !.pc = "mark"]
    OBVIOUS
  <2>2. view' = [view EXCEPT ![u] = w] /\ task' = [task EXCEPT ![x] = m]
    BY <2>a, <2>1, <1>1, <1>6 DEF AppendRows
  <2>3. n \in Nat /\ k \in Nat /\ n <= k /\ k <= count /\ Covered(u, n)
    BY <2>1, <1>1, <1>2, <1>3, TaskFields DEF TaskOK
  <2>4. S = matching \cap ((n + 1) .. k) /\ S \in SUBSET (1 .. MaxChunks)
    <3>1. S = matching \cap ((n + 1) .. k) /\ matching \subseteq 1 .. MaxChunks
      BY <2>1, <1>3 DEF Matches, TypeOK
    <3> QED BY <3>1
  <2>5. view[u].rows \in Seq(SUBSET (1 .. MaxChunks))
    BY <1>3, ViewFields
  <2>6. Append(view[u].rows, S) \in Seq(SUBSET (1 .. MaxChunks))
    BY <2>4, <2>5, Appended
  <2>7. /\ w \in View /\ w.rows = Append(view[u].rows, S) /\ w.scanned = view[u].scanned
        /\ w.expanding = view[u].expanding /\ w.expandable = view[u].expandable
        /\ w.cancelled = view[u].cancelled
    BY <2>a, <2>6, <1>4 DEF View
  <2>8. /\ m \in Task /\ m.pc = "mark" /\ m.view = u /\ m.from = n /\ m.upto = k
    BY <2>a, <2>1, <1>1, <1>4 DEF Task
  <2>9. view'[u] = w
    BY <2>2, <1>3, Bounds
  <2>10. view'[u].rows = Append(view[u].rows, S)
    BY <2>7, <2>9
  <2>11. \A r : Shows(u, r) => Shows(u, r)'
    BY <2>4, <2>5, <2>10, Appended DEF Shows
  <2>12. \A r \in S : Shows(u, r)'
    BY <2>4, <2>5, <2>10, Appended DEF Shows
  <2>13. Covered(u, k)'
    <3>1. ASSUME NEW r \in matching \cap (1 .. k) PROVE Shows(u, r)'
      <4>1. r \in matching \cap (1 .. n) \/ r \in S
        BY <2>3, <2>4
      <4> QED BY <4>1, <2>3, <2>11, <2>12 DEF Covered
    <3>2. matching' = matching
      BY <1>2
    <3> QED BY <3>1, <3>2 DEF Covered
  <2>14. x = Finisher => m.upto = count
    BY <2>1, <2>8, <1>2 DEF ViewInv, FinisherOK
  <2>15. Covered(u, m.upto)'
    BY <2>8, <2>13
  <2> QED BY <2>2, <2>3, <2>7, <2>8, <2>11, <2>14, <2>15, <1>1, <1>2, <1>3, Expansion
<1> QED BY <1>5, <1>6

LEMMA ScannedKeeps == ASSUME ViewInv, NEW x \in Expanders, SetScanned(x) PROVE ViewInv'
<1>1. PICK u, m, k : u = task[x].view /\ m = Leave(x) /\ k = task[x].upto
  OBVIOUS
<1> DEFINE w == [view[u] EXCEPT !.scanned = k]
<1>2. /\ task[x].pc = "mark" /\ view' = [view EXCEPT ![u] = w] /\ task' = [task EXCEPT ![x] = m]
      /\ UNCHANGED <<matching, count, finished, current, seq, writer, setter>>
  BY <1>1 DEF SetScanned
<1>3. TypeOK /\ u \in ViewIds /\ TaskOK(x)
  BY <1>1, <1>2, TaskView DEF ViewInv
<1>4. k \in 0 .. MaxChunks /\ k <= count /\ Covered(u, k)
  BY <1>1, <1>2, <1>3, TaskFields DEF TaskOK
<1>5. /\ w \in View /\ w.rows = view[u].rows /\ w.scanned = k /\ w.cancelled = view[u].cancelled
      /\ w.expanding = view[u].expanding /\ w.expandable = view[u].expandable
  BY <1>3, <1>4, ViewFields DEF View
<1>6. m \in Task /\ (x = Finisher => m.pc = "off") /\ (x # Finisher => m.pc = "end" /\ m.view = u)
  BY <1>1, <1>2, Left
<1>7. view'[u] = w
  BY <1>2, <1>3, Bounds
<1> HIDE DEF w
<1>8. \A r : Shows(u, r) => Shows(u, r)'
  BY <1>5, <1>7 DEF Shows
<1>9. Covered(u, k)' /\ (x = Finisher => k = count)
  BY <1>1, <1>2, <1>4, <1>8, CoveredKept DEF ViewInv, FinisherOK
<1>10. PICK a : a = w
  OBVIOUS
<1>11. a.scanned <= count /\ Covered(u, a.scanned)' /\ (x = Finisher => a.scanned = count)
  BY <1>4, <1>5, <1>9, <1>10
<1> QED BY <1>1, <1>2, <1>3, <1>5, <1>6, <1>8, <1>10, <1>11, Expansion

\* Only a task of the pool holds the right to expand.
LEMMA InPool ==
  ASSUME ViewInv, NEW x \in Expanders, task[x].pc \in {"end", "recheck"}
  PROVE  x \in Pool /\ x # Finisher
  BY DEF ViewInv, FinisherOK, Expanders

\* The current view does not change its rows, its watermark, or whether it grows.
LEMMA CurrentKept ==
  ASSUME ViewInv, UNCHANGED <<matching, count, finished, current>>, current # 0,
         \A r : \A v \in ViewIds : Shows(v, r) => Shows(v, r)',
         \A v \in ViewIds : view'[v].expandable = view[v].expandable
  PROVE  ~view'[current].expandable => finished' /\ Covered(current, count)'
<1>1. PICK c, n : c = current /\ n = count
  OBVIOUS
<1>2. TypeOK /\ CurrentOK /\ c \in ViewIds
  BY <1>1, Bounds DEF ViewInv
<1>3. ~view[c].expandable => finished /\ Covered(c, n)
  BY <1>1, <1>2 DEF CurrentOK
<1>4. Covered(c, n) => Covered(c, n)'
  BY <1>2, CoveredKept
<1>5. c = current' /\ n = count'
  BY <1>1
<1> QED BY <1>1, <1>2, <1>3, <1>4, <1>5

LEMMA EndKeeps == ASSUME ViewInv, NEW x \in Expanders, EndExpanding(x) PROVE ViewInv'
<1>1. PICK u, w, m : /\ u = task[x].view /\ w = [view[u] EXCEPT !.expanding = FALSE]
                     /\ m = [task[x] EXCEPT !.pc = "recheck"]
  OBVIOUS
<1>2. /\ task[x].pc = "end" /\ view' = [view EXCEPT ![u] = w] /\ task' = [task EXCEPT ![x] = m]
      /\ UNCHANGED <<matching, count, finished, current, seq, writer, setter>>
  BY <1>1 DEF EndExpanding
<1>3. /\ TypeOK /\ u \in ViewIds /\ u \in 1 .. current /\ x \in Pool /\ x # Finisher
      /\ FinisherOK /\ CurrentOK /\ SetterOK
  BY <1>1, <1>2, TaskView, InPool DEF ViewInv
<1>4. /\ w \in View /\ w.rows = view[u].rows /\ w.scanned = view[u].scanned
      /\ w.cancelled = view[u].cancelled /\ w.expandable = view[u].expandable /\ ~w.expanding
  BY <1>1, <1>3, ViewFields DEF View
<1>5. m \in Task /\ m.pc = "recheck" /\ m.view = u
  <2>1. task[x] \in Task /\ task[x].view = u
    BY <1>1, <1>3, TaskFields
  <2> QED BY <1>1, <2>1 DEF Task
<1>6. TypeOK'
  BY <1>2, <1>3, <1>4, <1>5, Bounds DEF TypeOK
<1>7. /\ task'[x] = m /\ \A y \in Expanders \ {x} : task'[y] = task[y]
      /\ view'[u] = w /\ \A v \in ViewIds \ {u} : view'[v] = view[v]
  BY <1>2, <1>3, Bounds
<1>8. /\ count' = count /\ current' = current /\ count \in Nat /\ current \in Nat
      /\ matching' = matching
  BY <1>2, <1>3, Bounds
<1>9. \A v \in ViewIds : \A r : Shows(v, r) => Shows(v, r)'
  BY <1>4, <1>7 DEF Shows
<1>10. \A v \in ViewIds : /\ view'[v].scanned = view[v].scanned
                          /\ view'[v].expandable = view[v].expandable
                          /\ view'[v].cancelled = view[v].cancelled
  BY <1>4, <1>7
<1>11. ASSUME NEW y \in Expanders PROVE TaskOK(y)'
  <2>1. CASE y # x
    <3>1. 1 .. current \subseteq ViewIds
      BY <1>3, ViewAssumption DEF TypeOK, ViewIds
    <3> QED BY <2>1, <3>1, <1>7, <1>8, <1>9, TaskKept
  <2>2. CASE y = x
    BY <2>2, <1>3, <1>5, <1>7, <1>8 DEF TaskOK
  <2> QED BY <2>1, <2>2
<1>12. FinisherOK'
  <2>1. task'[Finisher] = task[Finisher]
    BY <1>3, <1>7, Bounds
  <2> QED BY <2>1, <1>2, <1>3 DEF FinisherOK
<1>13. ASSUME NEW v \in ViewIds PROVE ViewOK(v)'
  <2>1. view[v].expanding =>
            \E y \in Pool : task[y].pc \in {"snap", "scan", "mark", "end"} /\ task[y].view = v
    BY DEF ViewInv, ViewOK, Holds
  <2>2. view'[v].expanding => view[v].expanding /\ v # u
    BY <1>4, <1>7
  <2>3. ASSUME NEW y \in Pool, task[y].view = v, v # u PROVE task'[y] = task[y]
    BY <2>3, <1>1, <1>7, ViewAssumption DEF Expanders
  <2>4. view'[v].expanding =>
            \E y \in Pool : task'[y].pc \in {"snap", "scan", "mark", "end"} /\ task'[y].view = v
    BY <2>1, <2>2, <2>3
  <2> QED BY <2>4, <1>8, <1>9, <1>10, ViewKept
<1>14. CurrentOK'
  <2> SUFFICES ASSUME current # 0
               PROVE  /\ ~view'[current].expandable => finished' /\ Covered(current, count)'
                      /\ Owes' => writer = "hook" \/ setter.pc = "hook" \/ Coming'
    BY <1>2 DEF CurrentOK
  <2>1. Owes' => Owes
    BY <1>2, <1>3, <1>10, Bounds DEF Owes
  <2>2. Coming => Coming'
    <3>1. ASSUME NEW y \in Pool, task[y].view = current, task[y].pc # "off"
          PROVE  task'[y].view = current' /\ task'[y].pc # "off"
      <4>1. CASE y = x
        BY <3>1, <4>1, <1>1, <1>2, <1>5, <1>7
      <4>2. CASE y # x
        BY <3>1, <4>2, <1>2, <1>7, ViewAssumption DEF Expanders
      <4> QED BY <4>1, <4>2
    <3> QED BY <3>1 DEF Coming
  <2>3. ~view'[current].expandable => finished' /\ Covered(current, count)'
    BY <1>2, <1>9, <1>10, CurrentKept
  <2> QED BY <2>1, <2>2, <2>3, <1>3 DEF CurrentOK
<1>15. SetterOK' /\ (writer' \in {"final", "done"} => finished')
  BY <1>2, <1>3 DEF SetterOK, ViewInv
<1> QED BY <1>6, <1>11, <1>12, <1>13, <1>14, <1>15 DEF ViewInv

\* A task takes the right to expand the current view: it starts, or starts over.
LEMMA Started ==
  ASSUME ViewInv, NEW x \in Pool, task[x].pc \in {"off", "recheck"}, Owes,
         UNCHANGED <<matching, count, finished, current>>,
         task' = [task EXCEPT ![x] = [NoTask EXCEPT !.pc = "snap", !.view = current]],
         view' = [view EXCEPT ![current].expanding = TRUE]
  PROVE  /\ view' \in [ViewIds -> View] /\ task' \in [Expanders -> Task]
         /\ \A y \in Expanders : TaskOK(y)'
         /\ FinisherOK' /\ CurrentOK' /\ Coming' /\ \A v \in ViewIds : ViewOK(v)'
<1>1. PICK u, w, m : /\ u = current /\ w = [view[u] EXCEPT !.expanding = TRUE]
                     /\ m = [NoTask EXCEPT !.pc = "snap", !.view = u]
  OBVIOUS
<1>2. view' = [view EXCEPT ![u] = w] /\ task' = [task EXCEPT ![x] = m]
  BY <1>1
<1>3. /\ TypeOK /\ u \in ViewIds /\ u \in 1 .. current /\ x \in Expanders /\ x # Finisher
      /\ FinisherOK /\ CurrentOK /\ current # 0 /\ u \in 0 .. MaxViews
  <2>1. TypeOK /\ FinisherOK /\ CurrentOK /\ current # 0
    BY DEF ViewInv, Owes
  <2>2. current \in ViewIds /\ current \in Nat /\ current \in 0 .. MaxViews
    BY <2>1, Bounds DEF TypeOK
  <2>3. current \in 1 .. current
    BY <2>1, <2>2
  <2>4. x \in Expanders /\ x # Finisher
    BY <2>1, Bounds
  <2> QED BY <1>1, <2>1, <2>2, <2>3, <2>4
<1>4. /\ w \in View /\ w.rows = view[u].rows /\ w.scanned = view[u].scanned
      /\ w.cancelled = view[u].cancelled /\ w.expandable = view[u].expandable
  BY <1>1, <1>3, ViewFields DEF View
<1>5. m \in Task /\ m.pc = "snap" /\ m.view = u
  <2>1. m = [pc |-> "snap", view |-> u, from |-> 0, upto |-> 0]
    BY <1>1 DEF NoTask
  <2>2. 0 \in 0 .. MaxChunks
    BY ViewAssumption
  <2> QED BY <2>1, <2>2, <1>3 DEF Task
<1>6. view' \in [ViewIds -> View] /\ task' \in [Expanders -> Task]
  BY <1>2, <1>3, <1>4, <1>5, Bounds
<1>7. /\ task'[x] = m /\ \A y \in Expanders \ {x} : task'[y] = task[y]
      /\ view'[u] = w /\ \A v \in ViewIds \ {u} : view'[v] = view[v]
  BY <1>2, <1>3, Bounds
<1>8. count' = count /\ current' = current /\ count \in Nat /\ current \in Nat /\ matching' = matching
  BY <1>3, Bounds
<1>9. \A v \in ViewIds : \A r : Shows(v, r) => Shows(v, r)'
  BY <1>4, <1>7 DEF Shows
<1>10. \A v \in ViewIds : /\ view'[v].scanned = view[v].scanned
                          /\ view'[v].expandable = view[v].expandable
  BY <1>4, <1>7
<1>11. ASSUME NEW y \in Expanders PROVE TaskOK(y)'
  <2>1. CASE y # x
    <3>1. 1 .. current \subseteq ViewIds
      BY <1>3, ViewAssumption DEF TypeOK, ViewIds
    <3> QED BY <2>1, <3>1, <1>7, <1>8, <1>9, TaskKept
  <2>2. CASE y = x
    BY <2>2, <1>3, <1>5, <1>7, <1>8 DEF TaskOK
  <2> QED BY <2>1, <2>2
<1>12. FinisherOK'
  <2>1. task'[Finisher] = task[Finisher]
    BY <1>3, <1>7, Bounds
  <2> QED BY <2>1, <1>3 DEF FinisherOK
<1>13. ASSUME NEW v \in ViewIds PROVE ViewOK(v)'
  <2>1. view[v].expanding =>
            \E y \in Pool : task[y].pc \in {"snap", "scan", "mark", "end"} /\ task[y].view = v
    BY DEF ViewInv, ViewOK, Holds
  <2>2. task'[x].pc \in {"snap", "scan", "mark", "end"} /\ task'[x].view = u
    BY <1>5, <1>7
  <2>3. \A y \in Pool : task[y].pc \in {"snap", "scan", "mark", "end"} => task'[y] = task[y]
    BY <1>7 DEF Expanders
  <2>4. v # u => view'[v] = view[v]
    BY <1>7
  <2>5. view'[v].expanding =>
            \E y \in Pool : task'[y].pc \in {"snap", "scan", "mark", "end"} /\ task'[y].view = v
    <3>1. CASE v = u
      BY <3>1, <2>2
    <3>2. CASE v # u
      BY <3>2, <2>1, <2>3, <2>4
    <3> QED BY <3>1, <3>2
  <2> QED BY <2>5, <1>8, <1>9, <1>10, ViewKept
<1>14. Coming'
  BY <1>1, <1>5, <1>7, <1>8 DEF Coming
<1>15. CurrentOK'
  <2>1. ~view'[current].expandable => finished' /\ Covered(current, count)'
    BY <1>3, <1>9, <1>10, CurrentKept
  <2> QED BY <2>1, <1>14, <1>8 DEF CurrentOK
<1> QED BY <1>6, <1>11, <1>12, <1>13, <1>14, <1>15

\* Nobody's task and no view changes.
LEMMA Resting ==
  ASSUME ViewInv, UNCHANGED <<matching, view, task, current>>, count' \in Nat, count <= count'
  PROVE  (\A y \in Expanders : TaskOK(y)') /\ (\A v \in ViewIds : ViewOK(v)')
<1>1. TypeOK /\ current \in Nat
  BY Bounds DEF ViewInv
<1>2. \A v, r : Shows(v, r) => Shows(v, r)'
  BY DEF Shows
<1>3. ASSUME NEW y \in Expanders PROVE TaskOK(y)'
  <2>1. current' \in Nat /\ current <= current'
    BY <1>1
  <2> QED BY <1>2, <2>1, TaskKept
<1>4. ASSUME NEW v \in ViewIds PROVE ViewOK(v)'
  <2>1. view'[v].expanding =>
            \E y \in Pool : task'[y].pc \in {"snap", "scan", "mark", "end"} /\ task'[y].view = v
    BY DEF ViewInv, ViewOK, Holds
  <2> QED BY <1>2, <2>1, ViewKept
<1> QED BY <1>3, <1>4

LEMMA RecheckKeeps == ASSUME ViewInv, NEW x \in Expanders, Recheck(x) PROVE ViewInv'
<1>1. /\ task[x].pc = "recheck"
      /\ UNCHANGED <<matching, count, finished, current, seq, writer, setter>>
  BY DEF Recheck
<1>2. TypeOK /\ x \in Pool /\ x # Finisher /\ FinisherOK /\ CurrentOK /\ SetterOK
  BY <1>1, InPool DEF ViewInv
<1>3. SetterOK' /\ (writer' \in {"final", "done"} => finished')
  BY <1>1, <1>2 DEF SetterOK, ViewInv
<1>4. CASE view[task[x].view].scanned < count /\ Owes /\ ~view[current].expanding
  <2>1. /\ task' = [task EXCEPT ![x] = [NoTask EXCEPT !.pc = "snap", !.view = current]]
        /\ view' = [view EXCEPT ![current].expanding = TRUE]
    BY <1>4 DEF Recheck
  <2>2. /\ view' \in [ViewIds -> View] /\ task' \in [Expanders -> Task]
        /\ \A y \in Expanders : TaskOK(y)'
        /\ FinisherOK' /\ CurrentOK' /\ \A v \in ViewIds : ViewOK(v)'
    BY <1>1, <1>2, <1>4, <2>1, Started
  <2>3. TypeOK'
    BY <1>1, <1>2, <2>2 DEF TypeOK
  <2> QED BY <1>3, <2>2, <2>3 DEF ViewInv
<1>5. CASE ~(view[task[x].view].scanned < count /\ Owes /\ ~view[current].expanding)
  <2>1. task' = [task EXCEPT ![x] = NoTask] /\ view' = view
    BY <1>5 DEF Recheck
  <2>2. NoTask \in Task /\ NoTask.pc = "off"
    BY ViewAssumption DEF NoTask, Task
  <2>3. TypeOK'
    BY <1>1, <1>2, <2>1, <2>2, Bounds DEF TypeOK
  <2>4. task'[x].pc = "off" /\ \A y \in Expanders \ {x} : task'[y] = task[y]
    BY <1>2, <2>1, <2>2, Bounds
  <2>5. \A v, r : Shows(v, r) => Shows(v, r)'
    BY <2>1 DEF Shows
  <2>6. count \in Nat /\ current \in Nat
    BY <1>2, Bounds
  <2>7. ASSUME NEW y \in Expanders PROVE TaskOK(y)'
    <3>1. CASE y # x
      BY <3>1, <2>4, <2>5, <2>6, <1>1, TaskKept
    <3>2. CASE y = x
      BY <3>2, <2>4 DEF TaskOK
    <3> QED BY <3>1, <3>2
  <2>8. FinisherOK'
    <3>1. task'[Finisher] = task[Finisher]
      BY <1>2, <2>4, Bounds
    <3> QED BY <3>1, <1>1, <1>2 DEF FinisherOK
  <2>9. \A y \in Pool : task[y].pc \in {"snap", "scan", "mark", "end"} => task'[y] = task[y]
    BY <1>1, <2>4 DEF Expanders
  <2>10. ASSUME NEW v \in ViewIds PROVE ViewOK(v)'
    <3>1. view'[v].expanding =>
              \E y \in Pool : task'[y].pc \in {"snap", "scan", "mark", "end"} /\ task'[y].view = v
      BY <2>1, <2>9 DEF ViewInv, ViewOK, Holds
    <3> QED BY <3>1, <2>1, <2>5, <2>6, <1>1, ViewKept
  <2>11. CurrentOK'
    <3> SUFFICES ASSUME current # 0
                 PROVE  /\ ~view'[current].expandable => finished' /\ Covered(current, count)'
                        /\ Owes' => writer = "hook" \/ setter.pc = "hook" \/ Coming'
      BY <1>1 DEF CurrentOK
    <3>1. ~view'[current].expandable => finished' /\ Covered(current, count)'
      BY <1>1, <2>1, <2>5, CurrentKept
    <3>2. ASSUME Owes PROVE writer = "hook" \/ setter.pc = "hook" \/ Coming'
      <4>1. CASE view[current].expanding
        <5>1. current \in ViewIds
          BY <1>2, Bounds
        <5>2. PICK y \in Pool : task[y].pc \in {"snap", "scan", "mark", "end"} /\ task[y].view = current
          BY <4>1, <5>1 DEF ViewInv, ViewOK, Holds
        <5>3. task'[y] = task[y] /\ task[y].pc # "off"
          BY <5>2, <2>9
        <5> QED BY <5>2, <5>3, <1>1 DEF Coming
      <4>2. CASE ~view[current].expanding
        <5>1. task[x].view # current
          BY <3>2, <4>2, <1>5 DEF Owes
        <5>2. ASSUME NEW y \in Pool, task[y].view = current, task[y].pc # "off"
              PROVE  task'[y].view = current' /\ task'[y].pc # "off"
          <6>1. y # x /\ y \in Expanders
            BY <5>1, <5>2 DEF Expanders
          <6> QED BY <6>1, <5>2, <2>4, <1>1
        <5>3. Coming => Coming'
          BY <5>2 DEF Coming
        <5> QED BY <5>3, <3>2, <1>2 DEF CurrentOK
      <4> QED BY <4>1, <4>2
    <3>3. Owes' => Owes
      BY <1>1, <2>1 DEF Owes
    <3> QED BY <3>1, <3>2, <3>3
  <2> QED BY <1>3, <2>3, <2>7, <2>8, <2>10, <2>11 DEF ViewInv
<1> QED BY <1>4, <1>5

-----------------------------------------------------------------------------
(* The writer and the caller.                                              *)

\* The hook: either a task starts, or there is nothing to do, or a task holds the right already.
LEMMA Hooked ==
  ASSUME ViewInv, MaybeExpand, UNCHANGED <<matching, count, finished, current>>
  PROVE  /\ view' \in [ViewIds -> View] /\ task' \in [Expanders -> Task]
         /\ \A y \in Expanders : TaskOK(y)'
         /\ FinisherOK' /\ CurrentOK' /\ \A v \in ViewIds : ViewOK(v)'
<1>1. TypeOK /\ FinisherOK /\ CurrentOK
  BY DEF ViewInv
<1>2. CASE Owes /\ ~view[current].expanding
  <2>1. PICK x \in Pool :
           /\ task[x].pc = "off"
           /\ task' = [task EXCEPT ![x] = [NoTask EXCEPT !.pc = "snap", !.view = current]]
           /\ view' = [view EXCEPT ![current].expanding = TRUE]
    BY <1>2 DEF MaybeExpand
  <2> QED BY <1>2, <2>1, Started
<1>3. CASE ~(Owes /\ ~view[current].expanding)
  <2>1. view' = view /\ task' = task
    BY <1>3 DEF MaybeExpand
  <2>2. count \in Nat
    BY <1>1, Bounds
  <2>3. (\A y \in Expanders : TaskOK(y)') /\ (\A v \in ViewIds : ViewOK(v)')
    BY <2>1, <2>2, Resting
  <2>4. FinisherOK'
    BY <2>1, <1>1 DEF FinisherOK
  <2>5. CurrentOK'
    <3> SUFFICES ASSUME current # 0
                 PROVE  /\ ~view'[current].expandable => finished' /\ Covered(current, count)'
                        /\ Owes' => Coming'
      BY DEF CurrentOK
    <3>1. \A v, r : Shows(v, r) => Shows(v, r)'
      BY <2>1 DEF Shows
    <3>2. ~view'[current].expandable => finished' /\ Covered(current, count)'
      BY <2>1, <3>1, CurrentKept
    <3>3. ASSUME Owes PROVE Coming'
      <4>1. view[current].expanding /\ current \in ViewIds
        BY <3>3, <1>3, <1>1, Bounds
      <4>2. PICK y \in Pool : task[y].pc \in {"snap", "scan", "mark", "end"} /\ task[y].view = current
        BY <4>1 DEF ViewInv, ViewOK, Holds
      <4> QED BY <4>2, <2>1 DEF Coming
    <3>4. Owes' => Owes
      BY <2>1 DEF Owes
    <3> QED BY <3>2, <3>3, <3>4
  <2>6. view' \in [ViewIds -> View] /\ task' \in [Expanders -> Task]
    BY <2>1, <1>1, Bounds
  <2> QED BY <2>3, <2>4, <2>5, <2>6
<1> QED BY <1>2, <1>3

LEMMA PushKeeps == ASSUME ViewInv, Push PROVE ViewInv'
<1>1. TypeOK /\ FinisherOK /\ SetterOK /\ CurrentOK
  BY DEF ViewInv
<1>2. /\ ~finished /\ count' = count + 1 /\ writer' = "hook" /\ count < MaxChunks
      /\ UNCHANGED <<matching, finished, current, seq, view, setter, task>>
  BY DEF Push
<1>3. count \in Nat /\ count' \in Nat /\ count <= count' /\ count' \in 0 .. MaxChunks
  BY <1>1, <1>2, Bounds
<1>4. TypeOK'
  BY <1>1, <1>2, <1>3 DEF TypeOK
<1>5. (\A y \in Expanders : TaskOK(y)') /\ (\A v \in ViewIds : ViewOK(v)')
  BY <1>2, <1>3, Resting
<1>6. FinisherOK'
  BY <1>1, <1>2 DEF FinisherOK
<1>7. SetterOK'
  <2>1. PICK s : s = setter
    OBVIOUS
  <2>2. s.upto \in Nat /\ s.upto <= count
    BY <2>1, <1>1, Bounds DEF SetterOK, Setter
  <2>3. s.upto <= count'
    BY <2>2, <1>3
  <2>4. setter' = s
    BY <2>1, <1>2
  <2> QED BY <2>1, <2>3, <2>4, <1>1, <1>2 DEF SetterOK
<1>8. CurrentOK'
  BY <1>1, <1>2 DEF CurrentOK
<1> QED BY <1>2, <1>4, <1>5, <1>6, <1>7, <1>8 DEF ViewInv

LEMMA PushHookKeeps == ASSUME ViewInv, PushHook PROVE ViewInv'
<1>1. TypeOK /\ SetterOK /\ MaybeExpand /\ writer' = "idle"
      /\ UNCHANGED <<matching, count, finished, current, seq, setter>>
  BY DEF ViewInv, PushHook
<1>2. /\ view' \in [ViewIds -> View] /\ task' \in [Expanders -> Task]
      /\ \A y \in Expanders : TaskOK(y)'
      /\ FinisherOK' /\ CurrentOK' /\ \A v \in ViewIds : ViewOK(v)'
  BY <1>1, Hooked
<1>3. TypeOK'
  BY <1>1, <1>2 DEF TypeOK
<1>4. SetterOK'
  BY <1>1 DEF SetterOK
<1> QED BY <1>1, <1>2, <1>3, <1>4 DEF ViewInv

LEMMA FinishKeeps == ASSUME ViewInv, Finish PROVE ViewInv'
<1>1. TypeOK /\ FinisherOK /\ SetterOK /\ CurrentOK
  BY DEF ViewInv
<1>2. /\ writer = "idle" /\ finished' = TRUE /\ writer' = "final"
      /\ UNCHANGED <<matching, count, current, seq, view, setter, task>>
  BY DEF Finish
<1>3. count' \in Nat /\ count <= count'
  BY <1>1, <1>2, Bounds
<1>4. TypeOK'
  BY <1>1, <1>2 DEF TypeOK
<1>5. (\A y \in Expanders : TaskOK(y)') /\ (\A v \in ViewIds : ViewOK(v)')
  BY <1>2, <1>3, Resting
<1>6. FinisherOK'
  BY <1>1, <1>2 DEF FinisherOK
<1>7. SetterOK'
  BY <1>1, <1>2 DEF SetterOK
<1>8. CurrentOK'
  <2>1. Owes' = Owes /\ Coming' = Coming
    BY <1>2 DEF Owes, Coming
  <2>2. Covered(current, count) => Covered(current, count)'
    BY <1>2 DEF Covered, Shows
  <2> QED BY <2>1, <2>2, <1>1, <1>2 DEF CurrentOK
<1> QED BY <1>2, <1>4, <1>5, <1>6, <1>7, <1>8 DEF ViewInv

LEMMA FinishExpandKeeps == ASSUME ViewInv, FinishExpand PROVE ViewInv'
<1>1. TypeOK /\ FinisherOK /\ SetterOK /\ CurrentOK /\ (writer \in {"final", "done"} => finished)
  BY DEF ViewInv
<1>2. /\ finished /\ writer = "final" /\ writer' = "done" /\ count \in Nat
      /\ UNCHANGED <<matching, count, finished, current, seq, view, setter>>
  BY <1>1, Bounds DEF FinishExpand
<1>3. SetterOK'
  BY <1>1, <1>2 DEF SetterOK
<1>4. Owes' = Owes /\ (Covered(current, count) => Covered(current, count)')
  BY <1>2 DEF Owes, Covered, Shows
<1>5. CASE task' = task
  <2>1. (\A y \in Expanders : TaskOK(y)') /\ (\A v \in ViewIds : ViewOK(v)')
    BY <1>2, <1>5, Resting
  <2>2. Coming' = Coming
    BY <1>2, <1>5 DEF Coming
  <2>3. CurrentOK'
    BY <2>2, <1>1, <1>2, <1>4 DEF CurrentOK
  <2>4. FinisherOK' /\ TypeOK'
    BY <1>1, <1>2, <1>5 DEF FinisherOK, TypeOK
  <2> QED BY <2>1, <2>3, <2>4, <1>2, <1>3 DEF ViewInv
<1>6. CASE current # 0 /\ task' = [task EXCEPT ![Finisher] = [NoTask EXCEPT !.pc = "snap", !.view = current]]
  <2>1. PICK u, m : u = current /\ m = [NoTask EXCEPT !.pc = "snap", !.view = u]
    OBVIOUS
  <2>2. current \in ViewIds /\ u \in 0 .. MaxViews /\ u \in 1 .. current
    <3>1. current \in ViewIds /\ current \in Nat /\ current \in 0 .. MaxViews
      BY <1>1, <1>6, Bounds DEF TypeOK
    <3> QED BY <3>1, <1>6, <2>1
  <2>3. m \in Task /\ m.pc = "snap" /\ m.view = u
    <3>1. m = [pc |-> "snap", view |-> u, from |-> 0, upto |-> 0]
      BY <2>1 DEF NoTask
    <3>2. 0 \in 0 .. MaxChunks
      BY ViewAssumption
    <3> QED BY <3>1, <3>2, <2>2 DEF Task
  <2>4. task' = [task EXCEPT ![Finisher] = m]
    BY <2>1, <1>6
  <2>5. /\ task'[Finisher] = m /\ task' \in [Expanders -> Task]
        /\ \A y \in Expanders \ {Finisher} : task'[y] = task[y]
    BY <2>3, <2>4, <1>1, Bounds
  <2>6. \A v, r : Shows(v, r) => Shows(v, r)'
    BY <1>2 DEF Shows
  <2>7. current \in Nat
    BY <1>1, Bounds
  <2>8. ASSUME NEW y \in Expanders PROVE TaskOK(y)'
    <3>1. CASE y # Finisher
      BY <3>1, <2>5, <2>6, <2>7, <1>2, TaskKept
    <3>2. CASE y = Finisher
      BY <3>2, <2>1, <2>2, <2>3, <2>5, <1>2 DEF TaskOK
    <3> QED BY <3>1, <3>2
  <2>9. \A y \in Pool : task'[y] = task[y]
    BY <2>5, <1>1, Bounds
  <2>10. ASSUME NEW v \in ViewIds PROVE ViewOK(v)'
    <3>1. view'[v].expanding =>
              \E y \in Pool : task'[y].pc \in {"snap", "scan", "mark", "end"} /\ task'[y].view = v
      BY <2>9, <1>2 DEF ViewInv, ViewOK, Holds
    <3> QED BY <3>1, <2>6, <1>2, ViewKept
  <2>11. Coming' = Coming
    BY <2>9, <1>2 DEF Coming
  <2>12. CurrentOK'
    BY <2>11, <1>1, <1>2, <1>4 DEF CurrentOK
  <2>13. FinisherOK'
    BY <2>3, <2>5, <1>2 DEF FinisherOK
  <2>14. TypeOK'
    BY <2>5, <1>1, <1>2 DEF TypeOK
  <2> QED BY <2>8, <2>10, <2>12, <2>13, <2>14, <1>2, <1>3 DEF ViewInv
<1> QED BY <1>5, <1>6 DEF FinishExpand

\* The call of set_view, until it installs its view: nobody sees it.
LEMMA SetterUnseen ==
  ASSUME ViewInv, UNCHANGED <<matching, count, finished, current, view, writer, task>>,
         setter.pc # "hook", TypeOK', SetterOK'
  PROVE  ViewInv'
<1>1. TypeOK /\ FinisherOK /\ CurrentOK /\ count \in Nat
  BY Bounds DEF ViewInv
<1>2. (\A y \in Expanders : TaskOK(y)') /\ (\A v \in ViewIds : ViewOK(v)')
  BY <1>1, Resting
<1>3. Owes' = Owes /\ Coming' = Coming /\ (Covered(current, count) => Covered(current, count)')
  BY DEF Owes, Coming, Covered, Shows
<1>4. CurrentOK'
  BY <1>1, <1>3 DEF CurrentOK
<1>5. FinisherOK' /\ (writer' \in {"final", "done"} => finished')
  BY <1>1 DEF FinisherOK, ViewInv
<1> QED BY <1>2, <1>4, <1>5 DEF ViewInv

LEMMA SetViewKeeps == ASSUME ViewInv, SetView PROVE ViewInv'
<1>1. TypeOK /\ SetterOK
  BY DEF ViewInv
<1>2. /\ setter.pc = "idle" /\ seq < MaxViews /\ seq' = seq + 1
      /\ setter' = [setter EXCEPT !.pc = "compute", !.streaming = ~finished]
      /\ UNCHANGED <<matching, count, finished, current, view, writer, task>>
  BY DEF SetView
<1>3. /\ setter' \in Setter /\ setter'.pc = "compute" /\ setter'.streaming = ~finished
      /\ setter'.upto = setter.upto
  BY <1>1, <1>2, Bounds DEF Setter, TypeOK
<1>4. seq \in Nat /\ seq' \in 0 .. MaxViews
  BY <1>1, <1>2, Bounds
<1>5. TypeOK'
  BY <1>1, <1>2, <1>3, <1>4 DEF TypeOK
<1>6. SetterOK'
  BY <1>1, <1>2, <1>3 DEF SetterOK, TypeOK
<1> QED BY <1>2, <1>5, <1>6, SetterUnseen

LEMMA ComputeKeeps == ASSUME ViewInv, Compute PROVE ViewInv'
<1>1. TypeOK /\ SetterOK
  BY DEF ViewInv
<1>2. /\ setter.pc = "compute" /\ setter' = [setter EXCEPT !.pc = "install", !.upto = count]
      /\ UNCHANGED <<matching, count, finished, current, seq, view, writer, task>>
  BY DEF Compute
<1>3. /\ setter' \in Setter /\ setter'.pc = "install" /\ setter'.streaming = setter.streaming
      /\ setter'.upto = count
  BY <1>1, <1>2, Bounds DEF Setter, TypeOK
<1>4. TypeOK' /\ count \in Nat
  BY <1>1, <1>2, <1>3, Bounds DEF TypeOK
<1>5. SetterOK'
  BY <1>1, <1>2, <1>3, <1>4 DEF SetterOK
<1> QED BY <1>2, <1>4, <1>5, SetterUnseen

LEMMA SetViewHookKeeps == ASSUME ViewInv, SetViewHook PROVE ViewInv'
<1>1. TypeOK /\ SetterOK /\ MaybeExpand /\ setter.pc = "hook" /\ setter' = NoSetter
      /\ UNCHANGED <<matching, count, finished, current, seq, writer>>
  BY DEF ViewInv, SetViewHook
<1>2. /\ view' \in [ViewIds -> View] /\ task' \in [Expanders -> Task]
      /\ \A y \in Expanders : TaskOK(y)'
      /\ FinisherOK' /\ CurrentOK' /\ \A v \in ViewIds : ViewOK(v)'
  BY <1>1, Hooked
<1>3. NoSetter \in Setter /\ NoSetter.pc = "idle" /\ NoSetter.upto = 0 /\ count \in Nat
  BY <1>1, Bounds DEF NoSetter, Setter
<1>4. TypeOK'
  BY <1>1, <1>2, <1>3 DEF TypeOK
<1>5. SetterOK'
  BY <1>1, <1>3 DEF SetterOK
<1>6. writer' \in {"final", "done"} => finished'
  BY <1>1 DEF ViewInv
<1> QED BY <1>2, <1>4, <1>5, <1>6 DEF ViewInv

LEMMA InstallKeeps == ASSUME ViewInv, Install PROVE ViewInv'
<1>1. PICK s, b, h : s = seq /\ b = Built /\ h = setter
  OBVIOUS
<1>2. /\ h.pc = "install" /\ current' = s /\ setter' = [NoSetter EXCEPT !.pc = "hook"]
      /\ view' = [v \in ViewIds |-> IF v = s THEN b
                                    ELSE IF v = current THEN Superseded(view[v]) ELSE view[v]]
      /\ UNCHANGED <<matching, count, finished, seq, writer, task>>
  BY <1>1 DEF Install
<1>3. TypeOK /\ FinisherOK /\ SetterOK /\ h \in Setter /\ h.upto \in 0 .. MaxChunks
  BY <1>1, Bounds DEF ViewInv, Setter
<1>4. /\ current \in Nat /\ current <= current' /\ current' \in Nat /\ s = current + 1 /\ s \in 0 .. MaxViews
      /\ count \in Nat /\ count' \in Nat /\ count <= count' /\ s \in ViewIds /\ s # 0
  <2>1. s = current + 1 /\ s \in 0 .. MaxViews /\ current \in Nat /\ count \in Nat
    BY <1>1, <1>2, <1>3, Bounds DEF SetterOK, TypeOK
  <2> QED BY <2>1, <1>2, <1>3, ViewAssumption DEF ViewIds
<1>5. b = [rows |-> <<Matches(0, h.upto)>>, scanned |-> 0, expandable |-> h.streaming,
           expanding |-> FALSE, cancelled |-> FALSE]
  BY <1>1 DEF Built, NoView
<1>6. Matches(0, h.upto) = matching \cap (1 .. h.upto) /\ Matches(0, h.upto) \subseteq 1 .. MaxChunks
  BY <1>3 DEF Matches, TypeOK
<1>7. b \in View
  <2>1. 0 \in 0 .. MaxChunks /\ h.streaming \in BOOLEAN
    BY <1>3, ViewAssumption DEF Setter
  <2>2. <<Matches(0, h.upto)>> \in Seq(SUBSET (1 .. MaxChunks))
    BY <1>6
  <2> QED BY <2>1, <2>2, <1>5 DEF View
<1>8. ASSUME NEW v \in ViewIds
      PROVE  /\ Superseded(view[v]) \in View
             /\ Superseded(view[v]).rows = view[v].rows
             /\ Superseded(view[v]).scanned = view[v].scanned
             /\ Superseded(view[v]).expanding = view[v].expanding
  BY <1>3, ViewFields DEF Superseded, View
<1>9. ASSUME NEW v \in ViewIds
      PROVE  /\ view'[v] \in View
             /\ v = s => view'[v] = b
             /\ v # s => /\ view'[v].rows = view[v].rows /\ view'[v].scanned = view[v].scanned
                         /\ view'[v].expanding = view[v].expanding
  BY <1>2, <1>3, <1>7, <1>8, ViewFields
<1>10. setter' \in Setter /\ setter'.pc = "hook" /\ setter'.upto = 0
  <2>1. setter' = [pc |-> "hook", streaming |-> FALSE, upto |-> 0]
    BY <1>2 DEF NoSetter
  <2> QED BY <2>1, ViewAssumption DEF Setter
<1>11. view' \in [ViewIds -> View]
  BY <1>2, <1>9
<1>12. TypeOK'
  BY <1>2, <1>3, <1>4, <1>10, <1>11 DEF TypeOK
<1>13. SetterOK'
  BY <1>1, <1>2, <1>4, <1>10 DEF SetterOK
<1>14. \A v \in ViewIds : v # s => \A r : Shows(v, r) => Shows(v, r)'
  BY <1>9 DEF Shows
<1>15. ASSUME NEW y \in Expanders PROVE TaskOK(y)'
  <2>1. \A v \in 1 .. current : v \in ViewIds /\ v # s
    BY <1>3, <1>4, ViewAssumption DEF ViewIds, TypeOK
  <2>2. \A v \in 1 .. current : \A r : Shows(v, r) => Shows(v, r)'
    BY <2>1, <1>14
  <2>3. task'[y] = task[y] /\ matching' = matching
    BY <1>2
  <2> QED BY <2>2, <2>3, <1>4, TaskKept
<1>16. FinisherOK' /\ (writer' \in {"final", "done"} => finished')
  BY <1>2, <1>3 DEF FinisherOK, ViewInv
<1>17. ASSUME NEW v \in ViewIds PROVE ViewOK(v)'
  <2>1. CASE v # s
    <3>1. view'[v].scanned = view[v].scanned /\ view'[v].expanding = view[v].expanding
      BY <2>1, <1>9
    <3>2. view'[v].expanding =>
              \E y \in Pool : task'[y].pc \in {"snap", "scan", "mark", "end"} /\ task'[y].view = v
      BY <3>1, <1>2 DEF ViewInv, ViewOK, Holds
    <3>3. matching' = matching /\ \A r : Shows(v, r) => Shows(v, r)'
      BY <2>1, <1>2, <1>14
    <3> QED BY <3>1, <3>2, <3>3, <1>4, ViewKept
  <2>2. CASE v = s
    <3>1. view'[v].scanned = 0 /\ ~view'[v].expanding
      BY <2>2, <1>5, <1>9
    <3>2. Covered(v, view[v].scanned)'
      BY <3>1 DEF Covered
    <3> QED BY <3>1, <3>2, <1>4 DEF ViewOK
  <2> QED BY <2>1, <2>2
<1>18. CurrentOK'
  <2>1. view'[s] = b /\ current' = s
    BY <1>2, <1>4, <1>9
  <2>2. ASSUME ~b.expandable PROVE finished' /\ Covered(s, count)'
    <3>1. ~h.streaming
      BY <2>2, <1>5
    <3>2. finished /\ h.upto = count
      BY <3>1, <1>1, <1>2, <1>3 DEF SetterOK
    <3>3. \A r \in matching \cap (1 .. count) : Shows(s, r)'
      <4>1. view'[s].rows = <<matching \cap (1 .. count)>>
        BY <2>1, <3>2, <1>5, <1>6
      <4> QED BY <4>1 DEF Shows
    <3>4. matching' = matching /\ count' = count /\ finished' = finished
      BY <1>2
    <3> QED BY <3>2, <3>3, <3>4 DEF Covered
  <2>3. Covered(s, count)' <=> Covered(current, count)'
    BY <2>1
  <2> QED BY <2>1, <2>2, <2>3, <1>10 DEF CurrentOK
<1> QED BY <1>12, <1>13, <1>15, <1>16, <1>17, <1>18 DEF ViewInv

-----------------------------------------------------------------------------
LEMMA ViewNext == ViewInv /\ [Next]_vars => ViewInv'
<1> SUFFICES ASSUME ViewInv, [Next]_vars PROVE ViewInv'
  OBVIOUS
<1>1. CASE WriterStep
  BY <1>1, PushKeeps, PushHookKeeps, FinishKeeps, FinishExpandKeeps DEF WriterStep
<1>2. CASE SetterStep
  BY <1>2, SetViewKeeps, ComputeKeeps, InstallKeeps, SetViewHookKeeps DEF SetterStep
<1>3. CASE \E x \in Expanders : Expand(x)
  <2>1. PICK x \in Expanders : Expand(x)
    BY <1>3
  <2> QED BY <2>1, SnapshotKeeps, LoadFailsKeeps, AppendKeeps, ScannedKeeps, EndKeeps, RecheckKeeps
          DEF Expand, EndTask
<1>4. CASE UNCHANGED vars
  <2>1. TypeOK /\ FinisherOK /\ SetterOK /\ CurrentOK /\ count \in Nat
    BY Bounds DEF ViewInv
  <2>2. (\A y \in Expanders : TaskOK(y)') /\ (\A v \in ViewIds : ViewOK(v)')
    BY <2>1, <1>4, Resting DEF vars
  <2>3. TypeOK' /\ FinisherOK' /\ SetterOK'
    BY <2>1, <1>4 DEF vars, TypeOK, FinisherOK, SetterOK
  <2>4. Owes' = Owes /\ Coming' = Coming /\ (Covered(current, count) => Covered(current, count)')
    BY <1>4 DEF vars, Owes, Coming, Covered, Shows
  <2>5. CurrentOK'
    BY <2>1, <2>4, <1>4 DEF CurrentOK, vars
  <2>6. writer' \in {"final", "done"} => finished'
    BY <1>4 DEF vars, ViewInv
  <2> QED BY <2>2, <2>3, <2>5, <2>6 DEF ViewInv
<1> QED BY <1>1, <1>2, <1>3, <1>4 DEF Next

\* Every variable holds a value of its kind, whatever the writer, the caller and the pool do.
THEOREM ViewTypes == Spec => []TypeOK
<1>1. ViewInv => TypeOK
  BY DEF ViewInv
<1> QED BY <1>1, ViewInit, ViewNext, PTL DEF Spec

\* No matching row falls between the build of a view, its installation, the writer's hook and the
\* end of an expansion: when nothing is under way, the current view shows all of them (store.rs
\* set_view, push, finish, maybe_expand_view, expand_view).
THEOREM NoRowMissed == Spec => []NothingMissed
<1>1. ViewInv => NothingMissed
  <2> SUFFICES ASSUME ViewInv, AtRest, current # 0, ~view[current].cancelled,
                      NEW r \in matching \cap 1 .. count
               PROVE  Shows(current, r)
    BY DEF NothingMissed
  <2>1. TypeOK /\ CurrentOK /\ current \in ViewIds /\ count \in Nat
    BY Bounds DEF ViewInv
  <2>2. writer # "hook" /\ setter.pc # "hook" /\ ~Coming
    BY DEF AtRest, Coming, Expanders
  <2>3. ~Owes
    BY <2>1, <2>2 DEF CurrentOK
  <2>4. CASE ~view[current].expandable
    BY <2>1, <2>4 DEF CurrentOK, Covered
  <2>5. CASE view[current].expandable
    <3>1. PICK n : n = view[current].scanned
      OBVIOUS
    <3>2. n \in Nat /\ n <= count /\ Covered(current, n)
      BY <3>1, <2>1, ViewFields DEF ViewInv, ViewOK
    <3>3. n = count
      BY <3>1, <3>2, <2>1, <2>3, <2>5 DEF Owes
    <3> QED BY <3>2, <3>3 DEF Covered
  <2> QED BY <2>4, <2>5
<1> QED BY <1>1, ViewInit, ViewNext, PTL DEF Spec

-----------------------------------------------------------------------------
(* The runs: one store, one run, one last word.                            *)

StoredRow == [by : Calls, row : Nat]
Word == [what : {"error", "done"}, rows : Nat, truncated : BOOLEAN, cancelled : BOOLEAN,
         warning : BOOLEAN]
Question == [kind : {"preview", "explain", "analyze"}, limit : Nat \ {0}, late : BOOLEAN,
             total : Nat, wide : BOOLEAN]
CallState == [pc : Rn!PCs, asked : Question, got : Nat, hand : Nat, took : Nat, accepted : Nat,
              delivered : Nat, truncated : BOOLEAN, cancelled : BOOLEAN, named : BOOLEAN]

RunTypes ==
    /\ rnPhase \in {"Empty", "Streaming", "Complete", "Cancelled", "Failed", "Released"}
    /\ rnCut \in BOOLEAN
    /\ rnStored \in Seq(StoredRow)
    /\ rnClaimed \in Calls \cup {None}
    /\ rnCall \in [Calls -> CallState]
    /\ rnStop \in [Calls -> BOOLEAN]
    /\ rnServer \in [Calls -> {"none", "running", "ended"}]
    /\ rnTold \in [Calls -> Seq(Word)]

\* The rows in the store are the claimed run's, in order; a closed store has none.
RunRows ==
    /\ \A i \in DOMAIN rnStored : rnStored[i] = [by |-> rnClaimed, row |-> i]
    /\ rnPhase = "Released" => rnStored = <<>>
    /\ rnClaimed = None => rnPhase \in {"Empty", "Released"} /\ rnStored = <<>>

Untouched(x) ==
    /\ x.got = 0 /\ x.hand = 0 /\ x.took = 0 /\ x.accepted = 0 /\ x.delivered = 0
    /\ ~x.cancelled /\ ~x.truncated

\* A call that did not get the store has not begun, or was told an error.
Outside(c) ==
    \/ /\ rnCall[c].pc \in {"idle", "claim"} /\ rnTold[c] = <<>> /\ rnServer[c] = "none"
       /\ Untouched(rnCall[c])
    \/ rnCall[c].pc = "ended" /\ rnTold[c] = <<Rn!Error>>

\* What a cursor gives in all, and how much of a page the cap lets through.
RowsOf(x) == IF x.asked.total > x.asked.limit THEN x.asked.limit + 1 ELSE x.asked.total
TakeOf(x) == IF x.asked.limit - x.accepted < x.hand THEN x.asked.limit - x.accepted ELSE x.hand

\* The whole result up to the cap is out, and `truncated` says whether there was more.
WholeOut(x) ==
    /\ x.delivered = IF x.asked.total < x.asked.limit THEN x.asked.total ELSE x.asked.limit
    /\ x.truncated <=> x.asked.total > x.delivered

Before == {"prepare", "open", "fence", "execute", "prime"}
Pumping == {"begin", "loop", "fetch", "accept", "probe"}

\* Where the rows are that the cursor has given: accepted, of the page in hand, and delivered.
Counts(x) ==
    /\ x.pc \in Before => x.got = 0 /\ x.accepted = 0 /\ x.hand = 0
    /\ x.pc \in Before \cup {"begin", "loop", "fetch", "probe"} => x.took = 0
    /\ x.pc \in Before \cup Pumping => /\ x.delivered = x.accepted + x.took
                                       /\ x.got = x.accepted + x.hand
                                       /\ x.got <= RowsOf(x)
                                       /\ x.accepted <= x.asked.limit
                                       /\ ~x.cancelled /\ ~x.truncated
    /\ x.pc = "begin" => x.accepted = 0
    /\ x.pc = "loop" => x.accepted < x.asked.limit \/ x.hand = 0
    /\ x.pc = "fetch" => x.accepted < x.asked.limit /\ x.hand = 0
    /\ x.pc = "accept" => x.accepted < x.asked.limit /\ x.hand > 0
    /\ x.pc = "probe" => x.accepted = x.asked.limit /\ x.hand = 0
    /\ x.pc = "finish" /\ ~x.cancelled => WholeOut(x)
    /\ x.pc = "stopping" => x.cancelled
    /\ x.pc = "rollback" => ~x.cancelled /\ WholeOut(x)

\* The store beside the run that has it, before the run's last word.
StoreBeside(c) ==
    LET x == rnCall[c] IN
    /\ x.pc \notin {"settle", "ended"} => Len(rnStored) = x.delivered
    /\ x.pc \in Before => rnPhase = "Empty"
    /\ x.pc \in Pumping \cup {"finish"} => rnPhase \in {"Empty", "Streaming"}
    /\ x.pc = "finish" /\ x.cancelled => rnStop[c]
    /\ x.pc = "stopping" => rnStop[c] /\ rnPhase \in {"Empty", "Cancelled"}
    /\ x.pc = "rollback" => rnPhase = "Complete" /\ rnCut = x.truncated

\* And after it: the word is true, or becomes true when the call settles.
StoreAsTold(c, w) ==
    LET x == rnCall[c]
        open == x.pc = "settle" /\ rnPhase \in {"Empty", "Streaming"} IN
    /\ w.what = "error" => open \/ rnPhase = "Failed" \/ (rnPhase = "Cancelled" /\ rnStop[c])
    /\ w.what = "done" /\ w.cancelled =>
         (open \/ rnPhase = "Cancelled") /\ rnStop[c] /\ Len(rnStored) = w.rows
    /\ w.what = "done" /\ ~w.cancelled =>
         /\ rnPhase = "Complete" /\ w.truncated = rnCut /\ Len(rnStored) = w.rows
         /\ w.rows = x.delivered /\ w.truncated = x.truncated /\ WholeOut(x)

LastWord(c) ==
    \E w \in Word :
        /\ rnTold[c] = <<w>>
        /\ rnPhase # "Released" => StoreAsTold(c, w)
        /\ w.cancelled /\ ~w.warning => rnServer[c] # "running" \/ ~rnCall[c].named

\* The run that has the store.
Inside(c) ==
    LET x == rnCall[c] IN
    /\ x.pc \notin {"idle", "claim"}
    /\ Counts(x)
    /\ x.pc \in {"prepare", "open"} => rnServer[c] = "none"
    /\ rnPhase # "Released" => StoreBeside(c)
    /\ IF x.pc \in {"settle", "ended"} THEN LastWord(c) ELSE rnTold[c] = <<>>

RunInv ==
    /\ RunTypes /\ RunRows
    /\ \A c \in Calls : IF rnClaimed = c THEN Inside(c) ELSE Outside(c)

LEMMA RunInit == Rn!Init => RunInv
<1> SUFFICES ASSUME Rn!Init PROVE RunInv
  OBVIOUS
<1>1. PICK a \in Rn!Asked : Rn!AskedOK(a) /\ rnCall = [c \in Calls |-> Rn!NewCall(a)]
  BY DEF Rn!Init
<1>2. a \in Question
  <2>1. Limits \cup {MaxRows + 1} \subseteq Nat \ {0} /\ 0 .. MaxRows \subseteq Nat
    BY RunsAssumption
  <2> QED BY <1>1, <2>1 DEF Rn!Asked, Question, Rn!NoCap
<1>3. Rn!NewCall(a) \in CallState
  BY <1>2 DEF Rn!NewCall, CallState, Rn!PCs, Question
<1>4. RunTypes
  <2>1. rnCall \in [Calls -> CallState]
    BY <1>1, <1>3
  <2>2. <<>> \in Seq(Word) /\ <<>> \in Seq(StoredRow)
    OBVIOUS
  <2> QED BY <2>1, <2>2 DEF Rn!Init, RunTypes
<1>5. RunRows
  BY DEF Rn!Init, RunRows
<1>6. \A c \in Calls : rnClaimed # c /\ Outside(c)
  BY <1>1, RunsAssumption DEF Rn!Init, Outside, Untouched, Rn!NewCall
<1> QED BY <1>4, <1>5, <1>6 DEF RunInv

LEMMA CallMoves ==
  ASSUME RunTypes, NEW c \in Calls, NEW r \in CallState, rnCall' = [rnCall EXCEPT ![c] = r]
  PROVE  /\ rnCall' \in [Calls -> CallState] /\ rnCall'[c] = r
         /\ \A d \in Calls \ {c} : rnCall'[d] = rnCall[d]
BY DEF RunTypes

LEMMA CallParts ==
  ASSUME NEW r \in CallState
  PROVE  /\ r.pc \in Rn!PCs /\ r.asked \in Question /\ r.got \in Nat /\ r.hand \in Nat /\ r.took \in Nat
         /\ r.accepted \in Nat /\ r.delivered \in Nat /\ r.truncated \in BOOLEAN
         /\ r.cancelled \in BOOLEAN /\ r.named \in BOOLEAN
         /\ r.asked.limit \in Nat \ {0} /\ r.asked.total \in Nat
BY DEF CallState, Question

\* Where the rows are is the same in both.
SameRows(r, x) ==
    /\ r.asked = x.asked /\ r.got = x.got /\ r.hand = x.hand /\ r.took = x.took
    /\ r.accepted = x.accepted /\ r.delivered = x.delivered

\* Goto changes where the call is, and nothing else of it.
LEMMA GotoCall ==
  ASSUME RunTypes, NEW c \in Calls, NEW pc \in Rn!PCs, Rn!Goto(c, pc)
  PROVE  \E r \in CallState :
            /\ rnCall' = [rnCall EXCEPT ![c] = r] /\ SameRows(r, rnCall[c]) /\ r.pc = pc
            /\ r.truncated = rnCall[c].truncated /\ r.cancelled = rnCall[c].cancelled
            /\ r.named = rnCall[c].named
<1> DEFINE r == [rnCall[c] EXCEPT !.pc = pc]
<1>1. rnCall \in [Calls -> CallState] /\ rnCall[c] \in CallState
  BY DEF RunTypes
<1>2. /\ r \in CallState /\ SameRows(r, rnCall[c]) /\ r.pc = pc
      /\ r.truncated = rnCall[c].truncated /\ r.cancelled = rnCall[c].cancelled
      /\ r.named = rnCall[c].named
  BY <1>1 DEF CallState, SameRows
<1>3. rnCall' = [rnCall EXCEPT ![c] = r]
  BY <1>1 DEF Rn!Goto
<1> QED BY <1>2, <1>3

LEMMA Says ==
  ASSUME RunTypes, NEW c \in Calls, NEW w \in Word, rnTold[c] = <<>>, Rn!Say(c, w)
  PROVE  /\ rnTold' \in [Calls -> Seq(Word)] /\ rnTold'[c] = <<w>>
         /\ \A d \in Calls \ {c} : rnTold'[d] = rnTold[d]
<1>1. rnTold \in [Calls -> Seq(Word)]
  BY DEF RunTypes
<1>2. rnTold' = [rnTold EXCEPT ![c] = Append(rnTold[c], w)]
  BY DEF Rn!Say
<1>3. Append(rnTold[c], w) = <<w>> /\ <<w>> \in Seq(Word)
  OBVIOUS
<1> QED BY <1>1, <1>2, <1>3

LEMMA ErrorIsWord == Rn!Error \in Word /\ Rn!Error.what = "error" /\ ~Rn!Error.cancelled
BY DEF Rn!Error, Word

LEMMA DoneIsWord ==
  ASSUME RunTypes, NEW c \in Calls, NEW warned \in BOOLEAN
  PROVE  /\ Rn!Done(c, warned) \in Word /\ Rn!Done(c, warned).what = "done"
         /\ Rn!Done(c, warned).rows = rnCall[c].delivered
         /\ Rn!Done(c, warned).truncated = rnCall[c].truncated
         /\ Rn!Done(c, warned).cancelled = rnCall[c].cancelled
         /\ Rn!Done(c, warned).warning = warned
<1>1. rnCall[c] \in CallState
  BY DEF RunTypes
<1> QED BY <1>1, CallParts DEF Rn!Done, Word

\* Only the call that has the store is at work, and its step leaves the other calls where they are.
LEMMA AtWork ==
  ASSUME RunInv, NEW c \in Calls, rnCall[c].pc \notin {"idle", "claim", "ended"}
  PROVE  rnClaimed = c /\ Inside(c) /\ rnCall[c] \in CallState /\ RunTypes /\ RunRows
BY DEF RunInv, Outside, RunTypes

LEMMA RunKept ==
  ASSUME RunInv, NEW c \in Calls, rnClaimed = c, NEW r \in CallState,
         rnClaimed' = rnClaimed, rnCall' = [rnCall EXCEPT ![c] = r], RunTypes', RunRows',
         \A d \in Calls \ {c} : rnTold'[d] = rnTold[d] /\ rnServer'[d] = rnServer[d],
         Inside(c)'
  PROVE  RunInv'
<1>1. \A d \in Calls \ {c} : rnCall'[d] = rnCall[d]
  BY CallMoves DEF RunInv
<1>2. \A d \in Calls \ {c} : Outside(d)'
  BY <1>1 DEF RunInv, Outside
<1> QED BY <1>2 DEF RunInv

-----------------------------------------------------------------------------
(* The entrance, the stop handle and the tab.                              *)

LEMMA EnterKeeps == \A c \in Calls : RunInv /\ Rn!Enter(c) => RunInv'
<1> TAKE c \in Calls
<1> SUFFICES ASSUME RunInv, Rn!Enter(c) PROVE RunInv'
  OBVIOUS
<1>1. /\ RunTypes /\ rnCall[c].pc = "idle" /\ rnClaimed # c /\ rnTold[c] = <<>>
      /\ rnServer[c] = "none" /\ Untouched(rnCall[c])
      /\ rnClaimed' = rnClaimed /\ rnServer' = rnServer
  BY DEF RunInv, Inside, Outside, Rn!Enter, Rn!At
<1>2. \E pc \in {"claim", "ended"} :
         /\ Rn!Goto(c, pc)
         /\ IF pc = "claim" THEN rnTold' = rnTold ELSE Rn!Say(c, Rn!Error)
  BY DEF Rn!Enter
<1>3. PICK pc \in {"claim", "ended"} :
         /\ Rn!Goto(c, pc)
         /\ IF pc = "claim" THEN rnTold' = rnTold ELSE Rn!Say(c, Rn!Error)
  BY <1>2
<1>4. pc \in Rn!PCs
  BY DEF Rn!PCs
<1>5. PICK r \in CallState : /\ rnCall' = [rnCall EXCEPT ![c] = r] /\ r.pc = pc
                             /\ SameRows(r, rnCall[c]) /\ r.cancelled = rnCall[c].cancelled
                             /\ r.truncated = rnCall[c].truncated
  BY <1>1, <1>3, <1>4, GotoCall
<1>6. /\ rnCall' \in [Calls -> CallState] /\ rnCall'[c] = r
      /\ \A d \in Calls \ {c} : rnCall'[d] = rnCall[d]
  BY <1>1, <1>5, CallMoves
<1>7. /\ rnTold' \in [Calls -> Seq(Word)]
      /\ IF pc = "claim" THEN rnTold'[c] = <<>> ELSE rnTold'[c] = <<Rn!Error>>
      /\ \A d \in Calls \ {c} : rnTold'[d] = rnTold[d]
  BY <1>1, <1>3, Says, ErrorIsWord DEF RunTypes
<1>8. RunTypes' /\ RunRows'
  BY <1>6, <1>7 DEF RunInv, RunTypes, RunRows, Rn!Enter, Rn!StoreUntouched
<1>9. Outside(c)'
  BY <1>1, <1>5, <1>6, <1>7 DEF Outside, Untouched, SameRows, Rn!Error, Rn!Enter
<1>10. \A d \in Calls \ {c} : (Inside(d) => Inside(d)') /\ (Outside(d) => Outside(d)')
  BY <1>6, <1>7 DEF Inside, Outside, StoreBeside, LastWord, StoreAsTold, Rn!Enter,
                    Rn!StoreUntouched, Rn!Error
<1> QED BY <1>1, <1>8, <1>9, <1>10 DEF RunInv

LEMMA ClaimKeeps == \A c \in Calls : RunInv /\ Rn!ClaimRun(c) => RunInv'
<1> TAKE c \in Calls
<1> SUFFICES ASSUME RunInv, Rn!ClaimRun(c) PROVE RunInv'
  OBVIOUS
<1>1. /\ RunTypes /\ rnCall[c].pc = "claim" /\ rnClaimed # c /\ rnTold[c] = <<>>
      /\ rnServer[c] = "none" /\ Untouched(rnCall[c])
      /\ rnPhase' = rnPhase /\ rnCut' = rnCut /\ rnStored' = rnStored
      /\ rnStop' = rnStop /\ rnServer' = rnServer
  BY DEF RunInv, Inside, Outside, Rn!ClaimRun, Rn!At, Rn!StoreUntouched
<1>2. CASE rnClaimed # None
  <2>1. Rn!Goto(c, "ended") /\ Rn!Say(c, Rn!Error) /\ rnClaimed' = rnClaimed
    BY <1>2 DEF Rn!ClaimRun
  <2>2. PICK r \in CallState : rnCall' = [rnCall EXCEPT ![c] = r] /\ r.pc = "ended"
    BY <1>1, <2>1, GotoCall DEF Rn!PCs
  <2>3. /\ rnCall' \in [Calls -> CallState] /\ rnCall'[c] = r
        /\ \A d \in Calls \ {c} : rnCall'[d] = rnCall[d]
    BY <1>1, <2>2, CallMoves
  <2>4. /\ rnTold' \in [Calls -> Seq(Word)] /\ rnTold'[c] = <<Rn!Error>>
        /\ \A d \in Calls \ {c} : rnTold'[d] = rnTold[d]
    BY <1>1, <2>1, Says, ErrorIsWord
  <2>5. RunTypes' /\ RunRows'
    BY <1>1, <2>1, <2>3, <2>4 DEF RunInv, RunTypes, RunRows
  <2>6. Outside(c)'
    BY <2>2, <2>3, <2>4 DEF Outside, Rn!Error
  <2>7. \A d \in Calls \ {c} : (Inside(d) => Inside(d)') /\ (Outside(d) => Outside(d)')
    BY <1>1, <2>3, <2>4 DEF Inside, Outside, StoreBeside, LastWord, StoreAsTold, Rn!Error
  <2> QED BY <1>1, <2>1, <2>5, <2>6, <2>7 DEF RunInv
<1>3. CASE rnClaimed = None
  <2>1. Rn!Goto(c, "prepare") /\ rnTold' = rnTold /\ rnClaimed' = c
    BY <1>3 DEF Rn!ClaimRun
  <2>2. PICK r \in CallState : /\ rnCall' = [rnCall EXCEPT ![c] = r] /\ r.pc = "prepare"
                               /\ SameRows(r, rnCall[c]) /\ r.cancelled = rnCall[c].cancelled
                               /\ r.truncated = rnCall[c].truncated
    BY <1>1, <2>1, GotoCall DEF Rn!PCs
  <2>3. /\ rnCall' \in [Calls -> CallState] /\ rnCall'[c] = r
        /\ \A d \in Calls \ {c} : rnCall'[d] = rnCall[d]
    BY <1>1, <2>2, CallMoves
  <2>4. RunTypes'
    BY <1>1, <2>1, <2>3 DEF RunTypes
  <2>5. rnPhase \in {"Empty", "Released"} /\ rnStored = <<>>
    BY <1>3 DEF RunInv, RunRows
  <2>6. RunRows'
    BY <1>1, <2>1, <2>5, RunsAssumption DEF RunRows
  <2>7. Inside(c)'
    <3>1. Counts(r)
      BY <1>1, <2>2, CallParts DEF Counts, SameRows, Untouched, RowsOf, Before, Pumping
    <3>2. Len(rnStored') = r.delivered
      BY <1>1, <2>2, <2>5 DEF SameRows, Untouched
    <3>3. StoreBeside(c)' \/ rnPhase' = "Released"
      BY <1>1, <2>2, <2>3, <2>5, <3>2 DEF StoreBeside, Before, Pumping
    <3> QED BY <1>1, <2>1, <2>2, <2>3, <3>1, <3>3 DEF Inside
  <2>8. \A d \in Calls \ {c} : Outside(d)'
    <3>1. \A d \in Calls : Outside(d)
      BY <1>3, RunsAssumption DEF RunInv
    <3> QED BY <1>1, <2>1, <2>3, <3>1 DEF Outside, Rn!Error
  <2> QED BY <2>1, <2>4, <2>6, <2>7, <2>8 DEF RunInv
<1> QED BY <1>2, <1>3

LEMMA RequestKeeps == \A c \in Calls : RunInv /\ Rn!Request(c) => RunInv'
<1> TAKE c \in Calls
<1> SUFFICES ASSUME RunInv, Rn!Request(c) PROVE RunInv'
  OBVIOUS
<1>1. /\ rnStop' = [rnStop EXCEPT ![c] = TRUE] /\ rnStop \in [Calls -> BOOLEAN]
      /\ rnPhase' = rnPhase /\ rnCut' = rnCut /\ rnStored' = rnStored
      /\ rnClaimed' = rnClaimed /\ rnCall' = rnCall /\ rnServer' = rnServer /\ rnTold' = rnTold
  BY DEF RunInv, RunTypes, Rn!Request, Rn!StoreUntouched
<1>2. rnStop' \in [Calls -> BOOLEAN] /\ \A d \in Calls : rnStop[d] => rnStop'[d]
  BY <1>1
<1>3. RunTypes' /\ RunRows'
  BY <1>1, <1>2 DEF RunInv, RunTypes, RunRows
<1>4. ASSUME NEW d \in Calls PROVE Outside(d) => Outside(d)'
  BY <1>1 DEF Outside, Rn!Error
<1>5. ASSUME NEW d \in Calls, Inside(d) PROVE Inside(d)'
  <2>1. rnPhase # "Released" => StoreBeside(d)'
    BY <1>1, <1>2, <1>5 DEF Inside, StoreBeside
  <2>2. LastWord(d) => LastWord(d)'
    <3> SUFFICES ASSUME LastWord(d) PROVE LastWord(d)'
      OBVIOUS
    <3>1. PICK w \in Word :
             /\ rnTold[d] = <<w>> /\ (rnPhase # "Released" => StoreAsTold(d, w))
             /\ (w.cancelled /\ ~w.warning => rnServer[d] # "running" \/ ~rnCall[d].named)
      BY DEF LastWord
    <3>2. StoreAsTold(d, w) => StoreAsTold(d, w)'
      BY <1>1, <1>2 DEF StoreAsTold
    <3> QED BY <1>1, <3>1, <3>2 DEF LastWord
  <2> QED BY <1>1, <1>5, <2>1, <2>2 DEF Inside
<1> QED BY <1>1, <1>3, <1>4, <1>5 DEF RunInv

LEMMA ReleaseKeeps == RunInv /\ Rn!Release => RunInv'
<1> SUFFICES ASSUME RunInv, Rn!Release PROVE RunInv'
  OBVIOUS
<1>1. /\ rnPhase' = "Released" /\ rnStored' = <<>> /\ rnCut' = rnCut /\ rnStop' = rnStop
      /\ rnClaimed' = rnClaimed /\ rnCall' = rnCall /\ rnServer' = rnServer /\ rnTold' = rnTold
  BY DEF Rn!Release
<1>2. RunTypes' /\ RunRows'
  BY <1>1 DEF RunInv, RunTypes, RunRows
<1>3. ASSUME NEW d \in Calls PROVE Outside(d) => Outside(d)'
  BY <1>1 DEF Outside, Rn!Error
<1>4. ASSUME NEW d \in Calls, Inside(d) PROVE Inside(d)'
  BY <1>1, <1>4 DEF Inside, LastWord
<1> QED BY <1>1, <1>2, <1>3, <1>4 DEF RunInv

-----------------------------------------------------------------------------
(* The steps that leave the store and the sink alone.                      *)

\* What such a step of c leaves in place.
Quietly ==
    /\ rnPhase' = rnPhase /\ rnCut' = rnCut /\ rnStored' = rnStored
    /\ rnClaimed' = rnClaimed /\ rnStop' = rnStop

\* The call goes on as r, and with it only what the server does with its own statement changes.
LEMMA GoesOn ==
  ASSUME RunInv, NEW c \in Calls, rnClaimed = c, Quietly, rnTold' = rnTold, rnTold[c] = <<>>,
         NEW s \in {"none", "running", "ended"}, rnServer' = [rnServer EXCEPT ![c] = s],
         NEW r \in CallState, rnCall' = [rnCall EXCEPT ![c] = r], Counts(r),
         r.pc \notin {"idle", "claim", "settle", "ended"},
         r.pc \in {"prepare", "open"} => s = "none",
         rnPhase # "Released" => StoreBeside(c)'
  PROVE  RunInv'
<1>1. /\ rnCall' \in [Calls -> CallState] /\ rnCall'[c] = r
      /\ \A d \in Calls \ {c} : rnCall'[d] = rnCall[d]
  BY CallMoves DEF RunInv
<1>2. /\ rnServer' \in [Calls -> {"none", "running", "ended"}] /\ rnServer'[c] = s
      /\ \A d \in Calls \ {c} : rnServer'[d] = rnServer[d]
  BY DEF RunInv, RunTypes
<1>3. RunTypes' /\ RunRows'
  BY <1>1, <1>2 DEF RunInv, RunTypes, RunRows, Quietly
<1>4. Inside(c)'
  BY <1>1, <1>2 DEF Inside, Quietly
<1> QED BY <1>2, <1>3, <1>4, RunKept DEF Quietly

LEMMA ServerStays ==
  ASSUME RunTypes, NEW c \in Calls
  PROVE  rnServer[c] \in {"none", "running", "ended"} /\ rnServer = [rnServer EXCEPT ![c] = rnServer[c]]
BY DEF RunTypes

LEMMA PrepareKeeps == \A c \in Calls : RunInv /\ Rn!Prepare(c) => RunInv'
<1> TAKE c \in Calls
<1> SUFFICES ASSUME RunInv, Rn!Prepare(c) PROVE RunInv'
  OBVIOUS
<1>1. /\ rnCall[c].pc = "prepare" /\ Rn!Goto(c, "open") /\ Quietly /\ rnTold' = rnTold
      /\ rnServer' = rnServer
  BY DEF Rn!Prepare, Rn!At, Rn!StoreUntouched, Quietly
<1>2. rnClaimed = c /\ Inside(c) /\ rnCall[c] \in CallState /\ RunTypes
  BY <1>1, AtWork
<1>3. PICK r \in CallState : /\ rnCall' = [rnCall EXCEPT ![c] = r] /\ SameRows(r, rnCall[c])
                             /\ r.pc = "open" /\ r.cancelled = rnCall[c].cancelled
                             /\ r.truncated = rnCall[c].truncated
  BY <1>1, <1>2, GotoCall DEF Rn!PCs
<1>4. Counts(r)
  BY <1>1, <1>2, <1>3 DEF Inside, Counts, SameRows, RowsOf, Before, Pumping
<1>5. rnPhase # "Released" => StoreBeside(c)'
  BY <1>1, <1>2, <1>3, CallMoves DEF Inside, StoreBeside, SameRows, Before, Pumping, Quietly
<1>6. rnServer[c] = "none" /\ rnTold[c] = <<>>
  BY <1>1, <1>2 DEF Inside
<1> QED BY <1>1, <1>2, <1>3, <1>4, <1>5, <1>6, GoesOn, ServerStays

LEMMA OpenedKeeps == \A c \in Calls : RunInv /\ Rn!Opened(c) => RunInv'
<1> TAKE c \in Calls
<1> SUFFICES ASSUME RunInv, Rn!Opened(c) PROVE RunInv'
  OBVIOUS
<1>1. /\ rnCall[c].pc = "open" /\ Quietly /\ rnTold' = rnTold
      /\ rnServer' = [rnServer EXCEPT ![c] = "running"]
      /\ \E pc \in {"fence", "execute"} : Rn!Goto(c, pc)
  BY DEF Rn!Opened, Rn!At, Rn!StoreUntouched, Quietly
<1>2. rnClaimed = c /\ Inside(c) /\ rnCall[c] \in CallState /\ RunTypes
  BY <1>1, AtWork
<1>3. PICK pc \in {"fence", "execute"} : Rn!Goto(c, pc)
  BY <1>1
<1>4. pc \in Rn!PCs
  BY DEF Rn!PCs
<1>5. PICK r \in CallState : /\ rnCall' = [rnCall EXCEPT ![c] = r] /\ SameRows(r, rnCall[c])
                             /\ r.pc = pc /\ r.cancelled = rnCall[c].cancelled
                             /\ r.truncated = rnCall[c].truncated
  BY <1>2, <1>3, <1>4, GotoCall
<1>6. Counts(r)
  BY <1>1, <1>2, <1>5 DEF Inside, Counts, SameRows, RowsOf, Before, Pumping
<1>7. rnPhase # "Released" => StoreBeside(c)'
  BY <1>1, <1>2, <1>5, CallMoves DEF Inside, StoreBeside, SameRows, Before, Pumping, Quietly
<1>8. rnTold[c] = <<>>
  BY <1>1, <1>2 DEF Inside
<1> QED BY <1>1, <1>2, <1>5, <1>6, <1>7, <1>8, GoesOn

LEMMA FencedKeeps == \A c \in Calls : RunInv /\ Rn!Fenced(c) => RunInv'
<1> TAKE c \in Calls
<1> SUFFICES ASSUME RunInv, Rn!Fenced(c) PROVE RunInv'
  OBVIOUS
<1>1. /\ rnCall[c].pc = "fence" /\ Quietly /\ rnTold' = rnTold /\ rnServer' = rnServer
      /\ Rn!Goto(c, "execute")
  BY DEF Rn!Fenced, Rn!At, Rn!StoreUntouched, Quietly
<1>2. rnClaimed = c /\ Inside(c) /\ rnCall[c] \in CallState /\ RunTypes
  BY <1>1, AtWork
<1>3. PICK r \in CallState : /\ rnCall' = [rnCall EXCEPT ![c] = r] /\ SameRows(r, rnCall[c])
                             /\ r.pc = "execute" /\ r.cancelled = rnCall[c].cancelled
                             /\ r.truncated = rnCall[c].truncated
  BY <1>1, <1>2, GotoCall DEF Rn!PCs
<1>4. Counts(r)
  BY <1>1, <1>2, <1>3 DEF Inside, Counts, SameRows, RowsOf, Before, Pumping
<1>5. rnPhase # "Released" => StoreBeside(c)'
  BY <1>1, <1>2, <1>3, CallMoves DEF Inside, StoreBeside, SameRows, Before, Pumping, Quietly
<1>6. rnTold[c] = <<>>
  BY <1>1, <1>2 DEF Inside
<1> QED BY <1>1, <1>2, <1>3, <1>4, <1>5, <1>6, GoesOn, ServerStays

LEMMA ExecutedKeeps == \A c \in Calls : RunInv /\ Rn!Executed(c) => RunInv'
<1> TAKE c \in Calls
<1> SUFFICES ASSUME RunInv, Rn!Executed(c) PROVE RunInv'
  OBVIOUS
<1> DEFINE r == [rnCall[c] EXCEPT !.pc = "prime", !.named = TRUE]
<1>1. rnCall[c].pc = "execute" /\ Quietly /\ rnTold' = rnTold /\ rnServer' = rnServer
  BY DEF Rn!Executed, Rn!At, Rn!StoreUntouched, Quietly
<1>2. rnClaimed = c /\ Inside(c) /\ rnCall[c] \in CallState /\ RunTypes
  BY <1>1, AtWork
<1>3. /\ r \in CallState /\ SameRows(r, rnCall[c]) /\ r.pc = "prime"
      /\ r.cancelled = rnCall[c].cancelled
      /\ r.truncated = rnCall[c].truncated
  BY <1>2 DEF CallState, SameRows, Rn!PCs
<1>4. rnCall' = [rnCall EXCEPT ![c] = r]
  BY <1>2 DEF Rn!Executed, RunTypes
<1> HIDE DEF r
<1>5. Counts(r)
  BY <1>1, <1>2, <1>3 DEF Inside, Counts, SameRows, RowsOf, Before, Pumping
<1>6. rnPhase # "Released" => StoreBeside(c)'
  BY <1>1, <1>2, <1>3, <1>4, CallMoves DEF Inside, StoreBeside, SameRows, Before, Pumping, Quietly
<1>7. rnTold[c] = <<>>
  BY <1>1, <1>2 DEF Inside
<1> QED BY <1>1, <1>2, <1>3, <1>4, <1>5, <1>6, <1>7, GoesOn, ServerStays

\* What the cursor can still give, and that it gives all of it only at its end.
LEMMA LeftIs ==
  ASSUME RunTypes, NEW c \in Calls
  PROVE  Rn!Left(c) = RowsOf(rnCall[c]) - rnCall[c].got /\ RowsOf(rnCall[c]) \in Nat
<1>1. rnCall[c] \in CallState
  BY DEF RunTypes
<1> QED BY <1>1, CallParts DEF Rn!Left, Rn!Rows, RowsOf

LEMMA DrainedIs ==
  ASSUME RunTypes, NEW c \in Calls, NEW n \in Nat
  PROVE  Rn!Drained(c, n) \in {"none", "running", "ended"}
BY DEF RunTypes, Rn!Drained

LEMMA PrimedKeeps == \A c \in Calls, n \in 0 .. MaxRows : RunInv /\ Rn!Primed(c, n) => RunInv'
<1> TAKE c \in Calls, n \in 0 .. MaxRows
<1> SUFFICES ASSUME RunInv, Rn!Primed(c, n) PROVE RunInv'
  OBVIOUS
<1> DEFINE got == rnCall[c].got + n
           r == [rnCall[c] EXCEPT !.pc = "begin", !.hand = n, !.got = got]
<1>1. /\ rnCall[c].pc = "prime" /\ Quietly /\ rnTold' = rnTold /\ n \in Nat
      /\ rnServer' = [rnServer EXCEPT ![c] = Rn!Drained(c, n)] /\ n \in 0 .. Rn!Left(c)
  BY RunsAssumption DEF Rn!Primed, Rn!At, Rn!StoreUntouched, Quietly
<1>2. rnClaimed = c /\ Inside(c) /\ rnCall[c] \in CallState /\ RunTypes
  BY <1>1, AtWork
<1>3. got \in Nat /\ got = n /\ got <= RowsOf(rnCall[c])
  BY <1>1, <1>2, CallParts, LeftIs DEF Inside, Counts, Before
<1>4. rnCall' = [rnCall EXCEPT ![c] = r]
  BY <1>2 DEF Rn!Primed, RunTypes
<1> HIDE DEF got
<1>5. /\ r \in CallState /\ r.pc = "begin" /\ r.hand = n /\ r.got = got /\ r.took = rnCall[c].took
      /\ r.asked = rnCall[c].asked /\ r.accepted = rnCall[c].accepted
      /\ r.delivered = rnCall[c].delivered /\ r.cancelled = rnCall[c].cancelled
      /\ r.truncated = rnCall[c].truncated
  BY <1>1, <1>2, <1>3 DEF CallState, Rn!PCs
<1> HIDE DEF r
<1>6. Counts(r)
  <2>1. /\ r.took = 0 /\ r.accepted = 0 /\ r.delivered = 0 /\ ~r.cancelled
        /\ ~r.truncated
        /\ RowsOf(r) = RowsOf(rnCall[c])
    BY <1>1, <1>2, <1>5, CallParts DEF Inside, Counts, RowsOf, Before
  <2>2. r.asked.limit \in Nat
    BY <1>5, CallParts
  <2> QED BY <1>1, <1>3, <1>5, <2>1, <2>2 DEF Counts, Before, Pumping
<1>7. rnPhase # "Released" => StoreBeside(c)'
  BY <1>1, <1>2, <1>4, <1>5, CallMoves DEF Inside, StoreBeside, Before, Pumping, Quietly
<1>8. rnTold[c] = <<>>
  BY <1>1, <1>2 DEF Inside
<1>9. Rn!Drained(c, n) \in {"none", "running", "ended"}
  BY <1>1, <1>2, DrainedIs
<1> QED BY <1>1, <1>2, <1>4, <1>5, <1>6, <1>7, <1>8, <1>9, GoesOn

LEMMA BeginKeeps == \A c \in Calls : RunInv /\ Rn!Begin(c) => RunInv'
<1> TAKE c \in Calls
<1> SUFFICES ASSUME RunInv, Rn!Begin(c) PROVE RunInv'
  OBVIOUS
<1>1. rnCall[c].pc = "begin" /\ Quietly /\ rnTold' = rnTold /\ rnServer' = rnServer
  BY DEF Rn!Begin, Rn!At, Rn!StoreUntouched, Quietly
<1>2. rnClaimed = c /\ Inside(c) /\ rnCall[c] \in CallState /\ RunTypes /\ rnTold[c] = <<>>
  BY <1>1, AtWork DEF Inside
<1>3. CASE rnCall[c].asked.wide /\ rnPhase = "Released"
  <2> DEFINE r == [rnCall[c] EXCEPT !.pc = "finish", !.cancelled = TRUE]
  <2>1. r \in CallState /\ r.pc = "finish" /\ r.cancelled
    BY <1>2 DEF CallState, Rn!PCs
  <2>2. rnCall' = [rnCall EXCEPT ![c] = r]
    BY <1>2, <1>3 DEF Rn!Begin, RunTypes
  <2> HIDE DEF r
  <2>3. Counts(r)
    BY <2>1 DEF Counts, Before, Pumping
  <2> QED BY <1>1, <1>2, <1>3, <2>1, <2>2, <2>3, GoesOn, ServerStays
<1>4. CASE ~(rnCall[c].asked.wide /\ rnPhase = "Released")
  <2>1. Rn!Goto(c, "loop")
    BY <1>4 DEF Rn!Begin
  <2>2. PICK r \in CallState : /\ rnCall' = [rnCall EXCEPT ![c] = r] /\ SameRows(r, rnCall[c])
                               /\ r.pc = "loop" /\ r.cancelled = rnCall[c].cancelled
                               /\ r.truncated = rnCall[c].truncated
    BY <1>2, <2>1, GotoCall DEF Rn!PCs
  <2>3. Counts(r)
    BY <1>1, <1>2, <2>2, CallParts DEF Inside, Counts, SameRows, RowsOf, Before, Pumping
  <2>4. rnPhase # "Released" => StoreBeside(c)'
    BY <1>1, <1>2, <2>2, CallMoves DEF Inside, StoreBeside, SameRows, Before, Pumping, Quietly
  <2> QED BY <1>1, <1>2, <2>2, <2>3, <2>4, GoesOn, ServerStays
<1> QED BY <1>3, <1>4

LEMMA LoopKeeps == \A c \in Calls : RunInv /\ Rn!Loop(c) => RunInv'
<1> TAKE c \in Calls
<1> SUFFICES ASSUME RunInv, Rn!Loop(c) PROVE RunInv'
  OBVIOUS
<1> DEFINE x == rnCall[c]
<1>1. x.pc = "loop" /\ Quietly /\ rnTold' = rnTold /\ rnServer' = rnServer
  BY DEF Rn!Loop, Rn!At, Rn!StoreUntouched, Quietly
<1>2. /\ rnClaimed = c /\ Inside(c) /\ x \in CallState /\ RunTypes /\ rnTold[c] = <<>>
      /\ rnStop[c] \in BOOLEAN
  BY <1>1, AtWork DEF Inside, RunTypes
<1>3. PICK pc \in Rn!PCs :
        pc = IF x.accepted >= x.asked.limit THEN "probe"
             ELSE IF x.hand > 0 THEN "accept" ELSE IF rnStop[c] THEN "finish" ELSE "fetch"
  BY DEF Rn!PCs
<1>4. PICK o \in BOOLEAN : o = (x.accepted < x.asked.limit /\ x.hand = 0 /\ rnStop[c])
  OBVIOUS
<1> DEFINE r == [x EXCEPT !.pc = pc, !.cancelled = o]
<1>5. /\ r \in CallState /\ SameRows(r, x) /\ r.pc = pc /\ r.cancelled = o
      /\ r.truncated = x.truncated
  BY <1>2 DEF CallState, SameRows
<1>6. rnCall' = [rnCall EXCEPT ![c] = r]
  BY <1>2, <1>3, <1>4 DEF Rn!Loop, RunTypes
<1> HIDE DEF r
<1>7. /\ x.accepted \in Nat /\ x.hand \in Nat /\ x.asked.limit \in Nat /\ x.took = 0
      /\ x.delivered = x.accepted + x.took /\ x.got = x.accepted + x.hand
      /\ x.got <= RowsOf(x) /\ x.accepted <= x.asked.limit
      /\ (x.accepted < x.asked.limit \/ x.hand = 0) /\ ~x.truncated
  BY <1>1, <1>2, CallParts DEF Inside, Counts, Before, Pumping
<1>8. RowsOf(r) = RowsOf(x)
  BY <1>5 DEF SameRows, RowsOf
<1>9. Counts(r)
  <2>1. pc \in {"probe", "accept", "finish", "fetch"} /\ (pc = "finish" <=> o)
    <3>1. o <=> (x.accepted < x.asked.limit /\ x.hand = 0 /\ rnStop[c])
      BY <1>4, Zenon
    <3> QED BY <1>3, <1>7, <3>1
  <2>2. /\ pc = "fetch" => x.accepted < x.asked.limit /\ x.hand = 0
        /\ pc = "accept" => x.accepted < x.asked.limit /\ x.hand > 0
        /\ pc = "probe" => x.accepted = x.asked.limit /\ x.hand = 0
    BY <1>3, <1>7
  <2> QED BY <1>5, <1>7, <1>8, <2>1, <2>2 DEF Counts, SameRows, Before, Pumping
<1>10. rnPhase # "Released" => StoreBeside(c)'
  <2>1. rnCall'[c] = r
    BY <1>2, <1>5, <1>6, CallMoves
  <2>2. rnPhase # "Released" =>
          Len(rnStored) = r.delivered /\ rnPhase \in {"Empty", "Streaming"}
    BY <1>1, <1>2, <1>5 DEF Inside, StoreBeside, SameRows, Pumping
  <2>3. pc \in {"probe", "accept", "finish", "fetch"} /\ (pc = "finish" => rnStop[c])
    BY <1>3
  <2> QED BY <1>1, <1>5, <2>1, <2>2, <2>3 DEF StoreBeside, Before, Pumping, Quietly
<1>11. r.pc \notin {"idle", "claim", "settle", "ended", "prepare", "open"}
  BY <1>3, <1>5
<1> QED BY <1>1, <1>2, <1>5, <1>6, <1>9, <1>10, <1>11, GoesOn, ServerStays

LEMMA FetchedKeeps == \A c \in Calls, n \in 0 .. MaxRows : RunInv /\ Rn!Fetched(c, n) => RunInv'
<1> TAKE c \in Calls, n \in 0 .. MaxRows
<1> SUFFICES ASSUME RunInv, Rn!Fetched(c, n) PROVE RunInv'
  OBVIOUS
<1> DEFINE x == rnCall[c]
           got == x.got + n
           pc == IF n = 0 THEN "finish" ELSE "accept"
           r == [x EXCEPT !.pc = pc, !.hand = n, !.got = got]
<1>1. /\ x.pc = "fetch" /\ Quietly /\ rnTold' = rnTold /\ n \in Nat
      /\ rnServer' = [rnServer EXCEPT ![c] = Rn!Drained(c, n)]
      /\ n \in 0 .. Rn!Left(c) /\ (n = 0 => Rn!Left(c) = 0)
  BY RunsAssumption DEF Rn!Fetched, Rn!At, Rn!StoreUntouched, Quietly
<1>2. rnClaimed = c /\ Inside(c) /\ x \in CallState /\ RunTypes /\ rnTold[c] = <<>>
  BY <1>1, AtWork DEF Inside
<1>3. /\ x.accepted \in Nat /\ x.got \in Nat /\ x.asked.limit \in Nat /\ x.asked.total \in Nat
      /\ x.took = 0 /\ x.delivered = x.accepted /\ x.got = x.accepted /\ x.accepted < x.asked.limit
      /\ ~x.cancelled /\ ~x.truncated
  BY <1>1, <1>2, CallParts DEF Inside, Counts, Before, Pumping
<1>4. got \in Nat /\ got = x.accepted + n /\ got <= RowsOf(x) /\ (n = 0 => x.accepted = RowsOf(x))
  BY <1>1, <1>2, <1>3, LeftIs
<1>5. rnCall' = [rnCall EXCEPT ![c] = r]
  BY <1>2 DEF Rn!Fetched, RunTypes
<1> HIDE DEF got
<1>6. /\ r \in CallState /\ r.pc = pc /\ r.hand = n /\ r.got = got /\ r.took = x.took
      /\ r.asked = x.asked /\ r.accepted = x.accepted /\ r.delivered = x.delivered
      /\ r.cancelled = x.cancelled /\ r.truncated = x.truncated
  BY <1>1, <1>2, <1>4 DEF CallState, Rn!PCs
<1> HIDE DEF r
<1>7. Counts(r)
  <2>1. RowsOf(r) = RowsOf(x)
    BY <1>6 DEF RowsOf
  <2>2. n = 0 => WholeOut(r)
    <3>1. n = 0 => x.accepted = x.asked.total
      BY <1>3, <1>4 DEF RowsOf
    <3> QED BY <1>3, <1>6, <3>1 DEF WholeOut
  <2> QED BY <1>1, <1>3, <1>4, <1>6, <2>1, <2>2 DEF Counts, Before, Pumping
<1>8. rnPhase # "Released" => StoreBeside(c)'
  BY <1>1, <1>2, <1>3, <1>5, <1>6, CallMoves
     DEF Inside, StoreBeside, Before, Pumping, Quietly
<1>9. Rn!Drained(c, n) \in {"none", "running", "ended"}
  BY <1>1, <1>2, DrainedIs
<1>10. r.pc \notin {"idle", "claim", "settle", "ended", "prepare", "open"}
  BY <1>6
<1> QED BY <1>1, <1>2, <1>5, <1>6, <1>7, <1>8, <1>9, <1>10, GoesOn

LEMMA ProbedKeeps == \A c \in Calls : RunInv /\ Rn!Probed(c) => RunInv'
<1> TAKE c \in Calls
<1> SUFFICES ASSUME RunInv, Rn!Probed(c) PROVE RunInv'
  OBVIOUS
<1> DEFINE x == rnCall[c]
<1>1. x.pc = "probe" /\ Quietly /\ rnTold' = rnTold
  BY DEF Rn!Probed, Rn!At, Rn!StoreUntouched, Quietly
<1>2. rnClaimed = c /\ Inside(c) /\ x \in CallState /\ RunTypes /\ rnTold[c] = <<>>
  BY <1>1, AtWork DEF Inside
<1>3. PICK o \in BOOLEAN : o = (Rn!Left(c) > 0)
  <2>1. Rn!Left(c) \in Int
    BY <1>2, LeftIs, CallParts
  <2>2. CASE Rn!Left(c) > 0
    <3>1. TRUE = (Rn!Left(c) > 0)
      BY <2>1, <2>2
    <3> QED BY <3>1, Zenon
  <2>3. CASE ~(Rn!Left(c) > 0)
    <3>1. FALSE = (Rn!Left(c) > 0)
      BY <2>1, <2>3
    <3> QED BY <3>1, Zenon
  <2> QED BY <2>2, <2>3
<1>4. PICK s \in {"none", "running", "ended"} : rnServer' = [rnServer EXCEPT ![c] = s]
  BY <1>2 DEF Rn!Probed, RunTypes
<1> DEFINE r == [x EXCEPT !.pc = "finish", !.truncated = o]
<1>5. rnCall' = [rnCall EXCEPT ![c] = r]
  BY <1>2, <1>3 DEF Rn!Probed, RunTypes
<1>6. r \in CallState /\ r.pc = "finish" /\ SameRows(r, x) /\ r.truncated = o /\ ~r.cancelled
  BY <1>1, <1>2 DEF CallState, Rn!PCs, SameRows, Inside, Counts, Pumping
<1> HIDE DEF r
<1>7. WholeOut(r)
  <2>1. /\ x.delivered = x.asked.limit /\ x.got = x.asked.limit /\ x.got <= RowsOf(x)
        /\ x.asked.limit \in Nat /\ x.asked.total \in Nat /\ Rn!Left(c) = RowsOf(x) - x.got
    BY <1>1, <1>2, CallParts, LeftIs DEF Inside, Counts, Pumping
  <2>2. x.asked.limit <= x.asked.total /\ (Rn!Left(c) > 0 <=> x.asked.total > x.asked.limit)
    BY <2>1 DEF RowsOf
  <2>3. o <=> Rn!Left(c) > 0
    BY <1>3, Zenon
  <2> QED BY <1>6, <2>1, <2>2, <2>3 DEF WholeOut, SameRows
<1>8. Counts(r)
  BY <1>6, <1>7 DEF Counts, Before, Pumping
<1>9. rnPhase # "Released" => StoreBeside(c)'
  BY <1>1, <1>2, <1>5, <1>6, CallMoves
     DEF Inside, StoreBeside, SameRows, Before, Pumping, Quietly
<1> QED BY <1>1, <1>2, <1>4, <1>5, <1>6, <1>8, <1>9, GoesOn

LEMMA AcceptReleasedKeeps == \A c \in Calls : RunInv /\ Rn!AcceptReleased(c) => RunInv'
<1> TAKE c \in Calls
<1> SUFFICES ASSUME RunInv, Rn!AcceptReleased(c) PROVE RunInv'
  OBVIOUS
<1> DEFINE r == [rnCall[c] EXCEPT !.pc = "finish", !.cancelled = TRUE]
<1>1. /\ rnCall[c].pc = "accept" /\ Quietly /\ rnTold' = rnTold /\ rnServer' = rnServer
      /\ rnPhase = "Released"
  BY DEF Rn!AcceptReleased, Rn!At, Rn!StoreUntouched, Quietly
<1>2. rnClaimed = c /\ Inside(c) /\ rnCall[c] \in CallState /\ RunTypes /\ rnTold[c] = <<>>
  BY <1>1, AtWork DEF Inside
<1>3. r \in CallState /\ r.pc = "finish" /\ r.cancelled
  BY <1>2 DEF CallState, Rn!PCs
<1>4. rnCall' = [rnCall EXCEPT ![c] = r]
  BY <1>2 DEF Rn!AcceptReleased, RunTypes
<1> HIDE DEF r
<1>5. Counts(r)
  BY <1>3 DEF Counts, Before, Pumping
<1> QED BY <1>1, <1>2, <1>3, <1>4, <1>5, GoesOn, ServerStays

-----------------------------------------------------------------------------
(* The rows into the store.                                                *)

LEMMA PushedRows ==
  ASSUME RunTypes, RunRows, NEW c \in Calls, rnClaimed = c, NEW n \in Nat,
         n = 0 \/ Len(rnStored) = rnCall[c].accepted + rnCall[c].took
  PROVE  LET new == rnStored \o Rn!Pushed(c, n)
         IN /\ new \in Seq(StoredRow) /\ Len(new) = Len(rnStored) + n
            /\ \A i \in DOMAIN new : new[i] = [by |-> c, row |-> i]
            /\ n = 0 => new = rnStored
<1> DEFINE tail == Rn!Pushed(c, n)
           new == rnStored \o tail
<1>1. rnStored \in Seq(StoredRow) /\ Len(rnStored) \in Nat /\ rnCall[c] \in CallState
  BY DEF RunTypes
<1>2. rnCall[c].accepted \in Nat /\ rnCall[c].took \in Nat
  BY <1>1, CallParts
<1>3. /\ tail \in Seq(StoredRow) /\ Len(tail) = n
      /\ \A i \in 1 .. n : tail[i] = [by |-> c, row |-> rnCall[c].accepted + rnCall[c].took + i]
  BY <1>2 DEF Rn!Pushed, StoredRow
<1> HIDE DEF tail
<1>4. /\ new \in Seq(StoredRow) /\ Len(new) = Len(rnStored) + n
      /\ \A i \in 1 .. Len(new) : new[i] = IF i <= Len(rnStored) THEN rnStored[i]
                                           ELSE tail[i - Len(rnStored)]
  <2>1. /\ rnStored \o tail \in Seq(StoredRow)
        /\ Len(rnStored \o tail) = Len(rnStored) + Len(tail)
        /\ \A i \in 1 .. Len(rnStored) + Len(tail) :
             (rnStored \o tail)[i] = IF i <= Len(rnStored) THEN rnStored[i]
                                      ELSE tail[i - Len(rnStored)]
    BY <1>1, <1>3, ConcatProperties
  <2> QED BY <1>3, <2>1
<1>5. \A i \in DOMAIN new : new[i] = [by |-> c, row |-> i]
  <2> SUFFICES ASSUME NEW i \in 1 .. Len(new) PROVE new[i] = [by |-> c, row |-> i]
    BY <1>4
  <2>1. CASE i <= Len(rnStored)
    BY <1>1, <1>4, <2>1 DEF RunRows
  <2>2. CASE i > Len(rnStored)
    <3>1. i - Len(rnStored) \in 1 .. n /\ n # 0
      BY <1>1, <1>4, <2>2
    <3>2. rnCall[c].accepted + rnCall[c].took + (i - Len(rnStored)) = i
      BY <1>1, <1>2, <3>1
    <3> QED BY <1>1, <1>3, <1>4, <2>2, <3>1, <3>2
  <2> QED BY <1>1, <1>4, <2>1, <2>2
<1>6. n = 0 => new = rnStored
  <2>1. n = 0 => tail = <<>>
    BY <1>3
  <2> QED BY <1>1, <2>1
<1> QED BY <1>4, <1>5, <1>6 DEF tail

LEMMA AcceptKeeps == \A c \in Calls, n \in 1 .. MaxRows : RunInv /\ Rn!Accept(c, n) => RunInv'
<1> TAKE c \in Calls, n \in 1 .. MaxRows
<1> SUFFICES ASSUME RunInv, Rn!Accept(c, n) PROVE RunInv'
  OBVIOUS
<1> DEFINE x == rnCall[c]
           take == TakeOf(x)
           all == x.took + n = take
           over == all /\ take < x.hand
           pc == IF over THEN "finish" ELSE IF all THEN "loop" ELSE "accept"
           delivered == x.delivered + n
           accepted == IF all THEN x.accepted + take ELSE x.accepted
           took == IF all THEN 0 ELSE x.took + n
           hand == IF all THEN 0 ELSE x.hand
<1>1. /\ x.pc = "accept" /\ rnPhase \in {"Empty", "Streaming"} /\ rnPhase' = "Streaming"
      /\ rnStored' = rnStored \o Rn!Pushed(c, n) /\ rnCut' = rnCut /\ rnClaimed' = rnClaimed
      /\ rnStop' = rnStop /\ rnServer' = rnServer /\ rnTold' = rnTold /\ n \in Nat
  BY RunsAssumption DEF Rn!Accept, Rn!At
<1>2. /\ rnClaimed = c /\ Inside(c) /\ x \in CallState /\ RunTypes /\ RunRows /\ rnTold[c] = <<>>
  BY <1>1, AtWork DEF Inside
<1>3. /\ x.accepted \in Nat /\ x.took \in Nat /\ x.hand \in Nat /\ x.got \in Nat
      /\ x.delivered \in Nat /\ x.asked.limit \in Nat /\ x.asked.total \in Nat
      /\ x.delivered = x.accepted + x.took /\ x.got = x.accepted + x.hand /\ x.got <= RowsOf(x)
      /\ x.accepted < x.asked.limit /\ x.hand > 0 /\ ~x.cancelled /\ ~x.truncated
      /\ Len(rnStored) = x.delivered
  BY <1>1, <1>2, CallParts DEF Inside, Counts, StoreBeside, Pumping
<1>4. /\ take \in Nat /\ take <= x.hand /\ take <= x.asked.limit - x.accepted
      /\ (take < x.hand => take = x.asked.limit - x.accepted)
  BY <1>3 DEF TakeOf
<1>0. n \in Nat
  BY RunsAssumption
<1>5. Rn!Take(c) = take
  BY DEF Rn!Take, TakeOf
<1> HIDE DEF take
<1>6. PICK o \in BOOLEAN : o = over
  <2>1. over \in BOOLEAN
    BY <1>3, <1>4
  <2> QED BY <2>1
<1> DEFINE r == [x EXCEPT !.pc = pc, !.truncated = o, !.delivered = delivered,
                          !.accepted = accepted, !.took = took, !.hand = hand]
<1>7. rnCall' = [rnCall EXCEPT ![c] = r]
  BY <1>2, <1>5, <1>6 DEF Rn!Accept, RunTypes
<1>8. delivered \in Nat /\ accepted \in Nat /\ took \in Nat /\ hand \in Nat /\ pc \in Rn!PCs
  <2>1. delivered \in Nat /\ x.accepted + take \in Nat /\ x.took + n \in Nat
    <3>1. x.delivered \in Nat /\ x.accepted \in Nat /\ x.took \in Nat
      BY <1>3
    <3>2. take \in Nat
      BY <1>4
    <3> HIDE DEF x
    <3>3. x.accepted + take \in Nat
      BY <3>1, <3>2
    <3>4. x.delivered + n \in Nat /\ x.took + n \in Nat
      BY <1>0, <3>1
    <3> QED BY <3>3, <3>4
  <2>2. accepted \in Nat /\ took \in Nat /\ hand \in Nat
    BY <1>3, <2>1
  <2>3. pc \in Rn!PCs
    BY DEF Rn!PCs
  <2> HIDE DEF pc, delivered, accepted, took, hand
  <2> QED BY <2>1, <2>2, <2>3
<1>9. /\ delivered = accepted + took /\ accepted <= x.asked.limit /\ x.got <= RowsOf(x)
      /\ ~over => x.got = accepted + hand
      /\ over => delivered = x.asked.limit /\ x.asked.total > x.asked.limit
      /\ pc = "loop" => hand = 0 /\ took = 0
      /\ pc = "accept" => accepted < x.asked.limit /\ hand > 0
  <2>1. CASE all
    <3>1. /\ accepted = x.accepted + take /\ took = 0 /\ hand = 0 /\ x.took + n = take
          /\ delivered = x.delivered + n
      BY <2>1
    <3>6. /\ x.accepted \in Nat /\ x.took \in Nat /\ x.hand \in Nat /\ x.asked.limit \in Nat
          /\ x.delivered = x.accepted + x.took /\ x.got = x.accepted + x.hand
          /\ x.got <= RowsOf(x) /\ x.accepted < x.asked.limit
      BY <1>3
    <3>7. take \in Nat /\ take <= x.asked.limit - x.accepted
      BY <1>4
    <3>2. ~over => take = x.hand
      BY <1>3, <1>4, <2>1
    <3>3. over => take = x.asked.limit - x.accepted /\ take < x.hand
      BY <1>3, <1>4
    <3>4. take < x.hand => x.asked.total > x.asked.limit
      <4>1. take < x.hand => RowsOf(x) > x.asked.limit
        <5>1. RowsOf(x) \in Nat
          BY <1>2, LeftIs
        <5>2. take < x.hand => x.got > x.asked.limit
          BY <1>3, <1>4
        <5> QED BY <1>3, <5>1, <5>2
      <4> QED BY <1>3, <4>1 DEF RowsOf
    <3>5. pc # "accept"
      BY <2>1
    <3> HIDE DEF pc, delivered, accepted, took, hand, over, all, x
    <3>8. delivered = accepted + took /\ accepted <= x.asked.limit
      BY <1>0, <3>1, <3>6, <3>7
    <3>9. over => delivered = x.asked.limit /\ x.asked.total > x.asked.limit
      BY <3>1, <3>3, <3>4, <3>6, <3>8
    <3>10. ~over => x.got = accepted + hand
      BY <3>1, <3>2, <3>6
    <3> QED BY <3>1, <3>5, <3>6, <3>8, <3>9, <3>10
  <2>2. CASE ~all
    <3>1. accepted = x.accepted /\ took = x.took + n /\ hand = x.hand /\ ~over /\ pc = "accept"
      BY <2>2
    <3>2. delivered = accepted + took
      <4>1. delivered = x.delivered + n /\ x.delivered = x.accepted + x.took
        BY <1>3
      <4>2. x.accepted \in Nat /\ x.took \in Nat
        BY <1>3
      <4> HIDE DEF x, delivered, accepted, took
      <4> QED BY <1>0, <3>1, <4>1, <4>2
    <3>3. x.got = x.accepted + x.hand /\ x.accepted < x.asked.limit /\ x.hand > 0
          /\ x.got <= RowsOf(x) /\ x.accepted \in Nat /\ x.asked.limit \in Nat
      BY <1>3
    <3> HIDE DEF pc, delivered, accepted, took, hand, over, all, x
    <3> QED BY <3>1, <3>2, <3>3
  <2> QED BY <2>1, <2>2
<1>10. pc \in {"finish", "loop", "accept"} /\ (pc = "finish" <=> over)
  OBVIOUS
<1>11. over <=> o
  BY <1>6, Zenon
<1> HIDE DEF pc, delivered, accepted, took, hand, over, all, take
<1>12. /\ r \in CallState /\ r.pc = pc /\ r.delivered = delivered /\ r.accepted = accepted
       /\ r.took = took /\ r.hand = hand /\ r.truncated = o /\ r.asked = x.asked
       /\ r.got = x.got /\ r.cancelled = x.cancelled
  BY <1>2, <1>8 DEF CallState
<1> HIDE DEF r
<1>13. Counts(r)
  <2>1. RowsOf(r) = RowsOf(x)
    BY <1>12 DEF RowsOf
  <2>2. over => WholeOut(r)
    BY <1>3, <1>9, <1>11, <1>12 DEF WholeOut
  <2> QED BY <1>3, <1>8, <1>9, <1>10, <1>11, <1>12, <2>1, <2>2 DEF Counts, Before, Pumping
<1>14. /\ rnStored' \in Seq(StoredRow) /\ Len(rnStored') = delivered
       /\ \A i \in DOMAIN rnStored' : rnStored'[i] = [by |-> c, row |-> i]
  <2>1. Len(rnStored) = x.accepted + x.took
    BY <1>3
  <2>2. /\ rnStored \o Rn!Pushed(c, n) \in Seq(StoredRow)
        /\ Len(rnStored \o Rn!Pushed(c, n)) = Len(rnStored) + n
        /\ \A i \in DOMAIN (rnStored \o Rn!Pushed(c, n)) :
              (rnStored \o Rn!Pushed(c, n))[i] = [by |-> c, row |-> i]
    BY <1>1, <1>2, <2>1, PushedRows
  <2> QED BY <1>1, <1>3, <2>2 DEF delivered
<1>15. rnCall' \in [Calls -> CallState] /\ rnCall'[c] = r
  BY <1>2, <1>7, <1>12, CallMoves
<1>16. RunTypes' /\ RunRows'
  BY <1>1, <1>2, <1>14, <1>15, RunsAssumption DEF RunTypes, RunRows
<1>17. StoreBeside(c)'
  BY <1>1, <1>3, <1>10, <1>12, <1>14, <1>15 DEF StoreBeside, Before, Pumping
<1>18. Inside(c)'
  BY <1>1, <1>2, <1>10, <1>12, <1>13, <1>15, <1>17 DEF Inside
<1> QED BY <1>1, <1>2, <1>7, <1>12, <1>16, <1>18, RunKept

LEMMA RunEndsKeeps == \A c \in Calls : RunInv /\ Rn!Finish(c) => RunInv'
<1> TAKE c \in Calls
<1> SUFFICES ASSUME RunInv, Rn!Finish(c) PROVE RunInv'
  OBVIOUS
<1> DEFINE x == rnCall[c]
<1>1. /\ x.pc = "finish" /\ rnStored' = rnStored /\ rnClaimed' = rnClaimed /\ rnStop' = rnStop
      /\ rnServer' = rnServer
      /\ Rn!FinishStore(IF x.cancelled THEN "Cancelled" ELSE "Complete", x.truncated)
  BY DEF Rn!Finish, Rn!At
<1>2. /\ rnClaimed = c /\ Inside(c) /\ x \in CallState /\ RunTypes /\ RunRows /\ rnTold[c] = <<>>
      /\ x.truncated \in BOOLEAN /\ x.cancelled \in BOOLEAN
  BY <1>1, AtWork, CallParts DEF Inside
<1>3. /\ rnPhase = "Released" => rnPhase' = "Released" /\ rnCut' = rnCut
      /\ rnPhase # "Released" /\ x.cancelled => rnPhase' = "Cancelled" /\ rnCut' = rnCut
      /\ rnPhase # "Released" /\ ~x.cancelled => rnPhase' = "Complete" /\ rnCut' = x.truncated
  BY <1>1, <1>2 DEF Rn!FinishStore
<1>4. /\ rnPhase' \in {"Released", "Cancelled", "Complete"} /\ rnCut' \in BOOLEAN
      /\ (rnPhase' = "Released" <=> rnPhase = "Released")
  BY <1>2, <1>3 DEF RunTypes
<1>5. RunRows'
  BY <1>1, <1>2, <1>4, RunsAssumption DEF RunRows
<1>6. ~x.cancelled => WholeOut(x)
  BY <1>1, <1>2 DEF Inside, Counts
<1>7. rnPhase # "Released" => Len(rnStored) = x.delivered /\ (x.cancelled => rnStop[c])
  BY <1>1, <1>2 DEF Inside, StoreBeside
<1>8. ASSUME NEW pc \in {"stopping", "rollback"}, Rn!Goto(c, pc), rnTold' = rnTold,
             x.cancelled <=> pc = "stopping"
      PROVE  RunInv'
  <2>1. PICK r \in CallState : /\ rnCall' = [rnCall EXCEPT ![c] = r] /\ SameRows(r, x) /\ r.pc = pc
                               /\ r.cancelled = x.cancelled /\ r.truncated = x.truncated
    BY <1>2, <1>8, GotoCall DEF Rn!PCs
  <2>2. rnCall' \in [Calls -> CallState] /\ rnCall'[c] = r
    BY <1>2, <2>1, CallMoves
  <2>3. Counts(r)
    BY <1>6, <1>8, <2>1 DEF Counts, WholeOut, SameRows, Before, Pumping
  <2>4. rnPhase' # "Released" => StoreBeside(c)'
    BY <1>1, <1>3, <1>4, <1>7, <1>8, <2>1, <2>2 DEF StoreBeside, SameRows, Before, Pumping
  <2>5. RunTypes'
    BY <1>1, <1>2, <1>4, <1>8, <2>2 DEF RunTypes
  <2>6. Inside(c)'
    BY <1>1, <1>2, <1>8, <2>1, <2>2, <2>3, <2>4 DEF Inside
  <2> QED BY <1>1, <1>2, <1>5, <1>8, <2>1, <2>5, <2>6, RunKept
<1>9. CASE x.cancelled
  <2>1. Rn!Goto(c, "stopping") /\ rnTold' = rnTold
    BY <1>9 DEF Rn!Finish
  <2> QED BY <1>8, <1>9, <2>1
<1>10. CASE ~x.cancelled /\ x.asked.kind = "analyze"
  <2>1. Rn!Goto(c, "rollback") /\ rnTold' = rnTold
    BY <1>10 DEF Rn!Finish
  <2> QED BY <1>8, <1>10, <2>1
<1>11. CASE ~x.cancelled /\ x.asked.kind # "analyze"
  <2>1. Rn!Goto(c, "settle") /\ Rn!Say(c, Rn!Done(c, FALSE))
    BY <1>11 DEF Rn!Finish
  <2>0. PICK w \in Word : w = Rn!Done(c, FALSE)
    BY <1>2, DoneIsWord
  <2>2. /\ w \in Word /\ w.what = "done" /\ w.rows = x.delivered /\ w.truncated = x.truncated
        /\ ~w.cancelled
    BY <1>2, <1>11, <2>0, DoneIsWord
  <2>3. PICK r \in CallState : /\ rnCall' = [rnCall EXCEPT ![c] = r] /\ SameRows(r, x)
                               /\ r.pc = "settle" /\ r.truncated = x.truncated
    BY <1>2, <2>1, GotoCall DEF Rn!PCs
  <2>4. rnCall' \in [Calls -> CallState] /\ rnCall'[c] = r
    BY <1>2, <2>3, CallMoves
  <2>5. /\ rnTold' \in [Calls -> Seq(Word)] /\ rnTold'[c] = <<w>>
        /\ \A d \in Calls \ {c} : rnTold'[d] = rnTold[d]
    BY <1>2, <2>0, <2>1, Says
  <2>6. Counts(r)
    BY <2>3 DEF Counts, Before, Pumping
  <2>7. rnPhase' # "Released" => StoreAsTold(c, w)'
    <3>1. WholeOut(r)
      BY <1>6, <1>11, <2>3 DEF WholeOut, SameRows
    <3>2. rnPhase' # "Released" =>
            /\ rnPhase' = "Complete" /\ rnCut' = x.truncated /\ Len(rnStored') = x.delivered
      BY <1>1, <1>3, <1>4, <1>7, <1>11
    <3>3. /\ w.truncated = x.truncated /\ w.rows = r.delivered /\ r.truncated = x.truncated
          /\ x.delivered = r.delivered /\ w.what = "done" /\ ~w.cancelled
      BY <2>2, <2>3 DEF SameRows
    <3> QED BY <2>4, <3>1, <3>2, <3>3 DEF StoreAsTold
  <2>8. rnPhase' # "Released" => StoreBeside(c)'
    BY <2>3, <2>4 DEF StoreBeside, Before, Pumping
  <2>9. RunTypes'
    BY <1>1, <1>2, <1>4, <2>4, <2>5 DEF RunTypes
  <2>10. LastWord(c)'
    BY <2>2, <2>5, <2>7, Zenon DEF LastWord
  <2>11. Inside(c)'
    BY <2>3, <2>4, <2>6, <2>8, <2>10 DEF Inside
  <2> QED BY <1>1, <1>2, <1>5, <2>3, <2>5, <2>9, <2>11, RunKept
<1> QED BY <1>9, <1>10, <1>11

-----------------------------------------------------------------------------
(* The last word.                                                          *)

\* The call has said w and goes on as r to settle.
LEMMA SaysLast ==
  ASSUME RunInv, NEW c \in Calls, rnClaimed = c, rnClaimed' = rnClaimed, rnStop' = rnStop,
         rnPhase' \in {"Empty", "Streaming", "Complete", "Cancelled", "Failed", "Released"},
         rnCut' \in BOOLEAN, rnStored' \in Seq(StoredRow), RunRows',
         NEW r \in CallState, rnCall' = [rnCall EXCEPT ![c] = r], r.pc = "settle",
         NEW s \in {"none", "running", "ended"}, rnServer' = [rnServer EXCEPT ![c] = s],
         rnTold[c] = <<>>, NEW w \in Word, Rn!Say(c, w),
         rnPhase' # "Released" => StoreAsTold(c, w)',
         w.cancelled /\ ~w.warning => s # "running" \/ ~r.named
  PROVE  RunInv'
<1>1. RunTypes
  BY DEF RunInv
<1>2. rnCall' \in [Calls -> CallState] /\ rnCall'[c] = r
  BY <1>1, CallMoves
<1>3. /\ rnServer' \in [Calls -> {"none", "running", "ended"}] /\ rnServer'[c] = s
      /\ \A d \in Calls \ {c} : rnServer'[d] = rnServer[d]
  BY <1>1 DEF RunTypes
<1>4. /\ rnTold' \in [Calls -> Seq(Word)] /\ rnTold'[c] = <<w>>
      /\ \A d \in Calls \ {c} : rnTold'[d] = rnTold[d]
  BY <1>1, Says
<1>5. RunTypes'
  BY <1>1, <1>2, <1>3, <1>4 DEF RunTypes
<1>6. LastWord(c)'
  BY <1>2, <1>3, <1>4 DEF LastWord
<1>7. Inside(c)'
  BY <1>2, <1>6 DEF Inside, Counts, StoreBeside, Before, Pumping
<1> QED BY <1>3, <1>4, <1>5, <1>7, RunKept

\* An error while the store has not been told of the end.
LEMMA FailsOpen ==
  ASSUME RunInv, NEW c \in Calls, rnCall[c].pc \in Before \cup Pumping, Quietly,
         Rn!Goto(c, "settle"), Rn!Say(c, Rn!Error),
         NEW s \in {"none", "running", "ended"}, rnServer' = [rnServer EXCEPT ![c] = s]
  PROVE  RunInv'
<1>1. rnClaimed = c /\ Inside(c) /\ RunTypes /\ RunRows /\ rnTold[c] = <<>>
  BY AtWork DEF Inside, Before, Pumping
<1>2. PICK r \in CallState : rnCall' = [rnCall EXCEPT ![c] = r] /\ r.pc = "settle"
  BY <1>1, GotoCall DEF Rn!PCs
<1>3. PICK w \in Word : w = Rn!Error
  BY ErrorIsWord
<1>4. rnCall'[c] = r
  BY <1>1, <1>2, CallMoves
<1>5. rnPhase # "Released" => rnPhase \in {"Empty", "Streaming"}
  BY <1>1 DEF Inside, StoreBeside, Before, Pumping
<1>6. w.what = "error" /\ ~w.cancelled
  BY <1>3, ErrorIsWord
<1>7. rnPhase' # "Released" => StoreAsTold(c, w)'
  BY <1>2, <1>4, <1>5, <1>6 DEF StoreAsTold, Quietly
<1>8. RunRows'
  BY <1>1 DEF RunRows, Quietly
<1>9. /\ rnPhase' \in {"Empty", "Streaming", "Complete", "Cancelled", "Failed", "Released"}
      /\ rnCut' \in BOOLEAN /\ rnStored' \in Seq(StoredRow)
  BY <1>1 DEF RunTypes, Quietly
<1>10. Rn!Say(c, w)
  BY <1>3
<1> QED BY <1>1, <1>2, <1>6, <1>7, <1>8, <1>9, <1>10, SaysLast DEF Quietly

LEMMA FailsEarlyKeeps == \A c \in Calls : RunInv /\ Rn!FailsEarly(c) => RunInv'
<1> TAKE c \in Calls
<1> SUFFICES ASSUME RunInv, Rn!FailsEarly(c) PROVE RunInv'
  OBVIOUS
<1>1. /\ rnCall[c].pc \in Before /\ Quietly /\ Rn!Goto(c, "settle") /\ Rn!Say(c, Rn!Error)
      /\ rnServer' = [rnServer EXCEPT ![c] = "none"]
  BY DEF Rn!FailsEarly, Rn!StoreUntouched, Quietly, Before
<1> QED BY <1>1, FailsOpen

LEMMA PanicsKeeps == \A c \in Calls : RunInv /\ Rn!Panics(c) => RunInv'
<1> TAKE c \in Calls
<1> SUFFICES ASSUME RunInv, Rn!Panics(c) PROVE RunInv'
  OBVIOUS
<1>1. /\ rnCall[c].pc \in Before \cup Pumping /\ Quietly /\ Rn!Goto(c, "settle")
      /\ Rn!Say(c, Rn!Error) /\ rnServer' = rnServer
  BY DEF Rn!Panics, Rn!StoreUntouched, Quietly, Before, Pumping, Rn!Waits
<1> QED BY <1>1, FailsOpen, ServerStays DEF RunInv

LEMMA PumpFailsKeeps == \A c \in Calls : RunInv /\ Rn!PumpFails(c) => RunInv'
<1> TAKE c \in Calls
<1> SUFFICES ASSUME RunInv, Rn!PumpFails(c) PROVE RunInv'
  OBVIOUS
<1>1. /\ rnCall[c].pc \in {"fetch", "probe", "accept"}
      /\ rnCall[c].pc = "accept" => rnPhase # "Released"
      /\ Rn!FinishStore("Failed", FALSE) /\ Rn!Goto(c, "settle") /\ Rn!Say(c, Rn!Error)
      /\ rnClaimed' = rnClaimed /\ rnStop' = rnStop
  BY DEF Rn!PumpFails, Rn!At
<1>2. PICK n \in 0 .. MaxRows : /\ n > 0 => rnCall[c].pc = "accept"
                                /\ rnStored' = rnStored \o Rn!Pushed(c, n)
  BY DEF Rn!PumpFails, Rn!At
<1>3. PICK s \in {"running", "ended"} : rnServer' = [rnServer EXCEPT ![c] = s]
  BY DEF Rn!PumpFails
<1>4. rnClaimed = c /\ Inside(c) /\ RunTypes /\ RunRows /\ rnTold[c] = <<>> /\ n \in Nat
  BY <1>1, AtWork, RunsAssumption DEF Inside
<1>5. n = 0 \/ Len(rnStored) = rnCall[c].accepted + rnCall[c].took
  BY <1>1, <1>2, <1>4 DEF Inside, StoreBeside, Counts, Pumping
<1>6. /\ rnStored' \in Seq(StoredRow)
      /\ \A i \in DOMAIN rnStored' : rnStored'[i] = [by |-> c, row |-> i]
      /\ n = 0 => rnStored' = rnStored
  BY <1>2, <1>4, <1>5, PushedRows
<1>7. /\ rnPhase = "Released" => rnPhase' = "Released"
      /\ rnPhase # "Released" => rnPhase' = "Failed"
      /\ rnCut' = rnCut
  BY <1>1 DEF Rn!FinishStore
<1>8. PICK r \in CallState : rnCall' = [rnCall EXCEPT ![c] = r] /\ r.pc = "settle"
  BY <1>1, <1>4, GotoCall DEF Rn!PCs
<1>9. PICK w \in Word : w = Rn!Error
  BY ErrorIsWord
<1>10. w.what = "error" /\ ~w.cancelled /\ Rn!Say(c, w)
  BY <1>1, <1>9, ErrorIsWord
<1>11. RunRows'
  <2>1. rnPhase' = "Released" => n = 0
    BY <1>1, <1>2, <1>7
  <2> QED BY <1>1, <1>4, <1>6, <1>7, <2>1, RunsAssumption DEF RunRows
<1>12. rnPhase' # "Released" => StoreAsTold(c, w)'
  BY <1>7, <1>10 DEF StoreAsTold
<1>13. /\ rnPhase' \in {"Empty", "Streaming", "Complete", "Cancelled", "Failed", "Released"}
       /\ rnCut' \in BOOLEAN
  BY <1>4, <1>7 DEF RunTypes
<1> QED BY <1>1, <1>3, <1>4, <1>6, <1>8, <1>10, <1>11, <1>12, <1>13, SaysLast

\* A last word that leaves the store alone.
LEMMA SaysDone ==
  ASSUME RunInv, NEW c \in Calls, rnClaimed = c, Quietly, Rn!Goto(c, "settle"),
         NEW warned \in BOOLEAN, Rn!Say(c, Rn!Done(c, warned)), rnTold[c] = <<>>,
         NEW s \in {"none", "running", "ended"}, rnServer' = [rnServer EXCEPT ![c] = s],
         rnPhase # "Released" => Len(rnStored) = rnCall[c].delivered,
         rnPhase # "Released" /\ rnCall[c].cancelled =>
            rnStop[c] /\ rnPhase \in {"Empty", "Cancelled"},
         rnPhase # "Released" /\ ~rnCall[c].cancelled =>
            rnPhase = "Complete" /\ rnCut = rnCall[c].truncated /\ WholeOut(rnCall[c]),
         rnCall[c].cancelled /\ ~warned => s # "running" \/ ~rnCall[c].named
  PROVE  RunInv'
<1> DEFINE x == rnCall[c]
<1>1. RunTypes /\ RunRows
  BY DEF RunInv
<1>2. PICK w \in Word : w = Rn!Done(c, warned)
  BY <1>1, DoneIsWord
<1>3. /\ w.what = "done" /\ w.rows = x.delivered /\ w.truncated = x.truncated
      /\ w.cancelled = x.cancelled /\ w.warning = warned /\ Rn!Say(c, w)
  BY <1>1, <1>2, DoneIsWord
<1>4. PICK r \in CallState : /\ rnCall' = [rnCall EXCEPT ![c] = r] /\ SameRows(r, x)
                             /\ r.pc = "settle" /\ r.truncated = x.truncated /\ r.named = x.named
  BY <1>1, GotoCall DEF Rn!PCs
<1>5. rnCall'[c] = r
  BY <1>1, <1>4, CallMoves
<1>6. RunRows'
  BY <1>1 DEF RunRows, Quietly
<1>7. /\ rnPhase' \in {"Empty", "Streaming", "Complete", "Cancelled", "Failed", "Released"}
      /\ rnCut' \in BOOLEAN /\ rnStored' \in Seq(StoredRow)
  BY <1>1 DEF RunTypes, Quietly
<1>8. rnPhase' # "Released" => StoreAsTold(c, w)'
  <2>1. WholeOut(x) => WholeOut(r)
    BY <1>4 DEF WholeOut, SameRows
  <2>2. r.delivered = w.rows /\ r.truncated = w.truncated
    BY <1>3, <1>4 DEF SameRows
  <2> QED BY <1>3, <1>4, <1>5, <2>1, <2>2 DEF StoreAsTold, Quietly
<1>9. w.cancelled /\ ~w.warning => s # "running" \/ ~r.named
  BY <1>3, <1>4
<1> QED BY <1>3, <1>4, <1>6, <1>7, <1>8, <1>9, SaysLast DEF Quietly

LEMMA RolledBackKeeps == \A c \in Calls : RunInv /\ Rn!RolledBack(c) => RunInv'
<1> TAKE c \in Calls
<1> SUFFICES ASSUME RunInv, Rn!RolledBack(c) PROVE RunInv'
  OBVIOUS
<1>1. /\ rnCall[c].pc = "rollback" /\ Quietly /\ Rn!Goto(c, "settle")
      /\ Rn!Say(c, Rn!Done(c, FALSE)) /\ rnServer' = rnServer
  BY DEF Rn!RolledBack, Rn!At, Rn!StoreUntouched, Quietly
<1>2. rnClaimed = c /\ Inside(c) /\ RunTypes /\ rnTold[c] = <<>>
  BY <1>1, AtWork DEF Inside
<1>3. /\ ~rnCall[c].cancelled
      /\ rnPhase # "Released" =>
           /\ Len(rnStored) = rnCall[c].delivered /\ rnPhase = "Complete"
           /\ rnCut = rnCall[c].truncated /\ WholeOut(rnCall[c])
  BY <1>1, <1>2 DEF Inside, Counts, StoreBeside
<1> QED BY <1>1, <1>2, <1>3, SaysDone, ServerStays

LEMMA StoppingIs ==
  ASSUME RunInv, NEW c \in Calls, rnCall[c].pc = "stopping"
  PROVE  /\ rnClaimed = c /\ RunTypes /\ rnTold[c] = <<>> /\ rnCall[c].cancelled
         /\ rnPhase # "Released" => /\ Len(rnStored) = rnCall[c].delivered
                                    /\ rnStop[c] /\ rnPhase \in {"Empty", "Cancelled"}
BY AtWork DEF Inside, Counts, StoreBeside

LEMMA ConfirmedKeeps == \A c \in Calls : RunInv /\ Rn!Confirmed(c) => RunInv'
<1> TAKE c \in Calls
<1> SUFFICES ASSUME RunInv, Rn!Confirmed(c) PROVE RunInv'
  OBVIOUS
<1>1. /\ rnCall[c].pc = "stopping" /\ Quietly /\ Rn!Goto(c, "settle")
      /\ Rn!Say(c, Rn!Done(c, FALSE))
      /\ rnServer' = [rnServer EXCEPT ![c] = IF rnCall[c].named THEN "ended" ELSE rnServer[c]]
  BY DEF Rn!Confirmed, Rn!At, Rn!StoreUntouched, Quietly
<1>2. PICK s \in {"none", "running", "ended"} :
         s = IF rnCall[c].named THEN "ended" ELSE rnServer[c]
  BY ServerStays DEF RunInv
<1> QED BY <1>1, <1>2, StoppingIs, SaysDone

LEMMA UnconfirmedKeeps == \A c \in Calls : RunInv /\ Rn!Unconfirmed(c) => RunInv'
<1> TAKE c \in Calls
<1> SUFFICES ASSUME RunInv, Rn!Unconfirmed(c) PROVE RunInv'
  OBVIOUS
<1>1. /\ rnCall[c].pc = "stopping" /\ Quietly /\ Rn!Goto(c, "settle")
      /\ Rn!Say(c, Rn!Done(c, TRUE)) /\ rnServer' = rnServer
  BY DEF Rn!Unconfirmed, Rn!At, Rn!StoreUntouched, Quietly
<1> QED BY <1>1, StoppingIs, SaysDone, ServerStays

LEMMA StopWinsKeeps == \A c \in Calls : RunInv /\ Rn!StopWins(c) => RunInv'
<1> TAKE c \in Calls
<1> SUFFICES ASSUME RunInv, Rn!StopWins(c) PROVE RunInv'
  OBVIOUS
<1> DEFINE x == rnCall[c]
<1>1. /\ x.pc \in Rn!Waits /\ rnStop[c] /\ Quietly /\ rnServer' = rnServer
      /\ IF x.pc = "open"
           THEN Rn!Say(c, [Rn!Done(c, FALSE) EXCEPT !.cancelled = TRUE])
           ELSE rnTold' = rnTold
  BY DEF Rn!StopWins, Rn!Raced, Rn!At, Rn!StoreUntouched, Quietly
<1>2. /\ rnClaimed = c /\ Inside(c) /\ x \in CallState /\ RunTypes /\ RunRows /\ rnTold[c] = <<>>
  BY <1>1, AtWork DEF Inside, Rn!Waits
<1>3. PICK answered \in BOOLEAN :
         rnCall' = [rnCall EXCEPT
              ![c].pc = CASE x.pc = "open" -> "settle"
                          [] x.pc \in {"fetch", "probe"} -> "finish"
                          [] OTHER -> "stopping",
              ![c].cancelled = TRUE,
              ![c].truncated = x.pc = "probe",
              ![c].named = x.named \/ answered]
  BY <1>2 DEF Rn!StopWins, Rn!At, RunTypes
<1>4. PICK t \in BOOLEAN : t = (x.pc = "probe")
  OBVIOUS
<1>5. PICK m \in BOOLEAN : m = (x.named \/ answered)
  OBVIOUS
<1>6. PICK pc \in {"settle", "finish", "stopping"} :
         /\ pc = CASE x.pc = "open" -> "settle"
                   [] x.pc \in {"fetch", "probe"} -> "finish"
                   [] OTHER -> "stopping"
         /\ pc = "settle" <=> x.pc = "open"
         /\ pc = "finish" => x.pc \in {"fetch", "probe"}
         /\ pc = "stopping" => x.pc \in {"fence", "execute", "prime"}
  BY <1>1 DEF Rn!Waits
<1> DEFINE r == [x EXCEPT !.pc = pc, !.cancelled = TRUE, !.truncated = t, !.named = m]
<1>7. rnCall' = [rnCall EXCEPT ![c] = r]
  BY <1>2, <1>3, <1>4, <1>5, <1>6 DEF RunTypes
<1>8. r \in CallState /\ r.pc = pc /\ SameRows(r, x) /\ r.cancelled
  BY <1>2 DEF CallState, Rn!PCs, SameRows
<1> HIDE DEF r
<1>9. Counts(r)
  BY <1>8 DEF Counts, Before, Pumping
<1>10. rnCall'[c] = r
  BY <1>2, <1>7, <1>8, CallMoves
<1>11. CASE x.pc # "open"
  <2>1. rnPhase # "Released" => StoreBeside(c)'
    <3>1. rnPhase # "Released" =>
            /\ Len(rnStored) = x.delivered
            /\ pc = "finish" => rnPhase \in {"Empty", "Streaming"}
            /\ pc = "stopping" => rnPhase = "Empty"
      BY <1>1, <1>2, <1>6 DEF Inside, StoreBeside, Before, Pumping, Rn!Waits
    <3> QED BY <1>1, <1>6, <1>8, <1>10, <1>11, <3>1
            DEF StoreBeside, SameRows, Before, Pumping, Quietly
  <2>2. rnTold' = rnTold /\ r.pc \in {"finish", "stopping"}
    BY <1>1, <1>6, <1>8, <1>11
  <2> QED BY <1>1, <1>2, <1>7, <1>8, <1>9, <2>1, <2>2, GoesOn, ServerStays
<1>12. CASE x.pc = "open"
  <2>1. PICK w \in Word : w = [Rn!Done(c, FALSE) EXCEPT !.cancelled = TRUE]
    BY <1>2, DoneIsWord DEF Word
  <2>2. w.what = "done" /\ w.cancelled /\ w.rows = x.delivered
    BY <1>2, <2>1, DoneIsWord DEF Word
  <2>3. rnPhase # "Released" => rnPhase = "Empty" /\ Len(rnStored) = x.delivered
    BY <1>2, <1>12 DEF Inside, StoreBeside, Before
  <2>4. r.pc = "settle"
    BY <1>6, <1>8, <1>12
  <2>5. rnPhase' # "Released" => StoreAsTold(c, w)'
    BY <1>1, <1>10, <2>2, <2>3, <2>4 DEF StoreAsTold, Quietly
  <2>6. rnServer[c] = "none"
    BY <1>2, <1>12 DEF Inside
  <2>7. /\ rnPhase' \in {"Empty", "Streaming", "Complete", "Cancelled", "Failed", "Released"}
        /\ rnCut' \in BOOLEAN /\ rnStored' \in Seq(StoredRow)
    BY <1>1, <1>2 DEF RunTypes, Quietly
  <2>8. RunRows'
    BY <1>1, <1>2 DEF RunRows, Quietly
  <2>9. Rn!Say(c, w) /\ rnServer' = [rnServer EXCEPT ![c] = "none"]
    BY <1>1, <1>2, <1>12, <2>1, <2>6, ServerStays
  <2> QED BY <1>1, <1>2, <1>7, <1>8, <2>4, <2>5, <2>7, <2>8, <2>9, SaysLast DEF Quietly
<1> QED BY <1>11, <1>12

\* A store that was told nothing of the end is closed out, and the word is true from then on.
LEMMA SettleKeeps == \A c \in Calls : RunInv /\ Rn!Settle(c) => RunInv'
<1> TAKE c \in Calls
<1> SUFFICES ASSUME RunInv, Rn!Settle(c) PROVE RunInv'
  OBVIOUS
<1>1. /\ rnCall[c].pc = "settle" /\ Rn!Goto(c, "ended") /\ rnStored' = rnStored
      /\ rnClaimed' = rnClaimed /\ rnStop' = rnStop /\ rnServer' = rnServer /\ rnTold' = rnTold
  BY DEF Rn!Settle, Rn!At
<1>2. /\ rnClaimed = c /\ Inside(c) /\ RunTypes /\ RunRows /\ LastWord(c)
      /\ rnStop[c] \in BOOLEAN
  BY <1>1, AtWork DEF Inside, RunTypes
<1>3. /\ rnPhase \in {"Empty", "Streaming"} =>
           /\ rnPhase' = IF rnStop[c] THEN "Cancelled" ELSE "Failed"
           /\ rnCut' = rnCut
      /\ rnPhase \notin {"Empty", "Streaming"} => rnPhase' = rnPhase /\ rnCut' = rnCut
  BY <1>1, <1>2 DEF Rn!Settle, Rn!FinishStore
<1>4. PICK r \in CallState : /\ rnCall' = [rnCall EXCEPT ![c] = r] /\ SameRows(r, rnCall[c])
                             /\ r.pc = "ended" /\ r.truncated = rnCall[c].truncated
                             /\ r.named = rnCall[c].named
  BY <1>1, <1>2, GotoCall DEF Rn!PCs
<1>5. rnCall' \in [Calls -> CallState] /\ rnCall'[c] = r
  BY <1>2, <1>4, CallMoves
<1>6. RunTypes'
  BY <1>1, <1>2, <1>3, <1>5 DEF RunTypes
<1>7. RunRows'
  BY <1>1, <1>2, <1>3, RunsAssumption DEF RunRows
<1>8. PICK w \in Word :
        /\ rnTold[c] = <<w>> /\ (rnPhase # "Released" => StoreAsTold(c, w))
        /\ (w.cancelled /\ ~w.warning => rnServer[c] # "running" \/ ~rnCall[c].named)
  BY <1>2 DEF LastWord
<1>9. rnPhase' # "Released" => StoreAsTold(c, w)'
  <2>1. WholeOut(rnCall[c]) => WholeOut(r)
    BY <1>4 DEF WholeOut, SameRows
  <2>2. r.delivered = rnCall[c].delivered
    BY <1>4 DEF SameRows
  <2> QED BY <1>1, <1>2, <1>3, <1>4, <1>5, <1>8, <2>1, <2>2 DEF StoreAsTold
<1>10. LastWord(c)'
  BY <1>1, <1>4, <1>5, <1>8, <1>9 DEF LastWord
<1>11. Inside(c)'
  BY <1>4, <1>5, <1>10 DEF Inside, Counts, StoreBeside, Before, Pumping
<1> QED BY <1>1, <1>2, <1>4, <1>6, <1>7, <1>11, RunKept

-----------------------------------------------------------------------------

LEMMA RunNext == RunInv /\ Rn!Next => RunInv'
<1> SUFFICES ASSUME RunInv, Rn!Next PROVE RunInv'
  OBVIOUS
<1>1. CASE Rn!Release
  BY <1>1, ReleaseKeeps
<1>2. CASE \E c \in Calls : Rn!Enter(c) \/ Rn!Own(c) \/ Rn!Database(c) \/ Rn!FailsEarly(c)
                              \/ Rn!PumpFails(c) \/ Rn!Panics(c) \/ Rn!Request(c)
  <2>1. PICK c \in Calls : Rn!Enter(c) \/ Rn!Own(c) \/ Rn!Database(c) \/ Rn!FailsEarly(c)
                              \/ Rn!PumpFails(c) \/ Rn!Panics(c) \/ Rn!Request(c)
    BY <1>2
  <2>2. Rn!Own(c) => RunInv'
    BY ClaimKeeps, PrepareKeeps, BeginKeeps, LoopKeeps, RunEndsKeeps, StopWinsKeeps, SettleKeeps,
       AcceptKeeps, AcceptReleasedKeeps, UnconfirmedKeeps DEF Rn!Own
  <2>3. Rn!Database(c) => RunInv'
    BY OpenedKeeps, FencedKeeps, ExecutedKeeps, ProbedKeeps, ConfirmedKeeps, RolledBackKeeps,
       PrimedKeeps, FetchedKeeps DEF Rn!Database
  <2> QED BY <2>1, <2>2, <2>3, EnterKeeps, FailsEarlyKeeps, PumpFailsKeeps, PanicsKeeps, RequestKeeps
<1> QED BY <1>1, <1>2 DEF Rn!Next

LEMMA RunIsTold == RunInv => RunTold
<1> SUFFICES ASSUME RunInv PROVE Rn!RunTold
  BY DEF RunTold
<1>1. \A i \in DOMAIN rnStored : rnStored[i] = [by |-> rnClaimed, row |-> i]
  BY DEF RunInv, RunRows
<1>2. ASSUME NEW c \in Calls, rnCall[c].pc = "ended"
      PROVE  /\ Len(rnTold[c]) = 1
             /\ rnClaimed # c => rnTold[c][1].what = "error"
             /\ rnClaimed = c /\ rnPhase # "Released" => Rn!AsTold(c, rnTold[c][1])
             /\ rnTold[c][1].cancelled /\ ~rnTold[c][1].warning =>
                   rnServer[c] # "running" \/ ~rnCall[c].named
  <2>1. CASE rnClaimed # c
    <3>1. rnTold[c] = <<Rn!Error>>
      BY <1>2, <2>1 DEF RunInv, Outside
    <3> QED BY <2>1, <3>1, ErrorIsWord
  <2>2. CASE rnClaimed = c
    <3>1. PICK w \in Word :
            /\ rnTold[c] = <<w>> /\ (rnPhase # "Released" => StoreAsTold(c, w))
            /\ (w.cancelled /\ ~w.warning => rnServer[c] # "running" \/ ~rnCall[c].named)
      BY <1>2, <2>2 DEF RunInv, Inside, LastWord
    <3>2. rnCall[c] \in CallState
      BY DEF RunInv, RunTypes
    <3>3. Rn!WholeResult(c) = IF rnCall[c].asked.total < rnCall[c].asked.limit
                              THEN rnCall[c].asked.total ELSE rnCall[c].asked.limit
      BY DEF Rn!WholeResult
    <3>4. rnPhase # "Released" => Rn!AsTold(c, w)
      <4> SUFFICES ASSUME rnPhase # "Released" PROVE Rn!AsTold(c, w)
        OBVIOUS
      <4>1. CASE w.what = "error"
        <5>1. rnPhase = "Failed" \/ (rnPhase = "Cancelled" /\ rnStop[c])
          BY <1>2, <3>1, <4>1 DEF StoreAsTold
        <5> QED BY <4>1, <5>1 DEF Rn!AsTold
      <4>2. CASE w.what = "done" /\ w.cancelled
        BY <1>2, <3>1, <4>2 DEF StoreAsTold, Rn!AsTold
      <4>3. CASE w.what = "done" /\ ~w.cancelled
        <5>1. /\ rnPhase = "Complete" /\ w.truncated = rnCut /\ Len(rnStored) = w.rows
              /\ w.rows = rnCall[c].delivered /\ w.truncated = rnCall[c].truncated
              /\ WholeOut(rnCall[c])
          BY <1>2, <3>1, <4>3 DEF StoreAsTold
        <5>2. w.rows = Rn!WholeResult(c) /\ (w.truncated <=> rnCall[c].asked.total > w.rows)
          BY <3>3, <5>1 DEF WholeOut
        <5> QED BY <4>3, <5>1, <5>2 DEF Rn!AsTold
      <4> QED BY <4>1, <4>2, <4>3 DEF Word
    <3>5. rnTold[c][1] = w /\ Len(rnTold[c]) = 1
      BY <3>1
    <3> QED BY <2>2, <3>1, <3>4, <3>5
  <2> QED BY <2>1, <2>2
<1> QED BY <1>1, <1>2 DEF Rn!RunTold, Rn!At

\* One store, one run, one last word that the store agrees with, for every number of calls and
\* rows and every LIMIT: the rows are the first rows of the one run that was let in, a `done` that
\* was not cut short counts the whole result up to the cap, and a stopped run says so on both sides
\* (host.rs run_with_store, commands.rs pump_result, stop_session).
THEOREM RunsAreTold == ResultsSpec => []RunTold
<1>1. ResultsInit => RunInv
  BY RunInit DEF ResultsInit
<1>2. RunInv /\ [ViewStep \/ RunStep]_<<part, vars, rnVars>> => RunInv'
  <2>1. ASSUME RunInv, UNCHANGED rnVars PROVE RunInv'
    <3> USE <2>1 DEF rnVars
    <3>1. RunTypes' /\ RunRows'
      BY DEF RunInv, RunTypes, RunRows
    <3>2. \A c \in Calls : /\ Inside(c) => Inside(c)'
                           /\ Outside(c) => Outside(c)'
      BY DEF Inside, Outside, StoreBeside, LastWord, StoreAsTold, Rn!Error
    <3> QED BY <3>1, <3>2 DEF RunInv
  <2>2. [ViewStep \/ RunStep]_<<part, vars, rnVars>> => UNCHANGED rnVars \/ Rn!Next
    BY DEF ViewStep, RunStep
  <2> QED BY <2>1, <2>2, RunNext
<1> QED BY <1>1, <1>2, RunIsTold, PTL DEF ResultsSpec
==============================================================================
