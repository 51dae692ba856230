------------------------------- MODULE Export -------------------------------
(***************************************************************************)
(* Exports of one name and format into one directory (crates/qh-export,    *)
(* plan.rs Exporter and zip.rs bundle, driven by export and pump of        *)
(* qh-ffi/commands.rs).  Every part is written under a staging name and    *)
(* renamed at the end; other exports, a person and a crash act between any *)
(* two steps of an export.                                                 *)
(***************************************************************************)
EXTENDS Naturals, Sequences, SequencesExt

CONSTANTS
    Exports,   \* runs of the export command, in any process
    MaxRows,   \* bound on the rows of a query
    Limits,    \* rows per part an export may be asked for; 0 is "do not split"
    Together   \* which of "streamed", "xls" and "zip" may run beside another export of the name

VARIABLES
    job,   \* what every export of this behaviour is asked for
    fs,    \* the directory
    ex     \* the exports

vars == <<job, fs, ex>>

\* A directory entry: the name of the export, a numbered part or the archive, and whether it is the
\* file itself, its plain staging name, or the staging name with the process id and the counter.
Plain == 0
ZipName == MaxRows + 2
Names == 0 .. ZipName
Final(n) == [name |-> n, kind |-> "final"]
Staging(n) == [name |-> n, kind |-> "plain"]
Unique(n, e) == [name |-> n, kind |-> e]
Paths == [name : Names, kind : {"final", "plain"} \cup Exports]

\* A file: whose rows it has, the row it starts after, how many, and whether it is complete.
File(by, from, rows, whole) == [by |-> by, from |-> from, rows |-> rows, whole |-> whole]
NoFile == File("nobody", 0, 0, FALSE)
UserFile == File("user", 0, 0, TRUE)

Fresh == [pc |-> "off", part |-> 0, inPart |-> 0, rows |-> 0, files |-> <<>>, staging |-> <<>>,
          next |-> Final(Plain), placed |-> <<>>, raced |-> FALSE,
          refused |-> FALSE, over |-> FALSE, torn |-> FALSE]

Started(x) == x.pc \notin {"off", "done", "error", "killed"}

Init ==
    /\ job \in [format : {"streamed", "xls"}, limit : Limits, zip : BOOLEAN]
    /\ \E there \in {{}, {Plain}, {1}, {2}} :
         fs = [p \in Paths |-> IF p \in {Final(n) : n \in there} THEN UserFile ELSE NoFile]
    /\ ex = [e \in Exports |-> Fresh]

IsFree(p) == fs[p] = NoFile

\* staging_path: the plain name while it is free, else one nobody else uses.
StagingPath(n, e) == IF IsFree(Staging(n)) THEN Staging(n) ELSE Unique(n, e)

\* part_path; the first part becomes part 1 when a second one is opened.
PartName(index) == IF index = 0 THEN Plain ELSE index + 1

Without(S) == [p \in Paths |-> IF p \in S THEN NoFile ELSE fs[p]]

\* An error anywhere, or the export's future dropped: abort deletes what has been staged.
Fail(e) ==
    /\ fs' = Without(ToSet(ex[e].staging))
    /\ ex' = [ex EXCEPT ![e].pc = "error", ![e].staging = <<>>]

-----------------------------------------------------------------------------
(* Exporter::new, open_part.                                               *)

Begin(e) ==
    /\ ex[e].pc = "off"
    /\ \/ \A f \in Exports : ~Started(ex[f])
       \/ job.format \in Together /\ (job.zip => "zip" \in Together)
    /\ ex' = [ex EXCEPT ![e].pc = "name"]
    /\ UNCHANGED <<job, fs>>

\* open_part looks for the part's name and picks the staging name...
NamePart(e) ==
    LET x == ex[e]
        n == PartName(x.part) IN
    /\ x.pc = "name"
    /\ IF x.part > 0 /\ ~IsFree(Final(n))
       THEN Fail(e)
       ELSE /\ ex' = [ex EXCEPT ![e].pc = "open", ![e].next = StagingPath(n, e)]
            /\ UNCHANGED fs
    /\ UNCHANGED job

Opened(x) == [x EXCEPT !.pc = "rows", !.files = Append(x.files, Final(PartName(x.part))),
                       !.staging = Append(x.staging, x.next), !.inPart = 0]

\* Mutant: the writers create their file with File::create, which truncates.
OpenTruncates(e) ==
    LET x == ex[e] IN
    /\ x.pc = "open"
    /\ fs' = [fs EXCEPT ![x.next] = File(e, x.rows, 0, FALSE)]
    /\ ex' = [ex EXCEPT ![e] = Opened(x)]
    /\ UNCHANGED job

\* ...and the writer creates the file, refusing one that is there (create_new).  The xls writer
\* creates nothing before its finish.
OpenPart(e) ==
    LET x == ex[e] IN
    /\ x.pc = "open"
    /\ IF job.format = "xls"
       THEN ex' = [ex EXCEPT ![e] = Opened(x)] /\ UNCHANGED fs
       ELSE IF IsFree(x.next)
            THEN /\ fs' = [fs EXCEPT ![x.next] = File(e, x.rows, 0, FALSE)]
                 /\ ex' = [ex EXCEPT ![e] = Opened(x)]
            ELSE Fail(e)
    /\ UNCHANGED job

\* The file is created and its header cannot be written: the path is not in the list of staged files
\* yet, and nobody deletes it.
HeaderFails(e) ==
    LET x == ex[e] IN
    /\ x.pc = "open" /\ job.format = "streamed" /\ IsFree(x.next)
    /\ fs' = [Without(ToSet(x.staging)) EXCEPT ![x.next] = File(e, x.rows, 0, FALSE)]
    /\ ex' = [ex EXCEPT ![e].pc = "error", ![e].staging = <<>>, ![e].torn = TRUE]
    /\ UNCHANGED job

-----------------------------------------------------------------------------
(* pump, write_row, roll_over.                                             *)

Full(x) == job.limit > 0 /\ x.inPart >= job.limit

\* A row that fits.
WriteRow(e) ==
    LET x == ex[e] IN
    /\ x.pc = "rows" /\ x.rows < MaxRows /\ ~Full(x)
    /\ ex' = [ex EXCEPT ![e].inPart = x.inPart + 1, ![e].rows = x.rows + 1]
    /\ UNCHANGED <<job, fs>>

\* close_part: the writer's trailer.  A streamed file is written through its handle, which reaches
\* the directory only while the entry is still this export's; the xls file is created here.
CanClose(x) == job.format = "xls" => IsFree(Last(x.staging))
ClosedFs(x, e) ==
    LET s == Last(x.staging) IN
    IF job.format = "xls" \/ fs[s].by = e
    THEN [fs EXCEPT ![s] = File(e, x.rows - x.inPart, x.inPart, TRUE)]
    ELSE fs

\* Mutant: the next part is opened before the full one has its trailer.
RollsUnclosed(e) ==
    LET x == ex[e] IN
    /\ x.pc = "rows" /\ x.rows < MaxRows /\ Full(x)
    /\ ex' = [ex EXCEPT ![e].pc = "name", ![e].part = x.part + 1,
                        ![e].files[1] = IF x.part = 0 THEN Final(1) ELSE @]
    /\ UNCHANGED <<job, fs>>

\* A row for a full part: the first part is renamed in the list, the part is closed, and the next
\* one is opened; the row itself is written by the steps above.
RollOver(e) ==
    LET x == ex[e] IN
    /\ x.pc = "rows" /\ x.rows < MaxRows /\ Full(x)
    /\ IF (x.part = 0 /\ ~IsFree(Final(1))) \/ ~CanClose(x)
       THEN Fail(e)
       ELSE /\ fs' = ClosedFs(x, e)
            /\ ex' = [ex EXCEPT ![e].pc = "name", ![e].part = x.part + 1,
                                ![e].files[1] = IF x.part = 0 THEN Final(1) ELSE x.files[1]]
    /\ UNCHANGED job

\* The query fails, a row, a header or a trailer is refused or cannot be written, or the command is
\* dropped at an await.
RowsFail(e) ==
    /\ ex[e].pc \in {"rows", "open"}
    /\ Fail(e)
    /\ UNCHANGED job

\* The process is killed: nothing of it runs any more, and its staged files stay.
Killed(e) ==
    /\ Started(ex[e])
    /\ ex' = [ex EXCEPT ![e].pc = "killed"]
    /\ UNCHANGED <<job, fs>>

-----------------------------------------------------------------------------
(* finish, commit, place; bundle.                                          *)

\* The query has no more rows, or the Stop was seen, which is asked before each row: close_part.
Finish(e) ==
    LET x == ex[e] IN
    /\ x.pc = "rows"
    /\ IF CanClose(x)
       THEN fs' = ClosedFs(x, e) /\ ex' = [ex EXCEPT ![e].pc = "check"]
       ELSE Fail(e)
    /\ UNCHANGED job

\* commit: a split export looks once more whether every name is free.
Check(e) ==
    LET x == ex[e] IN
    /\ x.pc = "check"
    /\ IF Len(x.files) > 1 /\ \E f \in ToSet(x.files) : ~IsFree(f)
       THEN Fail(e)
       ELSE ex' = [ex EXCEPT ![e].pc = "place"] /\ UNCHANGED fs
    /\ UNCHANGED job

\* Those in the middle of their renames when an entry appears.
Raced(x, e) == [f \in Exports |-> IF f # e /\ x[f].pc = "place"
                                  THEN [x[f] EXCEPT !.raced = TRUE] ELSE x[f]]

\* place: one staged part is renamed to its name; at a rename that fails the rest is deleted and the
\* parts in place stay.
Place(e) ==
    LET x == ex[e]
        s == Head(x.staging)
        f == x.files[Len(x.placed) + 1] IN
    /\ x.pc = "place"
    /\ \/ /\ ~IsFree(s)
          /\ fs' = [fs EXCEPT ![f] = fs[s], ![s] = NoFile]
          /\ ex' = Raced([ex EXCEPT
                 ![e].staging = Tail(x.staging),
                 ![e].placed = Append(x.placed, fs[s]),
                 ![e].over = x.over \/ (f.name # Plain /\ ~IsFree(f) /\ ~x.raced),
                 ![e].pc = IF Len(x.staging) > 1 THEN "place"
                           ELSE IF job.zip THEN "zip" ELSE "done"], e)
       \/ /\ fs' = Without(ToSet(x.staging))
          /\ ex' = [ex EXCEPT ![e].pc = "error", ![e].staging = <<>>, ![e].refused = TRUE]
    /\ UNCHANGED job

\* bundle: the staging name of the archive...
NameZip(e) ==
    /\ ex[e].pc = "zip"
    /\ ex' = [ex EXCEPT ![e].pc = "zipping", ![e].next = StagingPath(ZipName, e)]
    /\ UNCHANGED <<job, fs>>

\* ...its file, created empty; a failure deletes the staging name, whoever created it.
CreateZip(e) ==
    LET x == ex[e] IN
    /\ x.pc = "zipping"
    /\ IF IsFree(x.next)
       THEN /\ fs' = [fs EXCEPT ![x.next] = File(e, 0, 0, FALSE)]
            /\ ex' = [ex EXCEPT ![e].pc = "adding", ![e].staging = <<x.next>>]
       ELSE fs' = Without({x.next}) /\ ex' = [ex EXCEPT ![e].pc = "error", ![e].refused = TRUE]
    /\ UNCHANGED job

\* Whose rows are under the names an archive is made from.
Source(x) == IF \E g \in Exports : \A f \in ToSet(x.files) : fs[f].by = g
             THEN fs[x.files[1]].by ELSE "several"

\* Every part is read from its name, and the archive is completed and put in place.
AddFiles(e) ==
    LET x == ex[e] IN
    /\ x.pc = "adding"
    /\ \/ /\ \A f \in ToSet(x.files) : ~IsFree(f)
          /\ ~IsFree(x.next)
          /\ fs' = [fs EXCEPT ![Final(ZipName)] = File(Source(x), 0, x.rows, TRUE),
                              ![x.next] = NoFile]
          /\ ex' = [ex EXCEPT ![e].pc = "done", ![e].staging = <<>>,
                              ![e].placed = Append(x.placed, fs'[Final(ZipName)])]
       \/ /\ fs' = Without({x.next})
          /\ ex' = [ex EXCEPT ![e].pc = "error", ![e].staging = <<>>, ![e].refused = TRUE]
    /\ UNCHANGED job

\* A person puts a file at one of the names.
UserWrites ==
    /\ \E n \in {Plain, 1, 2} :
         IsFree(Final(n)) /\ fs' = [fs EXCEPT ![Final(n)] = UserFile]
    /\ ex' = [f \in Exports |-> IF ex[f].pc = "place" THEN [ex[f] EXCEPT !.raced = TRUE] ELSE ex[f]]
    /\ UNCHANGED job

Next ==
    \/ \E e \in Exports :
         \/ Begin(e) \/ NamePart(e) \/ OpenPart(e) \/ HeaderFails(e) \/ WriteRow(e) \/ RollOver(e)
         \/ RowsFail(e) \/ Killed(e) \/ Finish(e) \/ Check(e) \/ Place(e)
         \/ NameZip(e) \/ CreateZip(e) \/ AddFiles(e)
    \/ UserWrites

Spec == Init /\ [][Next]_vars

-----------------------------------------------------------------------------
(* Properties.                                                             *)

\* The parts of x, as they went to their names: complete, this export's own, one after the other,
\* none longer than asked for, no row missing.
Whole(x, e) ==
    LET parts == SubSeq(x.placed, 1, Len(x.files)) IN
    /\ Len(x.placed) = Len(x.files) + (IF job.zip THEN 1 ELSE 0)
    /\ \A i \in DOMAIN x.placed : x.placed[i].by = e /\ x.placed[i].whole
    /\ \A i \in DOMAIN parts :
         /\ parts[i].from = (IF i = 1 THEN 0 ELSE parts[i-1].from + parts[i-1].rows)
         /\ job.limit = 0 \/ parts[i].rows <= job.limit
    /\ Last(parts).from + Last(parts).rows = x.rows

\* An export that reports done has put every row it counted into complete files under the names it
\* reports; one that reports an error has put nothing there unless a rename or the archive failed
\* after the checks; no file a person had is replaced by a part, unless somebody put it there between
\* the export's last look and its rename (plan.rs:151, where a rename replaces what it finds); and
\* nothing staged is left by an export that was neither killed nor stopped by its own header
\* (plan.rs, "a file is either complete or not there").
ExportTrue ==
    /\ \A n \in Names : fs[Final(n)] # NoFile => fs[Final(n)].whole
    /\ \A e \in Exports :
         /\ ex[e].pc = "done" => Whole(ex[e], e)
         /\ ex[e].pc = "error" /\ ~ex[e].refused => ex[e].placed = <<>>
         /\ ~ex[e].over
         /\ ex[e].pc \in {"done", "error"} /\ ~ex[e].torn
            => \A p \in Paths : p.kind # "final" => fs[p].by # e

\* A staged file is changed or deleted only by the export that created it: one that fails deletes
\* its own (plan.rs abort, zip.rs bundle; lib.rs:357 "a path that exists is another export's file").
StagedOwn ==
    [][\A p \in Paths : p.kind # "final" /\ fs[p] # NoFile /\ fs'[p] # fs[p]
                        => ex'[fs[p].by] # ex[fs[p].by]]_vars
=============================================================================
