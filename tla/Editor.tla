------------------------------- MODULE Editor -------------------------------
(***************************************************************************)
(* One document of the SQL editor: the text the main thread types into,    *)
(* behind one lock, and its analysis, behind another, which replays the    *)
(* log of what was done to the text (qh-editor, qh-ffi/src/editor.rs).     *)
(* The screen keeps its colours between paints; a paint says which part of *)
(* a window to colour again and how, and the application reports what it   *)
(* applied.                                                                *)
(*                                                                         *)
(* A text is a sequence of UTF-16 units.  "k" is a letter: two of them     *)
(* make a keyword, any other word is a name and has no colour.  "q" opens  *)
(* and closes a region (a string, a comment), in which ";" separates       *)
(* nothing.  "H" and "L" are the two halves of one letter beyond the basic *)
(* plane.  A set of ranges is the set of the units in them, numbered from  *)
(* 1; an offset is the number of units before it.                          *)
(***************************************************************************)
EXTENDS Integers, Sequences, FiniteSets, FiniteSetsExt, SequencesExt

CONSTANTS
    Docs,       \* documents: a text, and stand-ins for the limits of a statement and of a text
    Typed,      \* what one edit inserts
    MaxCut,     \* units of the longest stretch one edit replaces
    MaxLog,     \* entries the log may hold
    Asks,       \* what a paint may be asked for: <<start of the window, its length, the budget>>
    TreeBudget  \* TREE_CACHE_BYTES: units the trees held may cover

VARIABLES
    limits,     \* a statement longer than giant is not parsed, a text longer than ceiling not
                \* coloured; len bounds the text and edits the edits made of it
    text,       \* TextBuffer, under the text lock: the text, its revision, the log
    revision,
    log,
    mirror,     \* Analyzer, under the analysis lock: the text as far as the log was replayed
    seen,       \*   its revision
    stmts,      \*   the statements and what is cached about each
    dirty,      \*   the units the application still has to paint
    inactive,   \*   the text was over the ceiling
    treeBytes,  \*   units the trees held cover
    screen,     \* the application: the colour each unit of the text has
    packet,     \*   the paint on its way to the main thread
    told,       \*   the last paint applied said nothing was left, and nothing happened since
    passed,     \*   the units a paint was to colour and left as they were, looking right already
    overtaken   \*   the units drawn as they were before a convergence changed them

textVars == <<text, revision, log>>
analysis == <<mirror, seen, stmts, dirty, inactive, treeBytes>>
ui == <<screen, packet, told, passed, overtaken>>
vars == <<limits, text, revision, log, mirror, seen, stmts, dirty, inactive, treeBytes,
          screen, packet, told, passed, overtaken>>

None == "none"

\* Op of a value that is worked out once.
With(x, Op(_)) == CHOOSE y \in {Op(v) : v \in {x}} : TRUE

\* --- Reading a text -------------------------------------------------------------------------

Units(from, to) == from + 1 .. to

\* The regions opened or closed before unit i, read from offset `from`.
Quotes(t, from, i) == Cardinality({j \in Units(from, i - 1) : t[j] = "q"})

InCode(t, from, i) == Quotes(t, from, i) % 2 = 0 /\ t[i] # "q"

\* walk: the separators of [from, to), as offsets; a walk begins in code.
Separators(t, from, to) == {i - 1 : i \in {j \in Units(from, to) : t[j] = ";" /\ InCode(t, from, j)}}

\* classify: the colour of each unit of the statement [from, to).  A tree that came from edits and
\* holds an error may read a word differently from a fresh one.
Classify(t, from, to, reading) ==
    LET code == {i \in Units(from, to) : InCode(t, from, i)}
        letters == {i \in code : t[i] \in {"k", "H", "L"}}
        keyword(i) == /\ t[i] = "k" /\ t[i + 1] = "k" /\ {i, i + 1} \subseteq letters
                      /\ i - 1 \notin letters /\ i + 2 \notin letters
        heads == {i \in letters : i + 1 \in letters /\ keyword(i)}
    IN  [n \in 1 .. to - from |->
            IF from + n \notin code THEN "string"
            ELSE IF from + n \notin letters THEN "punctuation"
            ELSE IF from + n \notin heads \cup {i + 1 : i \in heads} THEN None
            ELSE IF reading = "edited" THEN "function" ELSE "keyword"]

\* The tokens of a colouring: the longest stretches of one colour, as <<first, last, colour>>.
TokensIn(colours) ==
    {<<n, Min({m \in n .. Len(colours) : m = Len(colours) \/ colours[m + 1] # colours[n]}), colours[n]>> :
        n \in {m \in DOMAIN colours : colours[m] # None /\ (m > 1 => colours[m - 1] # colours[m])}}

\* diff: from the first token that is in one list only to the last.
Diff(old, new) ==
    LET apart == (TokensIn(old) \ TokensIn(new)) \cup (TokensIn(new) \ TokensIn(old))
    IN  IF apart = {} THEN {} ELSE Min({tok[1] : tok \in apart}) .. Max({tok[2] : tok \in apart})

\* --- Offsets and edits ----------------------------------------------------------------------

\* byte_of refuses an offset between the halves of a letter.
Boundary(t, at) == at \in 0 .. Len(t) /\ ~ (at \in 1 .. Len(t) - 1 /\ t[at] = "H")

\* byte_floor, byte_ceil: the units of the letters these units belong to.
Whole(t, units) ==
    units \cup {i + 1 : i \in {j \in units : t[j] = "H"}} \cup {i - 1 : i \in {j \in units : t[j] = "L"}}

Spliced(seq, start, len, new) ==
    SubSeq(seq, 1, start) \o new \o SubSeq(seq, start + len + 1, Len(seq))

\* RangeSet::edit.
Moved(units, start, len, newLen) ==
    {i \in units : i <= start} \cup {i - len + newLen : i \in {j \in units : j > start + len}}

\* --- Statements -----------------------------------------------------------------------------

NewStmt(start) ==
    [start |-> start, tree |-> None, stale |-> FALSE, cost |-> 0, tokens |-> <<>>, cached |-> FALSE,
     valid |-> FALSE, outline |-> {}, big |-> FALSE]

Sorted(S) == [n \in 1 .. Cardinality(S) |-> CHOOSE x \in S : Cardinality({y \in S : y < x}) = n - 1]

Starts(from, separators) == {from} \cup {at + 1 : at \in separators}

\* The statements that begin at `from` and past each of these separators.
Fresh(from, separators) ==
    LET starts == Sorted(Starts(from, separators)) IN [n \in DOMAIN starts |-> NewStmt(starts[n])]

Statements(t) == Fresh(0, Separators(t, 0, Len(t)))

EndOf(list, i, len) == IF i < Len(list) THEN list[i + 1].start ELSE len

SizeOf(list, i, len) == EndOf(list, i, len) - list[i].start

IsGiant(list, i, len) == SizeOf(list, i, len) > limits.giant

IndexOf(list, at) == Max({i \in DOMAIN list : list[i].start <= at})

\* The walk begins again at the statement that holds the edit.  It stops at the first old separator
\* beyond the edit if that is a separator still, and the statements from there on stand; else it
\* runs to the end.  One statement that becomes one keeps its caches.
ApplyEdit(list, t, start, len, newLen) ==
    LET delta == newLen - len
        first == IndexOf(list, start)
        from  == list[first].start
        near  == Min({i \in first .. Len(list) : i = Len(list) \/ list[i + 1].start - 1 >= start + len})
        target == IF near < Len(list) THEN list[near + 1].start + delta ELSE Len(t)
        converged == near < Len(list) /\ target - 1 \in Separators(t, from, target)
        last  == IF converged THEN near ELSE Len(list)
        found == Separators(t, from, IF converged THEN target ELSE Len(t))
        count == Cardinality(found) + (IF converged THEN 0 ELSE 1)
        reused == last = first /\ count = 1
        fresh == IF reused THEN <<list[first]>> ELSE SubSeq(Fresh(from, found), 1, count)
        rest  == [i \in 1 .. Len(list) - last |-> [list[last + i] EXCEPT !.start = @ + delta]]
    IN  [list   |-> SubSeq(list, 1, first - 1) \o fresh \o rest,
         first  |-> first, count |-> count, reused |-> reused,
         dropped |-> IF reused THEN 0 ELSE MapThenSumSet(LAMBDA i : list[i].cost, first .. last)]

\* --- The analysis follows the log -------------------------------------------------------------

Here == [mirror |-> mirror, seen |-> seen, stmts |-> stmts, dirty |-> dirty, inactive |-> inactive,
         treeBytes |-> treeBytes]

Become(a) ==
    /\ mirror' = a.mirror /\ seen' = a.seen /\ stmts' = a.stmts
    /\ dirty' = a.dirty /\ inactive' = a.inactive /\ treeBytes' = a.treeBytes

\* A slip: a deletion marks nothing.
NewTextOnly(t, start, newLen) == Units(start, start + newLen)

\* What an edit itself makes dirty: the new text, or a letter beside a deletion, so that a paint
\* comes to the statement it cut.
EditMark(t, start, newLen) ==
    IF newLen > 0 THEN Units(start, start + newLen)
    ELSE Whole(t, IF start < Len(t) THEN {start + 1} ELSE IF start > 0 THEN {start} ELSE {})

\* map_tokens: what an edit replaced has no colour, and what follows it shifts.
MapTokens(colours, start, len, newLen) ==
    Spliced(colours, start, len, [n \in 1 .. newLen |-> None])

\* The statement an edit left in place: its tree waits for a new parse and its colours are those on
\* the screen.  One too big to parse keeps neither, and is dirty from the edit to its end.
Disturbed(s, was, giant, start, len, newLen) ==
    [s EXCEPT !.tree = IF giant THEN None ELSE @, !.cost = IF giant THEN 0 ELSE @,
              !.stale = ~ giant /\ s.tree # None,
              !.outline = {}, !.valid = FALSE, !.cached = @ /\ ~ giant,
              !.tokens = IF giant \/ ~ s.cached THEN <<>>
                         ELSE MapTokens(@, start - s.start, len, newLen),
              !.big = @ \/ was \/ giant]

\* The analysis after an edit: `now` is the text, `change` what became of the statements.
Settled(a, e, now, change) ==
    LET newLen == Len(e.new)
        i      == change.first
        giant  == IsGiant(change.list, i, Len(now))
        marked == Moved(a.dirty, e.start, e.len, newLen) \cup EditMark(now, e.start, newLen)
        end    == EndOf(change.list, i + change.count - 1, Len(now))
        stmt   == Disturbed(change.list[i], IsGiant(a.stmts, i, Len(a.mirror)), giant, e.start, e.len, newLen)
    IN  [a EXCEPT !.mirror = now, !.seen = e.revision,
                  !.stmts = IF change.reused THEN [change.list EXCEPT ![i] = stmt] ELSE change.list,
                  !.treeBytes = @ - change.dropped
                                  - (IF change.reused THEN change.list[i].cost - stmt.cost ELSE 0),
                  !.dirty = marked \cup
                      (IF ~ change.reused THEN Units(change.list[i].start, end)
                       ELSE IF giant THEN Units(e.start, end) ELSE {})]

\* Analyzer::apply.
Apply(a, e) ==
    With(Spliced(a.mirror, e.start, e.len, e.new), LAMBDA now :
        With(ApplyEdit(a.stmts, now, e.start, e.len, Len(e.new)), LAMBDA change :
            Settled(a, e, now, change)))

\* Analyzer::sync: a report counts only for the revision the analysis is at.
Replay(a, e) ==
    CASE e.kind = "edit" -> Apply(a, e)
      [] e.kind = "touch" -> [a EXCEPT !.dirty = @ \cup (e.units \cap DOMAIN a.mirror)]
      [] e.kind = "applied" -> IF e.revision = a.seen THEN [a EXCEPT !.dirty = @ \ e.units] ELSE a

Synced == FoldLeft(LAMBDA a, e : Replay(a, e), Here, log)

\* --- Trees and tokens -------------------------------------------------------------------------

TextOf(a, i) == SubSeq(a.mirror, a.stmts[i].start + 1, EndOf(a.stmts, i, Len(a.mirror)))

ColoursOf(a, i, reading) == Classify(a.mirror, a.stmts[i].start, EndOf(a.stmts, i, Len(a.mirror)), reading)

\* Syntax::ensure: parse, from the edited tree if there is one.  `odd` are the statements whose
\* tree, parsed from an edited one, is not the tree a fresh parse would give.
Ensured(a, i, odd) ==
    LET s    == a.stmts[i]
        size == SizeOf(a.stmts, i, Len(a.mirror))
        tree == IF s.tree # None /\ ~ s.stale THEN s.tree
                ELSE IF s.stale /\ i \in odd THEN "edited" ELSE "fresh"
        cost == IF s.tree # None /\ ~ s.stale THEN s.cost ELSE size
    IN  [a EXCEPT !.stmts[i] = [s EXCEPT !.tree = tree, !.stale = FALSE, !.cost = cost],
                  !.treeBytes = @ - s.cost + cost]

\* The tokens of statement i, with what they change of the colours noted as dirty.
Recoloured(a, i) ==
    LET s   == a.stmts[i]
        new == ColoursOf(a, i, s.tree)
    IN  [a EXCEPT !.stmts[i] = [s EXCEPT !.tokens = new, !.cached = TRUE, !.valid = TRUE],
                  !.dirty = @ \cup (IF s.cached THEN {s.start + n : n \in Diff(s.tokens, new)} ELSE {})]

\* Analyzer::retokenize.
Retokenize(a, i, odd) ==
    LET s == a.stmts[i]
    IN  IF IsGiant(a.stmts, i, Len(a.mirror))
        THEN [a EXCEPT !.stmts[i] = [s EXCEPT !.tree = None, !.cost = 0, !.tokens = <<>>,
                                              !.cached = FALSE, !.valid = FALSE],
                       !.treeBytes = @ - s.cost]
        ELSE IF s.valid /\ s.cached THEN a ELSE Recoloured(Ensured(a, i, odd), i)

\* Analyzer::converge: what an edited tree made of the statement is parsed again from scratch.
Converged(a) ==
    LET Fix(b, i) ==
            LET s == b.stmts[i]
                again == [b EXCEPT !.stmts[i] = [s EXCEPT !.tree = "fresh", !.outline = {},
                                                          !.cost = SizeOf(b.stmts, i, Len(b.mirror))],
                                   !.treeBytes = @ - s.cost + SizeOf(b.stmts, i, Len(b.mirror))]
            IN  IF s.tree # "edited" \/ s.stale THEN b
                ELSE IF s.valid THEN Recoloured(again, i) ELSE again
    IN  FoldSet(LAMBDA i, b : Fix(b, i), a, DOMAIN a.stmts)

\* Analyzer::follow_ceiling.
FollowCeiling(a) ==
    LET over == Len(a.mirror) > limits.ceiling
        bare(s) == [NewStmt(s.start) EXCEPT !.big = s.big]
    IN  IF over = a.inactive THEN a
        ELSE [a EXCEPT !.inactive = over, !.dirty = DOMAIN a.mirror,
                       !.treeBytes = IF over THEN 0 ELSE @,
                       !.stmts = IF over THEN [i \in DOMAIN a.stmts |-> bare(a.stmts[i])] ELSE @]

\* syntax::evict: trees go until the rest fits; which, the order of their last use decides.
Evictions(a) ==
    LET held == {i \in DOMAIN a.stmts : a.stmts[i].tree # None}
        cost(gone) == MapThenSumSet(LAMBDA i : a.stmts[i].cost, gone)
    IN  IF a.treeBytes <= TreeBudget THEN {{}}
        ELSE {gone \in SUBSET held : a.treeBytes - cost(gone) <= TreeBudget}

Evicted(a, gone) ==
    [a EXCEPT !.treeBytes = @ - MapThenSumSet(LAMBDA i : a.stmts[i].cost, gone),
              !.stmts = [i \in DOMAIN a.stmts |->
                  IF i \in gone THEN [a.stmts[i] EXCEPT !.tree = None, !.stale = FALSE, !.cost = 0]
                  ELSE a.stmts[i]]]

\* --- Paint ------------------------------------------------------------------------------------

Window(a, w) == {i \in DOMAIN a.mirror : i > w[1] /\ i <= w[1] + w[2]}

\* take: the first units of the window that are dirty, as many as the budget allows.
Take(a, w) ==
    LET there == a.dirty \cap Window(a, w)
    IN  {i \in there : Cardinality({j \in there : j < i}) < w[3]}

\* One round: the tokens of every statement the budgeted part touches.
Round(a, w, odd) ==
    FoldSet(LAMBDA i, b : Retokenize(b, i, odd), a,
            {IndexOf(a.stmts, u - 1) : u \in Whole(a.mirror, Take(a, w))})

\* That can make more of the window dirty, so the budget is taken again, up to four times.
Rounds(a, w, odd) == FoldSet(LAMBDA n, b : Round(b, w, odd), a, 1 .. 4)

\* tokens_of: a statement too big to parse is lexed up to the end of the window.
ShownOf(a, w, i) ==
    LET end   == EndOf(a.stmts, i, Len(a.mirror))
        limit == Max({0} \cup Whole(a.mirror, Window(a, w)))
    IN  IF ~ IsGiant(a.stmts, i, Len(a.mirror)) THEN a.stmts[i].tokens
        ELSE Classify(a.mirror, a.stmts[i].start, Min({Max({limit, a.stmts[i].start}), end}), "fresh")

\* What is dirty is coloured out to whole tokens.
Snapped(a, w, units) ==
    units \cup UNION {LET base == a.stmts[i].start
                          met  == {tok \in TokensIn(ShownOf(a, w, i)) :
                                      \E n \in tok[1] .. tok[2] : base + n \in units}
                      IN  UNION {{base + n : n \in tok[1] .. tok[2]} : tok \in met} : i \in DOMAIN a.stmts}

ColourAt(a, w, u) == LET i == IndexOf(a.stmts, u - 1) IN ShownOf(a, w, i)[u - a.stmts[i].start]

\* The packet, with the first units of its statements, which no run of a colour crosses, and with what
\* finish says: whether anything is left in the window or outside it.
Packet(a, w, units) ==
    [revision |-> a.seen, units |-> units,
     colours  |-> [u \in units |-> IF a.inactive THEN None ELSE ColourAt(a, w, u)],
     firsts   |-> {u \in units : \E i \in DOMAIN a.stmts : u = a.stmts[i].start + 1},
     wiped    |-> IF a.inactive THEN Window(a, w) ELSE {},
     done     |-> (a.dirty \cap Window(a, w)) \subseteq units /\ a.dirty \subseteq Window(a, w),
     changed  |-> {}]

NoPacket == [revision |-> 0]

\* --- Actions ----------------------------------------------------------------------------------

Init ==
    /\ \E d \in Docs : limits = [giant |-> d.giant, ceiling |-> d.ceiling, len |-> d.len, edits |-> d.edits] /\ text = d.text
    /\ revision = 1 /\ log = <<>>
    /\ mirror = text /\ seen = 1 /\ stmts = Statements(text)
    /\ dirty = DOMAIN text /\ inactive = (Len(text) > limits.ceiling) /\ treeBytes = 0
    /\ screen = [i \in DOMAIN text |-> None] /\ packet = NoPacket
    /\ told = FALSE /\ passed = {} /\ overtaken = {}

\* EditorDocument::replace, on the main thread.  The colours on screen move with the text, and new
\* text takes the colour before it until the paint comes (inheritNeighborColor).
Replace(start, len, new) ==
    /\ revision <= limits.edits /\ Len(log) < MaxLog
    /\ len + Len(new) > 0 /\ Len(text) - len + Len(new) <= limits.len
    /\ Boundary(text, start) /\ Boundary(text, start + len)
    /\ text' = Spliced(text, start, len, new)
    /\ revision' = revision + 1
    /\ log' = Append(log, [kind |-> "edit", revision |-> revision', start |-> start, len |-> len, new |-> new])
    /\ screen' = Spliced(screen, start, len,
                         [n \in 1 .. Len(new) |-> IF start > 0 THEN screen[start] ELSE None])
    /\ told' = FALSE
    /\ passed' = Moved(passed, start, len, Len(new))
    /\ overtaken' = Moved(overtaken, start, len, Len(new))
    /\ UNCHANGED <<analysis, packet>>

\* mark_dirty over the whole text: the layout changed.  Bound: once all is painted; where something
\* is dirty already it adds nothing new.
MarkDirty ==
    /\ log = <<>> /\ dirty = {} /\ text # <<>>
    /\ log' = Append(log, [kind |-> "touch", units |-> DOMAIN text])
    /\ UNCHANGED <<text, revision, analysis, ui>>

\* The statements whose edited tree may come out of its next parse unlike a fresh one.
MayBeOdd(a) == SUBSET {i \in DOMAIN a.stmts : a.stmts[i].stale}

\* paint, outline, references and bracket_pair refuse a revision the text has left: nothing drained.
Stale(asked) ==
    /\ asked < revision
    /\ UNCHANGED vars

\* EditorDocument::paint on the background thread.
Paint(asked, w) ==
    /\ asked >= revision /\ packet = NoPacket
    /\ log' = <<>>
    /\ \E a \in {FollowCeiling(Synced)} :
          IF a.inactive
          THEN Become(a) /\ packet' = Packet(a, w, Whole(a.mirror, Take(a, w)))
          ELSE \E odd \in MayBeOdd(a) : \E b \in {Rounds(a, w, odd)} :
                 /\ \E units \in {Snapped(b, w, Whole(b.mirror, Take(b, w)))} : packet' = Packet(b, w, units)
                 /\ \E gone \in Evictions(b) : \E c \in {Evicted(b, gone)} : Become(c)
    /\ UNCHANGED <<text, revision, screen, told, passed, overtaken>>

\* ensure_outline: the folds and issues of each statement that has none cached; a tree parsed for
\* this alone is dropped again while the cache is full.
Outlined(a, odd) ==
    LET Read(b, i) ==
            LET giant == IsGiant(b.stmts, i, Len(b.mirror))
                had   == b.stmts[i].tree # None
                c     == IF giant THEN b ELSE Ensured(b, i, odd)
                kept  == IF ~ giant /\ ~ had /\ c.treeBytes > TreeBudget THEN Evicted(c, {i}) ELSE c
            IN  IF b.stmts[i].outline # {} THEN b
                ELSE [kept EXCEPT !.stmts[i].outline = {TextOf(b, i)}]
    IN  FoldLeftDomain(LAMBDA b, i : Read(b, i), a, a.stmts)

\* EditorDocument::outline.
Outline(asked) ==
    /\ asked >= revision
    /\ log' = <<>>
    /\ \E a \in {FollowCeiling(Synced)} :
          IF a.inactive THEN Become(a)
          ELSE \E odd \in MayBeOdd(a) : \E b \in {Outlined(a, odd)} : Become(b)
    /\ UNCHANGED <<text, revision, ui>>

\* EditorDocument::bracket_pair replays the log and only reads.
BracketPair(asked) ==
    /\ asked = revision /\ log # <<>>
    /\ log' = <<>> /\ \E a \in {Synced} : Become(a)
    /\ UNCHANGED <<text, revision, ui>>

\* The units that have another colour in b than in a, where both have one cached.
Changed(a, b) ==
    UNION {{a.stmts[i].start + n : n \in {m \in DOMAIN a.stmts[i].tokens : a.stmts[i].tokens[m] # b.stmts[i].tokens[m]}} :
              i \in {j \in DOMAIN a.stmts : a.stmts[j].cached /\ a.stmts[j].valid}}

\* EditorDocument::converge, when typing pauses.
Converge ==
    /\ log' = <<>>
    /\ \E a \in {Synced} : \E b \in {Converged(a)} :
           /\ Become(b)
           /\ packet' = IF packet = NoPacket THEN packet
                        ELSE [packet EXCEPT !.done = @ /\ b = a,
                                             !.changed = @ \cup (packet.units \cap Changed(a, b))]
           /\ told' = (told /\ b = a)
    /\ UNCHANGED <<text, revision, screen, passed, overtaken>>

\* The range of the packet that u is in.
RangeOf(u) == {v \in packet.units : (IF u < v THEN u .. v ELSE v .. u) \subseteq packet.units}

\* rangeNeedsPaint: it looks at the first unit of every run and of every gap between runs.
NeedsPaint(range) ==
    \E v \in range : /\ \/ v - 1 \notin range \/ packet.colours[v - 1] # packet.colours[v]
                        \/ v \in packet.firsts
                     /\ screen[v] # packet.colours[v]

Drawn(u) ==
    IF u \in packet.units /\ NeedsPaint(RangeOf(u)) THEN packet.colours[u]
    ELSE IF u \in packet.wiped THEN None ELSE screen[u]

\* applyPaint: a packet of the revision on screen is drawn, and reported.
ApplyPaint ==
    /\ packet # NoPacket /\ packet.revision = revision /\ Len(log) < MaxLog
    /\ screen' = [u \in DOMAIN screen |-> Drawn(u)]
    /\ log' = Append(log, [kind |-> "applied", revision |-> packet.revision, units |-> packet.units])
    /\ told' = packet.done /\ packet' = NoPacket
    /\ passed' = (passed \ (packet.units \cup packet.wiped))
                 \cup {u \in packet.units \ packet.wiped : screen'[u] # packet.colours[u]}
    /\ overtaken' = (overtaken \ (packet.units \cup packet.wiped)) \cup packet.changed
    /\ UNCHANGED <<text, revision, analysis>>

\* A packet of another revision is dropped, and so is any while text is being composed.
DropPaint ==
    /\ packet # NoPacket /\ packet' = NoPacket
    /\ UNCHANGED <<textVars, analysis, screen, told, passed, overtaken>>

Next ==
    /\ UNCHANGED limits
    /\ \/ \E start \in 0 .. Len(text), len \in 0 .. MaxCut, new \in Typed : Replace(start, len, new)
       \/ MarkDirty
       \/ \E asked \in 1 .. revision :
              \/ Stale(asked)
              \/ \E w \in Asks : Paint(asked, w)
              \/ Outline(asked)
              \/ BracketPair(asked)
       \/ Converge
       \/ ApplyPaint
       \/ DropPaint

Spec == Init /\ [][Next]_vars

\* --- Properties -------------------------------------------------------------------------------

\* After each replay the list of statements is the one a fresh walk of the text gives
\* (statements.rs apply_edit: the walk that stops early agrees with the one that does not).
ListFresh ==
    /\ {stmts[i].start : i \in DOMAIN stmts} = Starts(0, Separators(mirror, 0, Len(mirror)))
    /\ \A i \in 1 .. Len(stmts) - 1 : stmts[i].start < stmts[i + 1].start

\* The cached folds and issues are of the statement's text as it is (paint.rs ensure_outline), and
\* the running sum of the trees' cost is that sum (paint.rs tree_bytes, unsigned: a slip underflows).
CachesTrue ==
    /\ \A i \in DOMAIN stmts : stmts[i].outline \subseteq {TextOf(Here, i)}
    /\ treeBytes = MapThenSumSet(LAMBDA i : stmts[i].cost, DOMAIN stmts)
    /\ \A i \in DOMAIN stmts : stmts[i].tree = None => stmts[i].cost = 0 /\ ~ stmts[i].stale

\* The colours the text has, unit by unit: those of each statement's tokens, which are a reading of
\* its text; none over the ceiling.
Right(a, i, n) ==
    IF a.inactive THEN {None}
    ELSE {c[n] : c \in {ColoursOf(a, i, r) : r \in {"fresh", "edited"}} \cap {a.stmts[i].tokens}}

\* Once a paint said that nothing is left and was applied, a unit has the colour the text gives it,
\* whatever was typed, painted, dropped, converged or evicted before (paint.rs:5-14), with two
\* exceptions: it lies inside a stretch of one colour that began right, and the application passed it
\* over (SQLEditor.swift rangeNeedsPaint); or it was drawn from a paint that a convergence overtook,
\* whose report then took the new colour off the dirty set (paint.rs:335).  A statement that has been
\* too big to parse is left out, see the README.
ScreenRight ==
    told => \A a \in {Synced} :
                \A i \in {j \in DOMAIN a.stmts : ~ a.stmts[j].big /\ ~ IsGiant(a.stmts, j, Len(a.mirror))} :
                   \A n \in 1 .. SizeOf(a.stmts, i, Len(a.mirror)) :
                      LET u == a.stmts[i].start + n IN
                      \/ screen[u] \in Right(a, i, n)
                      \/ u \in passed /\ n > 1 /\ Right(a, i, n - 1) = Right(a, i, n)
                      \/ u \in overtaken

\* What the editor shows of a document is the document's: statements, outline and colours.
EditorTrue == ListFresh /\ CachesTrue /\ ScreenRight
=============================================================================
