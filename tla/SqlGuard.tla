------------------------------ MODULE SqlGuard ------------------------------
(***************************************************************************)
(* Safe Mode's guard over a script (crates/qh-sql/src/scan.rs and          *)
(* classify.rs, crates/qh-ffi/src/commands.rs).  Where a string or a       *)
(* comment ends depends on settings of the server that the guard cannot    *)
(* see, so it reads the script with every lexer the server may be using.   *)
(* Here the script is written one lexeme after another, without end, and   *)
(* all those lexers walk over it side by side: `rd` holds where each one   *)
(* is, so a script is told from another only by what some lexer has made   *)
(* of it.  The server has one of the settings, and runs what that lexer    *)
(* takes for code.                                                         *)
(***************************************************************************)
EXTENDS Integers, FiniteSets, FiniteSetsExt

CONSTANTS
    MaxNest,     \* bound: block comments open inside each other
    MaxLexemes   \* bound: lexemes of the script

VARIABLES
    dialect,    \* the family of the connection
    rd,         \* each lexer's walk: its state and the statement it is in
    look,       \* the lexeme written last, not read yet
    verdict,    \* the strictest kind the guard has given an ended statement
    left,       \* lexemes that may still be written
    effect      \* the most an ended statement does, over all the server's settings

vars == <<dialect, rd, look, verdict, left, effect>>

Dialects == {"mysql", "postgres"}

-----------------------------------------------------------------------------
(* Lexers: which lexical rules one scan follows.                           *)

Mysql(backslash, ansi, code) ==
    [family |-> "mysql", backslash |-> backslash, ansi |-> ansi, code |-> code, vt |-> FALSE]
Postgres(backslash, vt) ==
    [family |-> "postgres", backslash |-> backslash, ansi |-> FALSE, code |-> FALSE, vt |-> vt]

\* Every lexer the server can be using, by its settings: sql_mode and whether it runs the bodies of
\* executable comments, all of them or none; standard_conforming_strings and the server's version.
Servers(d) ==
    IF d = "mysql" THEN {Mysql(b, a, c) : b, a, c \in BOOLEAN} ELSE {Postgres(b, v) : b, v \in BOOLEAN}

\* A plausible bug: PostgreSQL is read with standard_conforming_strings on, as it is by default.
ReadingsStandard(d) ==
    IF d = "mysql" THEN {Mysql(TRUE, a, c) : a, c \in BOOLEAN} \cup {Mysql(FALSE, FALSE, c) : c \in BOOLEAN}
    ELSE {Postgres(FALSE, v) : v \in BOOLEAN}

\* The list the guard reads a script with: without backslash escapes it does not matter what a
\* double quote is.
Readings(d) ==
    IF d = "mysql" THEN {Mysql(TRUE, a, c) : a, c \in BOOLEAN} \cup {Mysql(FALSE, FALSE, c) : c \in BOOLEAN}
    ELSE {Postgres(b, v) : b, v \in BOOLEAN}

DoubleBackslash(x) == x.backslash /\ ~x.ansi /\ x.family = "mysql"

\* What a script is made of: "e" is a letter, "$" an empty dollar tag, and the words stand for SELECT,
\* SHOW, and a word that writes: DELETE in every place, or DROP in every place.
Words == {"read", "show", "write", "e"}
Space == {"space", "newline"}
Lexemes(d) ==
    {"read", "show", "write", "space", "newline", "'", "bs", "--", "/*", "*/", ";"}
    \cup (IF d = "mysql" THEN {"dq", "/*!"} ELSE {"e", "$", "vt"})

\* The lexemes that go on an identifier: `$` does in both families.
IdentCont == Words \cup {"$"}

-----------------------------------------------------------------------------
(* walk                                                                    *)

Statement == [lead |-> "none", worst |-> 0, run |-> ""]
Start == [at |-> "normal", skip |-> FALSE, depth |-> 0, str |-> "", cont |-> "no", st |-> Statement]

WriteKind(w) == IF w = "write" THEN 1 ELSE 0

\* A `--` opens a comment; MySQL asks for a space after it.
DashOpens(x, n) == x.family = "mysql" => n \in Space \cup {"end"}

\* The statement once its first significant byte is no word.
Led(s) == [s EXCEPT !.lead = IF @ = "none" THEN "bad" ELSE @]

\* One more letter or word of a bare word, which ends when nothing after it continues it.  The
\* leading keyword is the whole identifier in PostgreSQL, and its letters alone elsewhere.
InWord(x, s, b, n) ==
    LET w == IF s.run = "" THEN b ELSE "name"
        over == n \notin IdentCont
        led == IF x.family = "postgres" THEN over ELSE n \notin Words
    IN  [lead |-> IF s.lead = "none" /\ led THEN w ELSE s.lead,
         worst |-> IF over THEN Max({s.worst, WriteKind(w)}) ELSE s.worst,
         run |-> IF over THEN "" ELSE w]

\* A newline after a closed string: in PostgreSQL a quote now goes on with that string, under its
\* rules; white space and line comments may stand between.
ToContinue(a) == [a EXCEPT !.cont = IF @ = "no" THEN @ ELSE "post"]

\* A byte of code.
Normal(x, a, b, n) ==
    LET s == a.st
        code == [a EXCEPT !.cont = "no", !.str = ""]
    IN  CASE b = "'" -> [code EXCEPT !.at = IF a.cont = "post" THEN a.str ELSE "single",
                                     !.st = Led(s)]
          [] b = "dq" -> [code EXCEPT !.at = "double", !.st = Led(s)]
          [] b = "--" /\ DashOpens(x, n) -> [a EXCEPT !.at = "line"]
          [] b = "/*!" /\ x.code -> code
          [] b = "/*" \/ (b = "/*!" /\ ~x.code) -> [code EXCEPT !.at = "block", !.depth = 1]
          [] b = "$" /\ s.run # "" -> [code EXCEPT !.st = InWord(x, s, b, n)]
          [] b = "$" /\ s.run = "" -> [code EXCEPT !.at = "dollar", !.st = Led(s)]
          [] b = "e" /\ s.run = "" /\ n = "'" /\ x.family = "postgres" ->
             [code EXCEPT !.at = "escape", !.skip = TRUE, !.st = InWord(x, s, b, n)]
          [] b \in Words /\ ~(b = "e" /\ s.run = "" /\ n = "'" /\ x.family = "postgres") ->
             [code EXCEPT !.st = InWord(x, s, b, n)]
          [] b = "space" -> a
          [] b = "newline" -> ToContinue(a)
          [] b = "vt" -> [(IF x.vt THEN a ELSE code) EXCEPT !.st = Led(s)]
          [] OTHER -> [code EXCEPT !.st = Led(s)]

\* A byte of a '…' string: doubled, it is content; alone, it ends the string.
InString(x, a, b, n, escapes) ==
    CASE escapes /\ b = "bs" -> [a EXCEPT !.skip = TRUE]
      [] b = "'" /\ n = "'" -> [a EXCEPT !.skip = TRUE]
      [] b = "'" /\ n # "'" ->
         [a EXCEPT !.at = "normal", !.str = IF x.family = "postgres" THEN a.at ELSE "",
                   !.cont = IF x.family = "postgres" THEN "pre" ELSE "no"]
      [] OTHER -> a

Walk(x, a, b, n) ==
    CASE a.skip -> [a EXCEPT !.skip = FALSE]
      [] ~a.skip ->
         CASE a.at = "normal" -> Normal(x, a, b, n)
           [] a.at = "single" -> InString(x, a, b, n, x.backslash)
           [] a.at = "escape" -> InString(x, a, b, n, TRUE)
           [] a.at = "double" ->
              CASE DoubleBackslash(x) /\ b = "bs" -> [a EXCEPT !.skip = TRUE]
                [] b = "dq" /\ n = "dq" -> [a EXCEPT !.skip = TRUE]
                [] b = "dq" /\ n # "dq" -> [a EXCEPT !.at = "normal"]
                [] OTHER -> a
           [] a.at = "line" ->
              IF b # "newline" THEN a
              ELSE [ToContinue(a) EXCEPT !.at = "normal"]
           [] a.at = "block" ->
              CASE b \in {"/*", "/*!"} /\ x.family = "postgres" -> [a EXCEPT !.depth = @ + 1]
                [] b = "*/" -> [a EXCEPT !.depth = @ - 1, !.at = IF a.depth = 1 THEN "normal" ELSE @]
                [] OTHER -> a
           [] a.at = "dollar" -> IF b = "$" THEN [a EXCEPT !.at = "normal"] ELSE a

\* A `;` outside every region ends the statement.
Cuts(a, b) == b = ";" /\ a.at = "normal" /\ ~a.skip

-----------------------------------------------------------------------------
(* The statements of a script and their kinds: 0 reads, 1 writes, 3 is not *)
(* known.  `As` tells a change of rows (1) from one of structure (2).      *)

Classify(s) ==
    CASE s.lead = "show" -> 0
      [] s.lead = "read" -> s.worst
      [] s.lead = "write" -> WriteKind(s.lead)
      [] OTHER -> 3

As(word, kind) == IF kind = 1 THEN word ELSE kind

\* What the server does with a statement.
Does(s) == IF s.lead = "show" THEN 0 ELSE s.worst

\* The readings agree on where a statement ends and on whether it is one.
Agree(X, w, cut) ==
    \/ \A x \in X : ~cut[x]
    \/ /\ \A x \in X : cut[x]
       /\ Cardinality({w[x].st.lead = "none" : x \in X}) = 1

\* decisions_readings for the statement that ends here: of the readings' kinds the strictest, and
\* not known when they do not agree.
KindOf(X, w, cut) ==
    CASE ~Agree(X, w, cut) -> 3
      [] Agree(X, w, cut) /\ \E x \in X : cut[x] /\ w[x].st.lead # "none" ->
         Max({Classify(w[x].st) : x \in X})
      [] OTHER -> 0

\* The script with `n` after what is written: every lexer reads the last lexeme, and a statement
\* ends where it is cut.
Read(n) ==
    LET S == Servers(dialect)
        cut == [x \in S |-> Cuts(rd[x], look)]
    IN  [rd |-> [x \in S |-> IF cut[x] THEN Start ELSE Walk(x, rd[x], look, n)],
         verdict |-> Max({verdict, KindOf(Readings(dialect), rd, cut)}),
         effect |-> Max({effect} \cup {Does(rd[x].st) : x \in {y \in S : cut[y]}})]

\* The script if it ends here: its last statement ends with it.
Ended ==
    LET r == Read("end")
    IN  [verdict |-> Max({r.verdict, KindOf(Readings(dialect), r.rd, [x \in DOMAIN rd |-> TRUE])}),
         effect |-> Max({r.effect} \cup {Does(r.rd[x].st) : x \in DOMAIN rd})]

-----------------------------------------------------------------------------
(* The modes and the floor a run is under.                                 *)

Modes == {"full", "no_ddl", "confirm", "read_only"}
Strictness == [full |-> 0, no_ddl |-> 1, confirm |-> 2, read_only |-> 3]

\* What a mode does about a kind, before any confirmation.
Decision(mode, kind) ==
    CASE mode = "full" \/ kind = 0 -> "allow"
      [] mode = "no_ddl" /\ kind = 1 -> "allow"
      [] mode = "confirm" /\ kind = 1 -> "confirm"
      [] OTHER -> "refuse"

\* guard_confirmed lets a script through whose strictest kind is `kind`.
Passes(mode, confirmed, kind) ==
    Decision(mode, kind) = "allow" \/ (Decision(mode, kind) = "confirm" /\ confirmed)

\* Every floor a run can have: the user's mode, the connection's and the driver's bit, the policy.
Floors == {{user} \cup bits \cup pinned :
             user \in Modes, bits \in {{}, {"read_only"}}, pinned \in {{}} \cup {{m} : m \in Modes}}

StrictestOf(F) == CHOOSE m \in F : \A o \in F : Strictness[o] <= Strictness[m]
SafeMode(F) == StrictestOf(F)

\* A table operation asks the floor's entries and not the mode they resolve to.
DestructiveMode(F) ==
    LET forbids == F \cap {"no_ddl", "read_only"}
    IN  CASE forbids # {} -> StrictestOf(forbids)
          [] forbids = {} /\ "confirm" \in F -> "confirm"
          [] OTHER -> "full"

\* guard_destructive lets a DROP or a TRUNCATE through.
PassesDestructive(F, confirmed) ==
    DestructiveMode(F) = "full" \/ (DestructiveMode(F) = "confirm" /\ confirmed)

-----------------------------------------------------------------------------
Init ==
    /\ dialect \in Dialects
    /\ rd = [x \in Servers(dialect) |-> Start]
    /\ look = "space"
    /\ left = MaxLexemes /\ verdict = 0 /\ effect = 0

\* A reading takes the statement for something it does not know: nothing written after it changes
\* that, and the guard refuses the script whatever follows.
Lost == \E x \in Readings(dialect) : rd[x].st.lead \in {"bad", "name", "e"}

Write(n) ==
    /\ left > 0 /\ verdict < 3 /\ ~Lost
    /\ n = "/*" => \A x \in DOMAIN rd : rd[x].depth < MaxNest
    /\ LET r == Read(n) IN rd' = r.rd /\ verdict' = r.verdict /\ effect' = r.effect
    /\ look' = n /\ left' = left - 1
    /\ UNCHANGED dialect

Next == \E n \in Lexemes(dialect) : Write(n)
Spec == Init /\ [][Next]_vars

\* What one entry of a floor promises of a run: no row changed below it without the confirmation it
\* asks for, and no structure.
Keeps(mode, confirmed, does) ==
    CASE mode = "full" -> TRUE
      [] mode = "no_ddl" -> does < 2
      [] mode = "confirm" -> does = 0 \/ (does = 1 /\ confirmed)
      [] mode = "read_only" -> does = 0

\* The promise, by the strictest kind the guard found and the most the server does.
Kept ==
    [kind \in 0..3, does \in 0..2 |->
       \A F \in Floors, confirmed \in BOOLEAN :
          Passes(SafeMode(F), confirmed, kind) => \A m \in F : Keeps(m, confirmed, does)]

StructureKept ==
    \A F \in Floors, confirmed \in BOOLEAN :
       PassesDestructive(F, confirmed)
       => F \subseteq {"full", "confirm"} /\ ("confirm" \in F => confirmed)

\* Whatever settings the server has, a script the guard lets through does nothing that the user's
\* mode, the connection, the driver or the policy forbids, and a script a repeated run accepts only
\* reads; a DROP or a TRUNCATE runs only if no entry of the floor forbids structure changes, and with
\* a confirmation if one asks for it (scan.rs MYSQL_READINGS, "Every lexer a MySQL server can be
\* using"; commands.rs destructive_mode, "A floor may therefore only ever be stricter").
GuardHolds ==
    LET e == Ended
    IN  /\ \A word \in {1, 2} : Kept[As(word, e.verdict), As(word, e.effect)]
        /\ e.verdict = 0 => e.effect = 0
        /\ StructureKept
=============================================================================
