----------------------------- MODULE SqlScript ------------------------------
(***************************************************************************)
(* Where each statement of a MySQL script ends (crates/qh-sql/src/         *)
(* script.rs).  The `;` inside the body of a stored program are content;   *)
(* the splitter finds the body from its header and follows its blocks      *)
(* word by word, with no grammar.  The script it reads is any script of    *)
(* the server's grammar, derived here symbol by symbol: `todo` is what is  *)
(* still to be written, and the two kinds of `;` are told apart in it and  *)
(* nowhere else.                                                           *)
(***************************************************************************)
EXTENDS Naturals, Sequences

CONSTANT MaxTodo    \* bound: symbols still to be written, and so the nesting

VARIABLES
    todo,    \* the grammar's symbols still to be written, first one first
    sp       \* the Splitter: the top-level statement, its header or its body

vars == <<todo, sp>>

Inner == "; of a body"
Outer == "; of the script"

Quoted == {"'text'", "[name]", "[label]:"}
Label == {"label:", "[label]:"}
Punctuation == {"(", ")", ",", "@", "9"}

\* The server's grammar (sql_yacc.yy: sp_proc_stmt and the headers above it).  "name" is any word
\* with no meaning of its own.
Produces == [
    Script |-> {<<"Top", Outer, "Script">>},
    Top |-> {<<"name", "Expr">>, <<"BEGIN">>, <<"BEGIN", "NOT", "ATOMIC", "Stmts", "END">>,
             <<"CREATE", "name", "name">>, <<"CREATE", "OR", "REPLACE", "Definer", "Program">>,
             <<"CREATE", "Definer", "Program">>, <<"ALTER", "Definer", "Event">>,
             <<"ALTER", "PROCEDURE", "name", "COMMENT", "'text'">>},
    Definer |-> {<<>>, <<"DEFINER", "name">>, <<"DEFINER", "'text'", "@", "'text'">>},
    Program |-> {<<"PROCEDURE", "name", "(", "Params", ")", "Traits", "Stmt">>,
                 <<"FUNCTION", "[name]", "(", "Params", ")", "RETURNS", "name", "Type", "Traits", "Stmt">>,
                 <<"TRIGGER", "name", "name", "FOR", "EACH", "ROW", "Order", "Stmt">>,
                 <<"Event">>},
    Event |-> {<<"EVENT", "name", "name", "9", "Traits", "DO", "Stmt">>},
    Params |-> {<<>>, <<"name", "name", "(", "9", ")">>},
    Traits |-> {<<>>, <<"NOT", "DETERMINISTIC">>, <<"COMMENT", "'text'">>},
    Type |-> {<<>>, <<"(", "9", ")">>, <<"UNSIGNED">>, <<"CHARSET", "name">>},
    Order |-> {<<>>, <<"FOLLOWS", "name">>},
    Stmt |-> {<<"name", "Expr">>, <<"Block">>, <<"label:", "Block">>, <<"[label]:", "Block">>},
    Stmts |-> {<<>>, <<"Stmt", Inner, "Stmts">>},
    Block |-> {<<"BEGIN", "Decls", "Stmts", "END">>, <<"BEGIN", "Stmts", "END", "name">>,
               <<"LOOP", "Stmt", Inner, "END", "LOOP">>,
               <<"REPEAT", "Stmt", Inner, "UNTIL", "Expr", "END", "REPEAT">>,
               <<"WHILE", "Expr", "DO", "Stmt", Inner, "END", "WHILE">>,
               <<"IF", "Expr", "THEN", "Stmt", Inner, "Elses", "END", "IF">>,
               <<"CASE", "Expr", "WHEN", "Expr", "THEN", "Stmt", Inner, "Elses", "END", "CASE">>},
    Elses |-> {<<>>, <<"ELSE", "Stmt", Inner>>, <<"ELSEIF", "Expr", "THEN", "Stmt", Inner>>},
    Decls |-> {<<>>, <<"DECLARE", "name", "name", "DEFAULT", "Expr", Inner>>,
               <<"DECLARE", "name", "CURSOR", "FOR", "name", Inner>>,
               <<"DECLARE", "CONTINUE", "HANDLER", "FOR", "Conds", "Stmt", Inner>>},
    Conds |-> {<<"Cond">>, <<"Cond", ",", "Cond">>},
    Cond |-> {<<"SQLEXCEPTION">>, <<"NOT", "FOUND">>, <<"SQLSTATE", "'text'">>,
              <<"SQLSTATE", "VALUE", "'text'">>, <<"9">>, <<"name">>},
    Expr |-> {<<"name">>, <<"'text'">>, <<"IF", "(", "Expr", ",", "name", ")">>,
              <<"CASE", "WHEN", "Expr", "THEN", "name", "ELSE", "name", "END">>}]

-----------------------------------------------------------------------------
(* The splitter.  `top` is Top; phase to each are Head's; depth to cases   *)
(* are Body's.  `opened` is opens # opens_at.                              *)

Fresh == [top |-> "start", parens |-> 0, at |-> FALSE, opened |-> FALSE,
          alter |-> FALSE, phase |-> "none", skip |-> FALSE, each |-> 0,
          depth |-> 0, first |-> FALSE, kind |-> "fresh", cases |-> 0]

Characteristics == {"COMMENT", "LANGUAGE", "SQL", "NOT", "DETERMINISTIC", "CONTAINS", "NO", "READS",
                    "MODIFIES", "DATA", "SECURITY", "DEFINER", "INVOKER"}
TypeTail == {"UNSIGNED", "SIGNED", "ZEROFILL", "PRECISION", "VARYING", "BINARY", "ASCII", "UNICODE",
             "NATIONAL", "CHARACTER", "CHAR"}

Restart(s) == [s EXCEPT !.first = TRUE, !.kind = "fresh", !.cases = 0]
Plain(s) == [s EXCEPT !.top = "plain"]
Enter(s, first, kind) ==
    [s EXCEPT !.top = "body", !.depth = 1, !.first = first, !.kind = kind, !.cases = 0]

\* The word that starts the body: a block, or a simple statement that ends at the next `;`.
OpenedBy(s, w) ==
    CASE w \in {"BEGIN", "LOOP", "REPEAT"} -> Enter(s, TRUE, "fresh")
      [] w \in {"IF", "CASE", "WHILE"} -> Enter(s, FALSE, w)
      [] OTHER -> Plain(s)

\* Splitter::gap and Body::gap: the bytes between two events.
Gap(s, p) ==
    IF s.top \notin {"head", "body"} THEN s
    ELSE [s EXCEPT !.parens = CASE p = "(" -> @ + 1
                                [] p = ")" /\ @ > 0 -> @ - 1
                                [] OTHER -> @,
                   !.opened = @ \/ p = "(",
                   !.at = @ \/ p = "@",
                   !.kind = CASE s.top = "body" /\ @ = "cond closed" /\ p = "," -> "cond open"
                              [] s.top = "body" /\ @ = "cond open" /\ p = "9" -> "cond closed"
                              [] OTHER -> @]

\* The phase an event of the header is read in: a parameter list that has closed, a definer with no
\* host and a word that is no part of the header fall through to the next phase.
PhaseFor(s, at, w) ==
    LET opened == CASE s.phase \in {"name", "params"} /\ s.parens > 0 -> "params"
                    [] s.phase \in {"name", "params"} /\ s.opened -> "after"
                    [] s.phase = "definer host" /\ ~at -> "intro"
                    [] OTHER -> s.phase
        word == w \notin Quoted
    IN  IF \/ opened = "after" /\ word /\ w \notin Characteristics \cup {"RETURNS"}
           \/ opened = "type tail" /\ word
              /\ w \notin TypeTail \cup Characteristics \cup {"SET", "CHARSET", "COLLATE"}
           \/ opened = "order" /\ w \notin {"FOLLOWS", "PRECEDES"}
        THEN "body first" ELSE opened

IntroWord(s, w) ==
    CASE w \in {"OR", "REPLACE", "AGGREGATE"} -> [s EXCEPT !.phase = "intro"]
      [] w = "DEFINER" -> [s EXCEPT !.phase = "definer user"]
      [] w \in {"PROCEDURE", "FUNCTION"} /\ ~s.alter -> [s EXCEPT !.phase = "name", !.opened = FALSE]
      [] w = "TRIGGER" /\ ~s.alter -> [s EXCEPT !.phase = "trigger"]
      [] w = "EVENT" -> [s EXCEPT !.phase = "event"]
      [] OTHER -> Plain(s)

\* Head::event.
HeadEvent(s, at, w) ==
    LET phase == PhaseFor(s, at, w)
        each == IF w = <<"FOR", "EACH", "ROW">>[s.each + 1] THEN s.each + 1 ELSE 0
    IN  CASE s.skip -> [s EXCEPT !.skip = FALSE]
          [] ~s.skip /\ s.parens > 0 -> [s EXCEPT !.phase = IF @ = "name" THEN "params" ELSE @]
          [] ~s.skip /\ s.parens = 0 ->
             CASE phase = "intro" -> IntroWord(s, w)
               [] phase = "definer user" -> [s EXCEPT !.phase = "definer host"]
               [] phase = "definer host" -> [s EXCEPT !.phase = "intro"]
               [] phase = "after" /\ w = "RETURNS" -> [s EXCEPT !.phase = "return type"]
               [] phase = "return type" -> [s EXCEPT !.phase = "type tail"]
               [] phase = "type tail" ->
                  [s EXCEPT !.skip = w \in {"SET", "CHARSET", "COLLATE"}]
               [] phase = "trigger" ->
                  [s EXCEPT !.each = each % 3, !.phase = IF each = 3 THEN "order" ELSE @]
               [] phase = "order" -> [s EXCEPT !.skip = TRUE]
               [] phase = "event" -> [s EXCEPT !.phase = IF w = "DO" THEN "body first" ELSE @]
               [] phase = "body first" ->
                  CASE w \in Label -> [s EXCEPT !.phase = phase]
                    [] w \in Quoted \ Label -> Plain(s)
                    [] OTHER -> OpenedBy(s, w)
               [] OTHER -> [s EXCEPT !.phase = phase]

\* Body::event inside a handler's condition list.
CondEvent(s, w) ==
    [s EXCEPT !.kind = CASE @ = "cond open" /\ w = "NOT" -> "cond not"
                         [] @ = "cond open" /\ w = "SQLSTATE" -> "cond sqlstate"
                         [] @ = "cond sqlstate" /\ w = "VALUE" -> "cond value"
                         [] OTHER -> "cond closed"]

\* Body::first_word: the first word of a statement opens or closes a block.
FirstWord(s, w) ==
    LET t == [s EXCEPT !.kind = "fresh", !.cases = 0]
    IN  CASE w = "END" -> [t EXCEPT !.depth = @ - 1, !.kind = "end", !.first = FALSE]
          [] w \in Label \cup {"ELSE"} -> t
          [] w \in {"BEGIN", "LOOP", "REPEAT"} -> [t EXCEPT !.depth = @ + 1]
          [] w \in {"IF", "CASE", "WHILE"} ->
             [t EXCEPT !.depth = @ + 1, !.kind = w, !.first = FALSE]
          [] w = "UNTIL" -> [t EXCEPT !.kind = "until", !.first = FALSE]
          [] w = "DECLARE" -> [t EXCEPT !.kind = "declare", !.first = FALSE]
          [] OTHER -> [t EXCEPT !.kind = "other", !.first = FALSE]

\* Body::inner_word: a word in the middle of a statement.
InnerWord(s, w) ==
    CASE s.kind = "end" -> s
      [] s.kind \in {"declare", "declare for"} ->
         [s EXCEPT !.kind = CASE w \in {"CONTINUE", "EXIT", "UNDO"} -> "declare for"
                              [] w = "HANDLER" /\ @ = "declare for" -> "handler"
                              [] OTHER -> @]
      [] s.kind = "handler" -> [s EXCEPT !.kind = IF w = "FOR" THEN "cond open" ELSE @]
      [] s.kind \notin {"end", "declare", "declare for", "handler"} ->
         CASE s.cases = 0 /\ (w \in {"THEN", "ELSE"} \/ (w = "DO" /\ s.kind = "WHILE")) ->
                [s EXCEPT !.first = TRUE]
           [] w = "CASE" -> [s EXCEPT !.cases = @ + 1]
           [] w = "END" /\ s.cases > 0 -> [s EXCEPT !.cases = @ - 1]
           [] w = "END" /\ s.cases = 0 /\ s.kind = "until" ->
                [s EXCEPT !.depth = @ - 1, !.kind = "end"]
           [] OTHER -> s

InCond == {"cond open", "cond not", "cond sqlstate", "cond value"}

\* Body::event; the body is over when its last block closes.
BodyEvent(s, w) ==
    LET t == IF s.kind = "cond closed" THEN Restart(s) ELSE s
        u == CASE t.kind \in InCond -> CondEvent(t, w)
               [] t.kind \notin InCond /\ t.first /\ w \in Quoted ->
                  IF w \in Label THEN t ELSE [t EXCEPT !.kind = "other", !.first = FALSE]
               [] t.kind \notin InCond /\ t.first /\ w \notin Quoted -> FirstWord(t, w)
               [] t.kind \notin InCond /\ ~t.first /\ w \notin Quoted -> InnerWord(t, w)
               [] OTHER -> t
    IN  IF u.depth = 0 THEN Plain(u) ELSE u

\* Splitter::event: a word or a quoted name.
Event(s, w) ==
    LET t == [s EXCEPT !.at = FALSE]
    IN  CASE s.top = "plain" -> s
          [] s.top = "start" /\ w \in {"CREATE", "ALTER"} ->
             [t EXCEPT !.top = "head", !.phase = "intro", !.alter = (w = "ALTER")]
          [] s.top = "start" /\ w = "BEGIN" -> [t EXCEPT !.top = "begin"]
          [] s.top = "begin" /\ w = "NOT" -> [t EXCEPT !.top = "begin not"]
          [] s.top = "begin not" /\ w = "ATOMIC" -> Enter(t, TRUE, "fresh")
          [] s.top = "head" -> HeadEvent(t, s.at, w)
          [] s.top = "body" -> BodyEvent(t, w)
          [] OTHER -> Plain(t)

Inside(s) == s.top = "body" /\ s.depth > 0

\* Splitter::separator: content of an open body, or the end of a statement.
Separate(s) == IF Inside(s) THEN Restart(s) ELSE Fresh

-----------------------------------------------------------------------------
Init == todo = <<"Script">> /\ sp = Fresh

\* The grammar goes on: the next symbol becomes one of the things it stands for.
Derive ==
    /\ Head(todo) \in DOMAIN Produces
    /\ \E rule \in Produces[Head(todo)] :
         /\ Len(rule) + Len(todo) - 1 <= MaxTodo
         /\ todo' = rule \o Tail(todo)
    /\ UNCHANGED sp

\* walk tells the splitter of the next thing written.
Reads(t) ==
    CASE t \in {Inner, Outer} -> Separate(sp)
      [] t \in Punctuation -> Gap(sp, t)
      [] OTHER -> Event(sp, t)

Write ==
    /\ Head(todo) \notin DOMAIN Produces
    /\ sp' = Reads(Head(todo))
    /\ todo' = Tail(todo)

Next == Derive \/ Write
Spec == Init /\ [][Next]_vars

\* A script is cut exactly where the server's grammar ends a statement: the `;` of a stored program's
\* body belong to it, however its blocks, handlers, labels and CASE expressions nest, and the `;`
\* after its END ends it (script.rs, "What the tracker must not do is end a body early").
BodyWhole ==
    /\ Head(todo) = Inner => Inside(sp)
    /\ Head(todo) = Outer => ~Inside(sp)
=============================================================================
