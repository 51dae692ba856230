----------------------------- MODULE SshConfig -----------------------------
(***************************************************************************)
(* An alias of ~/.ssh/config, resolved (crates/qh-tunnel/src/ssh_config.rs *)
(* load and resolve; crates/qh-ffi/src/tunnel.rs resolve_alias, which the  *)
(* connect, the form's preview and the list of names share).  The file is  *)
(* written one line at a time as the loader reads it.  resolve walks the   *)
(* lines front to back once, so its walk is taken along with the reading;  *)
(* what it does with the lines that apply happens when the root file ends. *)
(* Beside it stands what ssh does: every open file has a flag, the last    *)
(* Host line's verdict, and a line applies when all the flags are up.      *)
(***************************************************************************)
EXTENDS Naturals, Sequences, SequencesExt

CONSTANTS
    MaxLines,   \* bound on the lines of all files (MAX_LINES)
    MaxSaid,    \* bound on the directives among them
    MaxDepth,   \* MAX_DEPTH: how deep an Include may nest
    MaxFiles,   \* MAX_FILES
    None

VARIABLES
    home,       \* $HOME is set
    lines,      \* lines read so far
    said,       \* directives among them
    files,      \* files opened so far
    load,       \* "reading", "read", or the error that ended the load
    walk,       \* resolve's walk: named, active, scopes, applying
    match,      \* match_at is recorded
    odd,        \* unsupported_include_at is recorded
    flags,      \* ssh: the flag of every open file, the root's first
    due,        \* ssh: the directives that apply to the alias
    called,     \* ssh: a Host line that applies names the alias by more than a lone *
    resolved    \* what resolve returns

vars == <<home, lines, said, files, load, walk, match, odd, flags, due, called, resolved>>

-----------------------------------------------------------------------------
(* Text: a name is a sequence of letters, so that patterns mean something. *)

Alias == <<"a", "b">>
Lower(c) == IF c = "A" THEN "a" ELSE IF c = "B" THEN "b" ELSE c
Fold(name) == [i \in DOMAIN name |-> Lower(name[i])]

\* glob: the last * is the only one that is ever gone back to.
RECURSIVE GlobFrom(_, _, _, _, _, _)
GlobFrom(pattern, text, p, t, star, resume) ==
    IF t > Len(text) THEN \A i \in p .. Len(pattern) : pattern[i] = "*"
    ELSE IF p <= Len(pattern) /\ pattern[p] \in {"?", text[t]}
         THEN GlobFrom(pattern, text, p + 1, t + 1, star, resume)
    ELSE IF p <= Len(pattern) /\ pattern[p] = "*" THEN GlobFrom(pattern, text, p + 1, t, p, t)
    ELSE star > 0 /\ GlobFrom(pattern, text, star + 1, resume + 1, star, resume + 1)
Glob(pattern, text) == GlobFrom(pattern, text, 1, 1, 0, 0)

\* What a pattern means: the texts it stands for, letter by letter.
RECURSIVE Means(_, _)
Means(pattern, text) ==
    CASE pattern = <<>> -> text = <<>>
      [] pattern # <<>> /\ Head(pattern) = "*" ->
            \E n \in 0 .. Len(text) : Means(Tail(pattern), SubSeq(text, n + 1, Len(text)))
      [] OTHER -> /\ text # <<>> /\ Head(pattern) \in {"?", Head(text)}
                  /\ Means(Tail(pattern), Tail(text))

\* The patterns of a Host line, "!" first in a negated one.
HostLines ==
    {<<<<"A", "b">>>>, <<<<"*">>>>, <<<<"?">>>>, <<<<"*", "b">>, <<"*">>>>,
     <<<<"a", "*">>, <<"!", "?", "B">>>>, <<<<"!", "?">>, <<"?", "*">>>>}

Negated(pattern) == Head(pattern) = "!"
NoMatch == [matched |-> FALSE, specific |-> FALSE]

\* block_matches
BlockMatches(patterns) ==
    LET seen == {i \in DOMAIN patterns : LET p == Fold(patterns[i])
                    IN IF Negated(p) THEN Glob(Tail(p), Fold(Alias)) ELSE Glob(p, Fold(Alias))}
        positive == {i \in seen : ~Negated(patterns[i])}
    IN IF seen # positive THEN NoMatch
       ELSE [matched |-> positive # {},
             specific |-> \E i \in positive : Fold(patterns[i]) # <<"*">>]

-----------------------------------------------------------------------------
(* The lines.                                                              *)

\* A directive's arguments: a good value, one that resolve cannot use, or two where one is due.
Directive(k, v) == [key |-> k, value |-> v]
Directives ==
    {Directive("hostname", v) : v \in {"lit", "%h", "%x", "two"}}
    \cup {Directive("user", v) : v \in {"u", "v"}}
    \cup {Directive("port", v) : v \in {"2222", "x"}}
    \cup {Directive("identityfile", v) : v \in {"~/k", "k%h", "%x"}}
    \cup {Directive("stricthostkeychecking", v) : v \in {"ask", "no"}}
    \cup {Directive("identitiesonly", v) : v \in {"no", "yes"}}
    \cup {Directive("cosmetic", ""), Directive("proxyjump", "")}

\* Only the settings that are no weaker than the app's own behaviour pass.
Harmless(d) ==
    d \in {Directive("cosmetic", ""), Directive("stricthostkeychecking", "ask"),
           Directive("identitiesonly", "no")}
Fields == {"hostname", "user", "port", "identityfile"}

\* single, and a port that parses.
Shaped(d) == d.value # "two" /\ d # Directive("port", "x")

\* expand; %d is left out, it is the home directory and no other value depends on it.
Expands(d) == d.value # "%x"

\* A slip: a Host line of an included file applies though its Include line did not.
HostOutOfScope(w, patterns) ==
    LET block == BlockMatches(patterns)
    IN [w EXCEPT !.active = block.matched, !.named = @ \/ (block.matched /\ block.specific)]

\* One step of the walk for each item.
HostVerdict(w, patterns) ==
    LET inScope == IF w.scopes = <<>> THEN TRUE ELSE Last(w.scopes)
        block == BlockMatches(patterns)
    IN [w EXCEPT !.active = block.matched /\ inScope,
                 !.named = @ \/ (block.matched /\ inScope /\ block.specific)]
Enter(w) == [w EXCEPT !.scopes = Append(@, w.active)]
Leave(w) == [w EXCEPT !.active = Last(w.scopes), !.scopes = Front(@)]
Apply(w, d) == IF w.active THEN [w EXCEPT !.applying = Append(@, d)] ELSE w

Refuse(why) == [is |-> why, host |-> "", user |-> None, port |-> None, files |-> <<>>]

First(ds, key) ==
    LET of == SelectSeq(ds, LAMBDA d : d.key = key) IN IF of = <<>> THEN None ELSE Head(of).value

\* The name to connect to: HostName with %h as typed, or the alias itself.
HostOf(value) == IF value = "lit" THEN "lit" ELSE "alias"

\* An IdentityFile's %h is the name that was resolved.
FileOf(value, host) == IF value = "k%h" THEN <<"k", host>> ELSE <<value>>

\* resolve, once the walk has collected the directives that apply.
Resolve(w) ==
    LET ds == w.applying
        wrong == {i \in DOMAIN ds : ~(Harmless(ds[i]) \/ (ds[i].key \in Fields /\ Shaped(ds[i])))
                                    \/ (ds[i].key = "hostname" /\ ~Expands(ds[i]))}
        host == HostOf(First(ds, "hostname"))
        keys == SelectSeq(ds, LAMBDA d : d.key = "identityfile")
    IN CASE match -> Refuse("Match")
         [] odd /\ ~match -> Refuse("Include")
         [] ~match /\ ~odd /\ ~w.named -> Refuse("NotFound")
         [] ~match /\ ~odd /\ w.named /\ wrong # {} -> Refuse("Unsupported")
         [] OTHER ->
              IF \E i \in DOMAIN keys : ~Expands(keys[i]) \/ (keys[i].value = "~/k" /\ ~home)
              THEN Refuse("Unsupported")
              ELSE [is |-> "ok", host |-> host, user |-> First(ds, "user"),
                    port |-> First(ds, "port"),
                    files |-> [i \in DOMAIN keys |-> FileOf(keys[i].value, host)]]

-----------------------------------------------------------------------------
(* Reading.                                                                *)

Init ==
    /\ home \in BOOLEAN
    /\ lines = 0 /\ said = 0 /\ files = 1 /\ load = "reading"
    /\ walk = [named |-> FALSE, active |-> TRUE, scopes |-> <<>>, applying |-> <<>>]
    /\ match = FALSE /\ odd = FALSE
    /\ flags = <<TRUE>> /\ due = <<>> /\ called = FALSE
    /\ resolved = Refuse("none")

Reading == load = "reading" /\ lines < MaxLines
InForce == \A i \in DOMAIN flags : flags[i]
Enclosed == \A i \in DOMAIN Front(flags) : flags[i]

HostLine(patterns) ==
    /\ Reading /\ lines' = lines + 1
    /\ walk' = HostVerdict(walk, patterns)
    /\ LET yes == {i \in DOMAIN patterns : ~Negated(patterns[i]) /\ Means(Fold(patterns[i]), Alias)}
           no == {i \in DOMAIN patterns : Negated(patterns[i]) /\ Means(Tail(Fold(patterns[i])), Alias)}
           hit == yes # {} /\ no = {}
       IN /\ flags' = [flags EXCEPT ![Len(flags)] = hit]
          /\ called' = (called \/ (hit /\ Enclosed /\ \E i \in yes : patterns[i] # <<"*">>))
    /\ UNCHANGED <<home, said, files, load, match, odd, due, resolved>>

\* Match is recorded wherever it stands, and nothing after it applies until the next Host line.
MatchLine ==
    /\ Reading /\ lines' = lines + 1
    /\ match' = TRUE
    /\ walk' = HostVerdict(walk, <<>>)
    /\ flags' = [flags EXCEPT ![Len(flags)] = FALSE]
    /\ UNCHANGED <<home, said, files, load, odd, due, called, resolved>>

DirectiveLine(d) ==
    /\ Reading /\ said < MaxSaid /\ lines' = lines + 1 /\ said' = said + 1
    /\ walk' = Apply(walk, d)
    /\ due' = IF InForce THEN Append(due, d) ELSE due
    /\ UNCHANGED <<home, files, load, match, odd, flags, called, resolved>>

\* An Include whose argument is not expanded is recorded; the line goes on with its next argument.
OddInclude ==
    /\ Reading /\ lines' = lines + 1
    /\ odd' = TRUE
    /\ UNCHANGED <<home, said, files, load, walk, match, flags, due, called, resolved>>

\* A file the Include names is read where it stands.  One too deep or one too many ends the load.
Include ==
    /\ Reading /\ lines' = lines + 1
    /\ IF Len(walk.scopes) + 1 > MaxDepth \/ files >= MaxFiles
       THEN load' = "TooManyIncludes" /\ UNCHANGED <<files, walk, flags>>
       ELSE /\ files' = files + 1 /\ walk' = Enter(walk) /\ flags' = Append(flags, TRUE)
            /\ UNCHANGED load
    /\ UNCHANGED <<home, said, match, odd, due, called, resolved>>

\* What ends the load on the next line.  A file that is not there, or a pattern no file matches, is
\* nothing.
Stumble(why) ==
    /\ Reading /\ lines' = lines + 1 /\ load' = why
    /\ UNCHANGED <<home, said, files, walk, match, odd, flags, due, called, resolved>>

\* tokenize: a line without syntax.
Malformed == Stumble("Malformed")

\* expand_include: a name that needs $HOME when there is none.
NoHome == ~home /\ Stumble("NoHome")

\* read: a file that is there and cannot be read, or is too large.
Unreadable == Stumble("Unreadable")

EndOfInclude ==
    /\ load = "reading" /\ Len(flags) > 1
    /\ walk' = Leave(walk) /\ flags' = Front(flags)
    /\ UNCHANGED <<home, lines, said, files, load, match, odd, due, called, resolved>>

EndOfConfig ==
    /\ load = "reading" /\ Len(flags) = 1
    /\ load' = "read" /\ resolved' = Resolve(walk)
    /\ UNCHANGED <<home, lines, said, files, walk, match, odd, flags, due, called>>

Next ==
    \/ \E patterns \in HostLines : HostLine(patterns)
    \/ MatchLine \/ \E d \in Directives : DirectiveLine(d)
    \/ OddInclude \/ Include \/ Malformed \/ NoHome \/ Unreadable
    \/ EndOfInclude \/ EndOfConfig

Spec == Init /\ [][Next]_vars

-----------------------------------------------------------------------------
(* Properties.                                                             *)

TypeOK ==
    /\ home \in BOOLEAN /\ lines \in 0 .. MaxLines /\ files \in 1 .. MaxFiles
    /\ load \in {"reading", "read", "Malformed", "Unreadable", "NoHome", "TooManyIncludes"}
    /\ Len(flags) <= MaxDepth + 1 /\ Len(walk.scopes) = Len(flags) - 1

\* A directive that ssh obeys for the alias and resolve does not apply in full.
Obstacle(d) ==
    \/ d.key \in {"proxyjump"} \/ d \in {Directive("stricthostkeychecking", "no"),
                                         Directive("identitiesonly", "yes")}
    \/ d.value \in {"%x", "two", "x"} \/ (d.value = "~/k" /\ ~home)

\* An alias resolves only to what ssh would use, and only when nothing that ssh would obey was
\* passed over: no Match and no Include the loader could not follow anywhere, no directive in force
\* that is not applied, and a Host line in force that names it; the first value wins, wherever
\* Includes nest in blocks that do or do not apply (ssh_config.rs, "a directive we do not apply is a
\* refusal that names it, never a silent skip").  And nothing else is refused.
AliasTrue ==
    load = "read" =>
        /\ resolved.is = "ok" <=> (~match /\ ~odd /\ called /\ \A i \in DOMAIN due : ~Obstacle(due[i]))
        /\ resolved.is = "ok" =>
              LET at(key) == {i \in DOMAIN due : due[i].key = key}
                  value(key) == due[CHOOSE i \in at(key) : \A j \in at(key) : i <= j].value
              IN /\ resolved.host = IF at("hostname") # {} /\ value("hostname") = "lit"
                                    THEN "lit" ELSE "alias"
                 /\ resolved.user = IF at("user") = {} THEN None ELSE value("user")
                 /\ resolved.port = IF at("port") = {} THEN None ELSE value("port")
                 /\ resolved.files =
                       LET keys == SelectSeq(due, LAMBDA d : d.key = "identityfile")
                       IN [i \in DOMAIN keys |-> IF keys[i].value = "~/k" THEN <<"~/k">>
                                                 ELSE <<"k", resolved.host>>]
=============================================================================
