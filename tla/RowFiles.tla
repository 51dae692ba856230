------------------------------ MODULE RowFiles ------------------------------
(***************************************************************************)
(* A table that leaves as a file and comes back.  An export writes it row  *)
(* by row (qh-export/src/writers.rs, encoding.rs); somebody may cut the    *)
(* file short or put a character into it; an import reads it row by row    *)
(* (qh-import/src/csv_source.rs, json_source.rs) and makes a literal of    *)
(* every value (values.rs, qh-ffi/src/import.rs).  Scripts and pages only  *)
(* leave.  The csv crate, serde_json and the servers are external.         *)
(*                                                                         *)
(* A text is a sequence of characters, as in CellText; "cr" and "nl" end a *)
(* line, "eacute" and "euro" are letters beyond ASCII, and a keyword of a  *)
(* script or a reference of a page is one character.  A byte below 0x80 is *)
(* the character it stands for.  A cell is <<>> for NULL, or <<text>>.     *)
(***************************************************************************)
EXTENDS CellText, TLC

CONSTANTS
    Jobs,        \* what is exported, and how the file is imported
    MaxRows,     \* bound: rows of a file
    SampleRows,  \* rows that name the columns (SAMPLE_ROWS)
    MaxUnmapped, \* keys remembered for the warning (MAX_UNMAPPED)
    MaxDepth,    \* nesting of an element (MAX_DEPTH)
    MaxElement   \* its length (MAX_ELEMENT_BYTES)

VARIABLES
    job,   \* format, names and kinds of the columns, rows to choose from, options of both sides
    rows,  \* rows given to the writer
    out,   \* the file
    wr,    \* the writer: open, JsonWriter::first, SqlWriter::buffer; and what was done to the file since
    rd,    \* the reader
    got    \* what became of each row that was read

vars == <<job, rows, out, wr, rd, got>>

\* What stands between quotes, from i on: a doubled quote is one, and a backslash may take what follows.
RECURSIVE QuotedRun(_, _, _, _)
QuotedRun(t, i, quote, escapes) ==
    IF i > Len(t) THEN <<<<>>, i + 1>>
    ELSE IF t[i] = quote /\ (i = Len(t) \/ t[i + 1] # quote) THEN <<<<>>, i + 1>>
    ELSE LET pair == t[i] = quote \/ (escapes /\ t[i] = "\\" /\ i < Len(t))
         IN  With(QuotedRun(t, IF pair THEN i + 2 ELSE i + 1, quote, escapes), LAMBDA q :
                  <<<<t[IF pair THEN i + 1 ELSE i]>> \o q[1], q[2]>>)

Null == <<"null">>
Infinite(v) == v[1] = "float" /\ v[2] \in {"nan", "inf"}
Split(parts, sep) == FlattenSeq([i \in DOMAIN parts |-> IF i = 1 THEN parts[i] ELSE sep \o parts[i]])
Doubled(t, chars) == FlattenSeq([i \in DOMAIN t |-> IF t[i] \in chars THEN <<t[i], t[i]>> ELSE <<t[i]>>])
At(t, i) == IF i \in DOMAIN t THEN t[i] ELSE "eof"

-----------------------------------------------------------------------------
(* Code pages.                                                             *)

\* The bytes of the characters beyond ASCII that a page holds.
Bytes ==
    [utf8   |-> "eacute" :> <<"C3", "A9">> @@ "euro" :> <<"E2", "82", "AC">> @@ "bom" :> <<"EF", "BB", "BF">>,
     latin1 |-> "eacute" :> <<"E9">>,
     cp1252 |-> "eacute" :> <<"E9">> @@ "euro" :> <<"80">>,
     ascii  |-> <<>>]

High == {"eacute", "euro", "bom"}
HighBytes == {"C3", "A9", "E2", "82", "AC", "EF", "BB", "BF", "E9", "80", "81"}

\* Codec::encode: one `?` for a character the page cannot hold.
Encode(page, t) ==
    FlattenSeq([i \in DOMAIN t |->
        IF t[i] \notin High THEN <<t[i]>>
        ELSE IF t[i] \in DOMAIN Bytes[page] THEN Bytes[page][t[i]] ELSE <<"?">>])

\* Transcoder, high_half: the table is the encoder's, read backwards; "bad" is a byte no character has.
RECURSIVE Decode(_, _)
Decode(page, bytes) ==
    IF bytes = <<>> THEN <<>>
    ELSE IF bytes[1] \notin HighBytes THEN <<bytes[1]>> \o Decode(page, Tail(bytes))
    ELSE LET fits == {c \in High : Encode(page, <<c>>) # <<"?">> /\ IsPrefix(Encode(page, <<c>>), bytes)}
         IN  IF fits = {} THEN <<"bad">>
             ELSE LET c == CHOOSE x \in fits : TRUE
                  IN  <<c>> \o Decode(page, SubSeq(bytes, Len(Encode(page, <<c>>)) + 1, Len(bytes)))

\* scan: the whole file is read once before its first row is.
Scan(page, bytes) == "bad" \notin Range(Decode(page, bytes))

-----------------------------------------------------------------------------
(* Dates and numbers in a file's own spelling.                             *)

Letters == {"y", "M", "d", "H", "h", "m", "s", "S", "a", "Q", "Z"}
Widths == [y |-> {2, 4}, M |-> {1, 2}, d |-> {1, 2}, H |-> {1, 2}, h |-> {1, 2}, m |-> {2}, s |-> {2}, S |-> 1 .. 9,
           a |-> {1}, Q |-> {}, Z |-> {}]
Token(what, width, text) == [what |-> what, width |-> width, text |-> text]
Refused == <<Token("refused", 0, <<>>)>>

\* carries_zone
CarriesZone(t) ==
    "Z" \in Range(t) \/ \E i \in 1 .. Len(t) - 1 : t[i] \in {"+", "-"} /\ IsDigit(t[i + 1])

\* DatePattern::parse: runs of one letter, quoted text, and what is literal as it stands.
RECURSIVE Compiled(_, _)
Compiled(t, tokens) ==
    IF t = <<>> THEN tokens
    ELSE IF t[1] = "'"
         THEN With(QuotedRun(t, 2, "'", FALSE), LAMBDA q :
              IF q[2] > Len(t) + 1 THEN Refused
              ELSE Compiled(SubSeq(t, q[2], Len(t)),
                            Append(tokens, Token("literal", 0, IF q[1] = <<>> THEN <<"'">> ELSE q[1]))))
    ELSE IF t[1] \in Letters
         THEN LET run == Max({n \in DOMAIN t : \A i \in 1 .. n : t[i] = t[1]})
              IN  IF run \notin Widths[t[1]] THEN Refused
                  ELSE Compiled(SubSeq(t, run + 1, Len(t)), Append(tokens, Token(t[1], run, <<>>)))
    ELSE IF tokens # <<>> /\ Last(tokens).what = "literal"
         THEN Compiled(Tail(t), [tokens EXCEPT ![Len(tokens)].text = Append(@, t[1])])
         ELSE Compiled(Tail(t), Append(tokens, Token("literal", 0, <<t[1]>>)))

PatternHolds(t) ==
    With(Compiled(t, <<>>), LAMBDA tokens :
        LET has(what) == \E i \in DOMAIN tokens : tokens[i].what = what
        IN  /\ tokens # Refused
            /\ \A i \in DOMAIN tokens : ~ CarriesZone(tokens[i].text)
            /\ has("y") /\ has("M") /\ has("d")
            /\ has("h") <=> has("a"))

DaysInMonth(y, m) ==
    IF m \in {4, 6, 9, 11} THEN 30
    ELSE IF m = 2 THEN (IF y % 4 = 0 /\ (y % 100 # 0 \/ y % 400 = 0) THEN 29 ELSE 28) ELSE 31

Trim(t) ==
    LET kept == {i \in DOMAIN t : t[i] \notin {" ", "tab", "nl", "cr"}}
    IN  IF kept = {} THEN <<>> ELSE SubSeq(t, Min(kept), Max(kept))

\* DatePattern::read: one token after the other; the last of two of a kind counts.
Least(token) == IF token.what = "S" THEN 1 ELSE token.width
Most(token) == IF token.what = "S" THEN 9 ELSE IF token.what = "y" THEN token.width ELSE 2

TakeToken(t, s, token) ==
    LET run == Max({n \in 0 .. Most(token) : s.at + n - 1 <= Len(t) /\ \A i \in s.at .. s.at + n - 1 : IsDigit(t[i])})
        digits == SubSeq(t, s.at, s.at + run - 1)
        word == Fold(SubSeq(t, s.at, Min({Len(t), s.at + 1})))
        taken(n, what, value) == [s EXCEPT !.at = @ + n, !.parts = what :> value @@ @]
    IN  IF ~ s.ok THEN s
        ELSE IF token.what = "literal"
             THEN IF IsPrefix(token.text, SubSeq(t, s.at, Len(t))) THEN [s EXCEPT !.at = @ + Len(token.text)]
                  ELSE [s EXCEPT !.ok = FALSE]
        ELSE IF token.what = "a"
             THEN IF word \in {<<"a", "m">>, <<"p", "m">>} THEN taken(2, "a", IF word[1] = "p" THEN 12 ELSE 0)
                  ELSE [s EXCEPT !.ok = FALSE]
        ELSE IF run < Least(token) THEN [s EXCEPT !.ok = FALSE]
        ELSE IF token.what = "S" THEN taken(run, "S", digits)
        ELSE IF token.what = "y" /\ token.width = 2
             THEN taken(2, "y", IF ValueOf(digits) <= 68 THEN 2000 + ValueOf(digits) ELSE 1900 + ValueOf(digits))
        ELSE taken(run, IF token.what = "H" THEN "h" ELSE token.what, ValueOf(digits))

\* The date and the time of day, or nothing.
ReadDate(pattern, text) ==
    With(FoldLeft(LAMBDA s, token : TakeToken(Trim(text), s, token), [at |-> 1, parts |-> <<>>, ok |-> TRUE],
                  Compiled(pattern, <<>>)), LAMBDA s :
        LET part(what, absent) == IF what \in DOMAIN s.parts THEN s.parts[what] ELSE absent
            noon == "a" \in DOMAIN s.parts
            hour == IF noon THEN (part("h", 0) % 12) + part("a", 0) ELSE part("h", 0)
        IN  IF \/ ~ s.ok \/ s.at <= Len(Trim(text))
               \/ part("M", 0) \notin 1 .. 12
               \/ part("d", 0) \notin 1 .. DaysInMonth(part("y", 0), part("M", 0))
               \/ (noon /\ part("h", 1) \notin 1 .. 12) \/ hour > 23 \/ part("m", 0) > 59 \/ part("s", 0) > 59
            THEN <<>>
            ELSE <<Padded(part("y", 0), 4) \o <<"-">> \o Padded(part("M", 0), 2) \o <<"-">> \o Padded(part("d", 0), 2),
                   IF "h" \notin DOMAIN s.parts THEN <<"0", "0", ":", "0", "0", ":", "0", "0">>
                   ELSE Padded(hour, 2) \o <<":">> \o Padded(part("m", 0), 2) \o <<":">> \o Padded(part("s", 0), 2)
                          \o IF "S" \in DOMAIN s.parts THEN <<".">> \o s.parts["S"] ELSE <<>>>>)

\* The parts between these characters.
RECURSIVE SplitAll(_, _)
SplitAll(t, chars) == With(SplitAt(t, chars), LAMBDA p : IF p[3] THEN <<p[1]>> \o SplitAll(p[2], chars) ELSE <<p[1]>>)

\* normalize_number: groups of three or none at all; <<>> is no number.
NormalizeNumber(text, decimal, grouping) ==
    With(Trim(text), LAMBDA t :
    With(SplitAt(Unsigned(t), {decimal}), LAMBDA p :
    With(SplitAll(p[1], {grouping}), LAMBDA groups :
    With(FlattenSeq(groups), LAMBDA digits :
        IF \/ IF p[3] THEN p[2] = <<>> ELSE digits = <<>>
           \/ ~ AllDigits(p[2]) \/ ~ AllDigits(digits)
           \/ Len(groups) > 1 /\ (Len(groups[1]) \notin 1 .. 3 \/ \E i \in 2 .. Len(groups) : Len(groups[i]) # 3)
        THEN <<>>
        ELSE SubSeq(t, 1, Len(t) - Len(Unsigned(t))) \o (IF digits = <<>> THEN <<"0">> ELSE digits)
               \o IF p[3] THEN <<".">> \o p[2] ELSE <<>>))))

-----------------------------------------------------------------------------
(* Delimited files.                                                        *)

\* A field with the delimiter, a quote or a character of the line terminator.
NeedsQuotes(f) == \E i \in DOMAIN f : f[i] \in {job.delim, "quote", "cr", "nl"}

\* render_fields
RenderFields(fields) ==
    Split([i \in DOMAIN fields |->
             IF NeedsQuotes(fields[i]) THEN <<"quote">> \o Doubled(fields[i], {"quote"}) \o <<"quote">>
             ELSE fields[i]], <<job.delim>>) \o <<"cr", "nl">>

\* Files another program writes: its spelling of numbers, and of dates by the pattern.
RECURSIVE Grouped(_)
Grouped(t) == IF Len(t) <= 3 \/ job.grouping = Absent THEN t
              ELSE Grouped(SubSeq(t, 1, Len(t) - 3)) \o <<job.grouping>> \o SubSeq(t, Len(t) - 2, Len(t))
LocaleText(t) ==
    With(SplitAt(Unsigned(t), {"."}), LAMBDA p :
        (IF t[1] = "-" THEN <<"-">> ELSE <<>>) \o Grouped(p[1]) \o IF p[3] THEN <<job.decimal>> \o p[2] ELSE <<>>)

SpellDate(tokens, days) ==
    With(CivilFromDays(days), LAMBDA d :
        FlattenSeq([i \in DOMAIN tokens |->
            LET w == tokens[i].width IN
            CASE tokens[i].what = "y" -> IF w = 4 THEN Padded(d[1], 4) ELSE Padded(d[1] % 100, 2)
              [] tokens[i].what = "M" -> Padded(d[2], w)
              [] tokens[i].what = "d" -> Padded(d[3], w)
              [] tokens[i].what = "h" -> <<"1", "2">>
              [] tokens[i].what = "a" -> <<"a", "m">>
              [] tokens[i].what = "literal" -> tokens[i].text
              [] OTHER -> Zeros(w)]))

Foreign(v) == (job.decimal \notin {Absent, "."} /\ v[1] \in {"int", "dec"}) \/ (job.pattern # <<>> /\ v[1] = "date")

Field(v) ==
    IF v = Null THEN job.nullText
    ELSE IF ~ Foreign(v) THEN WriteText(v)
    ELSE IF v[1] = "date" THEN SpellDate(Compiled(job.pattern, <<>>), v[2]) ELSE LocaleText(WriteText(v))

DelimitedRow(row) == Encode(job.page, RenderFields([i \in DOMAIN row |-> Field(row[i])]))

\* DelimitedWriter::new
DelimitedHead ==
    (IF job.bom /\ job.page = "utf8" THEN Bytes["utf8"]["bom"] ELSE <<>>)
      \o IF job.header THEN Encode(job.page, RenderFields(job.names)) ELSE <<>>

-----------------------------------------------------------------------------
(* JSON.                                                                   *)

\* to_json_value and compact.  Decimals, which become floats, and nested values are left out.
JsonOf(v) ==
    IF v = Null \/ Infinite(v) THEN <<"n", "u", "l", "l">>
    ELSE IF v[1] \in {"bool", "int", "uint", "float"} THEN WriteText(v) ELSE WriteJsonString(WriteText(v))

\* row_object: a name that comes again replaces the value, where the first stands.
ObjectText(row) ==
    LET firsts == {i \in DOMAIN row : \A k \in 1 .. i - 1 : job.names[k] # job.names[i]}
        last(i) == Max({k \in DOMAIN row : job.names[k] = job.names[i]})
        pairs == [i \in DOMAIN row |-> IF i \notin firsts THEN <<>>
                                       ELSE (IF i = 1 THEN <<>> ELSE <<",">>)
                                              \o WriteJsonString(job.names[i]) \o <<":">> \o JsonOf(row[last(i)])]
    IN  <<"{">> \o FlattenSeq(pairs) \o <<"}">>

\* JsonWriter: the separator comes before every row but the first.
JsonRow(row) ==
    IF job.format = "jsonl" THEN ObjectText(row) \o <<"nl">>
    ELSE (IF wr.first THEN <<>> ELSE <<",", "nl">>) \o ObjectText(row)

JsonTail == IF job.format = "jsonl" THEN <<>> ELSE (IF wr.first THEN <<>> ELSE <<"nl">>) \o <<"]", "nl">>

-----------------------------------------------------------------------------
(* SQL scripts, and the literals of an import.                             *)

IdentQuote(d) == IF d = "mysql" THEN "tick" ELSE "quote"
QuoteIdent(d, t) == <<IdentQuote(d)>> \o Doubled(t, {IdentQuote(d)}) \o <<IdentQuote(d)>>

\* qualified_name: the parts between the dots that stand outside a quote the user wrote.
RECURSIVE Parts(_, _, _)
Parts(t, part, open) ==
    IF t = <<>> THEN <<part>>
    ELSE IF open # "none" /\ t[1] = open
         THEN IF At(t, 2) = open THEN Parts(SubSeq(t, 3, Len(t)), Append(part, open), open)
              ELSE Parts(Tail(t), part, "none")
    ELSE IF open = "none" /\ t[1] \in {"quote", "tick"} /\ part = <<>> THEN Parts(Tail(t), part, t[1])
    ELSE IF open = "none" /\ t[1] = "." THEN <<part>> \o Parts(Tail(t), <<>>, "none")
    ELSE Parts(Tail(t), Append(part, t[1]), open)

QualifiedName(d, t) ==
    With(Parts(t, <<>>, "none"), LAMBDA ps : Split([i \in DOMAIN ps |-> QuoteIdent(d, ps[i])], <<".">>))

\* literal's strings, and quoted of an import.
QuotedText(d, t) == <<"'">> \o Doubled(t, {"'"} \cup (IF d = "mysql" THEN {"\\"} ELSE {})) \o <<"'">>

\* writers.rs literal: only PostgreSQL has a spelling of NaN and infinity.
ExportLiteral(d, v) ==
    CASE v = Null -> <<"NULL">>
      [] v[1] = "bool" -> IF v[2] THEN <<"TRUE">> ELSE <<"FALSE">>
      [] Infinite(v) -> IF d = "postgres" THEN <<"'">> \o WriteText(v) \o <<"'">> ELSE <<"NULL">>
      [] v[1] \in {"int", "uint", "float", "dec"} -> WriteText(v)
      [] v[1] = "bytes" -> (IF d = "postgres" THEN <<"decode">> ELSE <<"X">>) \o QuotedText(d, WriteText(v))
      [] OTHER -> QuotedText(d, WriteText(v))

Tuple(literals) == <<"(">> \o Split(literals, <<",">>) \o <<")">>
InsertInto(d, table, columns) ==
    <<"insert">> \o table \o Tuple([i \in DOMAIN columns |-> QuoteIdent(d, columns[i])]) \o <<"values">>

\* SqlWriter::flush
Flushed(buffer) ==
    IF buffer = <<>> THEN <<>>
    ELSE InsertInto(job.dialect, QualifiedName(job.dialect, job.table), job.names)
           \o Split(buffer, <<",", "nl">>) \o <<";", "nl">>

SqlTuple(row) == Tuple([i \in DOMAIN row |-> ExportLiteral(job.dialect, row[i])])

-----------------------------------------------------------------------------
(* XML and HTML.                                                           *)

Escapes == "&" :> "amp" @@ "<" :> "lt" @@ ">" :> "gt" @@ "quote" :> "quot" @@ "'" :> "x27"

\* escape: all five, an ampersand before what brings one in.
Escape(t) ==
    FlattenSeq([i \in DOMAIN t |-> IF t[i] \in DOMAIN Escapes THEN <<"&", Escapes[t[i]], ";">> ELSE <<t[i]>>])

Tagged(tag, text) == <<"<">> \o tag \o <<">">> \o text \o <<"<", "/">> \o tag \o <<">">>

\* xml_tag: what a tag cannot hold becomes `_`.
XmlTag(name) ==
    LET safe(c) == IsDigit(c) \/ c \in {"a", "b", "A", "_", ".", "-"}
        tag == [i \in DOMAIN name |-> IF safe(name[i]) THEN name[i] ELSE "_"]
    IN  IF tag # <<>> /\ tag[1] \in {"a", "b", "A", "_"} THEN tag ELSE <<"_">> \o tag

\* is_xml_control: what XML cannot carry in any form is dropped.
Cleaned(t) == SelectSeq(t, LAMBDA c : c # "nul")

PageCell(i, v) ==
    IF job.format = "html"
    THEN IF v = Null THEN <<"<", "t", "d", "null", ">", "N", "<", "/", "t", "d", ">">>
         ELSE Tagged(<<"t", "d">>, Escape(WriteText(v)))
    ELSE IF v = Null THEN <<"<">> \o XmlTag(job.names[i]) \o <<"null", "/", ">">>
         ELSE Tagged(XmlTag(job.names[i]), Escape(Cleaned(WriteText(v))))

RowTag == IF job.format = "html" THEN <<"t", "r">> ELSE <<"r", "e", "c">>
PageRow(row) == Tagged(RowTag, FlattenSeq([i \in DOMAIN row |-> PageCell(i, row[i])])) \o <<"nl">>

RootTag == <<"r", "o", "o", "t">>
PageHead ==
    IF job.format = "html" THEN FlattenSeq([i \in DOMAIN job.names |-> Tagged(<<"t", "h">>, Escape(job.names[i]))])
    ELSE <<"<">> \o RootTag \o <<">">>
PageTail == <<"<", "/">> \o (IF job.format = "html" THEN <<"b", "o", "d", "y">> ELSE RootTag) \o <<">">>

-----------------------------------------------------------------------------
(* The readers.                                                            *)

\* The csv crate: a field in quotes to the quote that is not doubled, then what follows it; a record
\* to the end of a line; empty lines are no records.
FieldAt(t, i) ==
    With(IF At(t, i) = "quote" THEN QuotedRun(t, i + 1, "quote", FALSE) ELSE <<<<>>, i>>, LAMBDA q :
    With(Min({Len(t) + 1} \cup {j \in q[2] .. Len(t) : t[j] \in {job.delim, "cr", "nl"}}), LAMBDA end :
        <<q[1] \o SubSeq(t, q[2], end - 1), end>>))

RECURSIVE Record(_, _)
Record(t, i) ==
    With(FieldAt(t, i), LAMBDA f :
        IF At(t, f[2]) # job.delim THEN <<<<f[1]>>, f[2]>>
        ELSE With(Record(t, f[2] + 1), LAMBDA r : <<<<f[1]>> \o r[1], r[2]>>))

RecordStart(t, i) == Min({Len(t) + 1} \cup {j \in i .. Len(t) : t[j] \notin {"cr", "nl"}})

\* A step of a reader: what it is after, and the row, the end or the fault it met.
Met(reader, what, row) == [reader |-> reader, what |-> what, row |-> row]
Fault(r) == Met(r, "fault", <<>>)

\* CsvSource::next_row: a cell of text is always a value.
CsvRow(r) ==
    With(RecordStart(r.text, r.at), LAMBDA i :
        IF i > Len(r.text) THEN Met(r, "end", <<>>)
        ELSE With(Record(r.text, i), LAMBDA record :
             Met([r EXCEPT !.at = record[2]], "row", [n \in DOMAIN record[1] |-> <<record[1][n]>>])))

\* read_object: past the bracket that closes the one at i, brackets in strings apart; 0 if the file
\* ends first or the element is too deep.
ObjectEnd(t, i) ==
    LET step(s, j) ==
            IF s.end # 0 \/ s.deep THEN s
            ELSE IF s.string THEN [s EXCEPT !.escaped = ~s.escaped /\ t[j] = "\\",
                                            !.string = s.escaped \/ t[j] # "quote"]
            ELSE IF t[j] = "quote" THEN [s EXCEPT !.string = TRUE]
            ELSE IF t[j] \in {"{", "["} THEN [s EXCEPT !.depth = @ + 1, !.deep = s.depth + 1 > MaxDepth]
            ELSE IF t[j] \in {"}", "]"} THEN [s EXCEPT !.depth = @ - 1, !.end = IF s.depth = 1 THEN j + 1 ELSE 0]
            ELSE s
    IN  FoldLeft(step, [depth |-> 0, string |-> FALSE, escaped |-> FALSE, deep |-> FALSE, end |-> 0],
                 [n \in 1 .. Len(t) - i + 1 |-> i + n - 1]).end

\* serde_json, of one element: its keys and raw values in the order of the file, or Bad.
Bad == <<<<>>>>

RawEnd(t, i) ==
    IF At(t, i) \in {"{", "["}
    THEN With(ObjectEnd(t, i), LAMBDA e : IF e # 0 /\ JsonValidate(SubSeq(t, i, e - 1)) THEN e ELSE 0)
    ELSE IF i > Len(t) THEN 0 ELSE SkipScalar(t, i)

RECURSIVE Pairs(_, _)
Pairs(t, at) ==
    With(SkipWs(t, at), LAMBDA k :
    With(IF At(t, k) = "quote" THEN SkipString(t, k + 1) ELSE 0, LAMBDA e :
    With(IF e = 0 THEN 0 ELSE SkipWs(t, e), LAMBDA colon :
        IF At(t, colon) # ":" THEN Bad
        ELSE With(SkipWs(t, colon + 1), LAMBDA v : With(RawEnd(t, v), LAMBDA end :
             IF end = 0 THEN Bad
             ELSE With(SkipWs(t, end), LAMBDA next :
                  IF t[next] = "}"
                  THEN IF next = Len(t) THEN <<<<SubSeq(t, k, e - 1), SubSeq(t, v, end - 1)>>>> ELSE Bad
                  ELSE IF t[next] # "," THEN Bad
                  ELSE With(Pairs(t, next + 1), LAMBDA rest :
                       IF rest = Bad THEN Bad ELSE <<<<SubSeq(t, k, e - 1), SubSeq(t, v, end - 1)>>>> \o rest)))))))

ObjectPairs(t) == IF Last(t) # "}" THEN Bad ELSE IF SkipWs(t, 2) = Len(t) THEN <<>> ELSE Pairs(t, 2)

Unescaped(t) ==
    LET body == SubSeq(t, 2, Len(t) - 1)
        named(c) == IF c = "n" THEN "nl" ELSE IF c = "t" THEN "tab" ELSE c
        step(s, c) == IF s.after THEN [text |-> Append(s.text, named(c)), after |-> FALSE]
                      ELSE IF c = "\\" THEN [s EXCEPT !.after = TRUE] ELSE [s EXCEPT !.text = Append(@, c)]
    IN  FoldLeft(step, [text |-> <<>>, after |-> FALSE], body).text

\* start: a byte-order mark is dropped, UTF-16 refused.
Started(r) ==
    With(IF At(r.text, r.at) = "bom" THEN r.at + 1 ELSE r.at, LAMBDA i :
    With(SkipWs(r.text, i), LAMBDA j :
        IF At(r.text, j) = "[" THEN [r EXCEPT !.mode = "array", !.at = j + 1]
        ELSE [r EXCEPT !.mode = "stream", !.at = j]))

\* next_element from the brace on, and next_object.
ElementAt(r, i) ==
    With(IF At(r.text, i) = "{" THEN ObjectEnd(r.text, i) ELSE 0, LAMBDA end :
        IF end = 0 \/ end - i > MaxElement THEN Fault(r)
        ELSE With(ObjectPairs(SubSeq(r.text, i, end - 1)), LAMBDA pairs :
             IF pairs = Bad \/ "bad" \in Range(SubSeq(r.text, i, end - 1)) THEN Fault(r)
             ELSE Met([r EXCEPT !.at = end, !.count = @ + 1, !.expect = FALSE], "row", pairs)))

\* Mutant of NextElement: the end of the file ends an array too.
NextElementLoose(reader) ==
    With(IF reader.mode = "unstarted" THEN Started(reader) ELSE reader, LAMBDA r :
    With(SkipWs(r.text, r.at), LAMBDA i :
    With(At(r.text, i), LAMBDA c :
        IF c = "eof" \/ (r.mode = "array" /\ c = "]") THEN Met([r EXCEPT !.at = i], "end", <<>>)
        ELSE ElementAt(r, IF c = "," /\ ~r.expect THEN SkipWs(r.text, i + 1) ELSE i))))

\* next_element: an array wants a comma between elements, none behind the last, its bracket and
\* nothing after it; a stream is objects until the file ends.
NextElement(reader) ==
    With(IF reader.mode = "unstarted" THEN Started(reader) ELSE reader, LAMBDA r :
    With(SkipWs(r.text, r.at), LAMBDA i :
    With(At(r.text, i), LAMBDA c :
        IF reader.mode = "unstarted" /\ At(reader.text, 1) = "utf16" THEN Fault(r)
        ELSE IF r.mode = "stream" THEN IF c = "eof" THEN Met(r, "end", <<>>) ELSE ElementAt(r, i)
        ELSE IF r.mode = "closed" THEN Met(r, "end", <<>>)
        ELSE IF c = "]" /\ (r.count = 0 \/ ~r.expect)
             THEN IF SkipWs(r.text, i + 1) <= Len(r.text) THEN Fault(r)
                  ELSE Met([r EXCEPT !.mode = "closed"], "end", <<>>)
        ELSE IF c = "," /\ ~r.expect THEN ElementAt([r EXCEPT !.expect = TRUE], SkipWs(r.text, i + 1))
        ELSE IF r.expect THEN ElementAt(r, i) ELSE Fault(r))))

\* sample: the first elements name the columns, in the order their keys are seen.
RECURSIVE Sample(_)
Sample(r) ==
    IF Len(r.queue) >= SampleRows THEN Met(r, "row", <<>>)
    ELSE With(NextElement(r), LAMBDA m :
         IF m.what # "row" THEN Met(m.reader, m.what, <<>>)
         ELSE LET keys == FoldLeft(
                                       LAMBDA h, p : IF Unescaped(p[1]) \in Range(h) THEN h ELSE Append(h, Unescaped(p[1])),
                                       r.header, m.row)
              IN  Sample([m.reader EXCEPT !.header = keys, !.queue = Append(@, m.row)]))

\* cell: null is NULL, a string is decoded, anything else keeps its text.
Cell(raw) == IF raw[1] = "n" THEN <<>> ELSE IF raw[1] = "quote" THEN <<Unescaped(raw)>> ELSE <<raw>>

\* The last value of a key counts; a key the sample did not have is noted.
Cells(header, pairs) ==
    [n \in DOMAIN header |->
        With({i \in DOMAIN pairs : Unescaped(pairs[i][1]) = header[n]}, LAMBDA mine :
            IF mine = {} THEN <<>> ELSE Cell(pairs[Max(mine)][2]))]

Noted(r, pairs) ==
    FoldLeft(LAMBDA u, p : IF Len(u) < MaxUnmapped /\ Unescaped(p[1]) \notin Range(r.header) \cup Range(u)
                           THEN Append(u, Unescaped(p[1])) ELSE u, r.unmapped, pairs)

\* JsonSource::next_row
JsonNext(r) ==
    With(IF r.queue = <<>> THEN NextElement(r) ELSE Met([r EXCEPT !.queue = Tail(@)], "row", Head(r.queue)), LAMBDA m :
        IF m.what # "row" THEN m
        ELSE Met([m.reader EXCEPT !.unmapped = Noted(r, m.row)], "row", Cells(r.header, m.row)))

-----------------------------------------------------------------------------
(* The import: its plan, and the literal of a value.                       *)

Name(t) == Fold(t)
ColumnsNamed(t) == {c \in DOMAIN job.columns : Name(job.columns[c][1]) = Name(t)}

\* resolve, kind_of: the type of a target, in the server's answer; none if it gave no answer.
KindOf(t) == IF ColumnsNamed(t) = {} THEN Absent ELSE job.columns[Min(ColumnsNamed(t))][2]

\* plan_rows: the fields of COLUMNS, or the header's.
Target(source, name) == [source |-> source, name |-> name, kind |-> KindOf(name)]
Targets(r) ==
    IF r.mapping # <<>> THEN [i \in DOMAIN r.mapping |-> Target(r.mapping[i].source, r.mapping[i].target)]
    ELSE [i \in DOMAIN r.header |-> Target(i, r.header[i])]

\* A field of COLUMNS that does not name the key it read.
NoName == <<"none">>

\* check_columns_against: the file has changed since COLUMNS was made from its keys.
Stale(r) ==
    \E i \in DOMAIN r.mapping : With(r.mapping[i], LAMBDA f :
        f.source \notin DOMAIN r.header \/ (f.name # NoName /\ f.name # r.header[f.source]))

\* rules_of, encoding_of, and what import_rows_file refuses before it connects.
SettingsHold ==
    /\ job.grouping # Absent => job.decimal # Absent
    /\ job.decimal # Absent => /\ job.decimal # job.grouping
                               /\ ~ IsDigit(job.decimal) /\ job.decimal \notin {"+", "-"}
                               /\ job.format = "csv"
    /\ job.pattern # <<>> => PatternHolds(job.pattern)
    /\ job.format # "csv" => job.page = "utf8"

\* missing_targets, and formats that need types the server does not tell.
PlanHolds(r) ==
    /\ Targets(r) # <<>>
    /\ job.columns # <<>> => \A i \in DOMAIN Targets(r) : ColumnsNamed(Targets(r)[i].name) # {}
    /\ job.columns = <<>> => job.decimal = Absent /\ job.pattern = <<>>

\* NULL_TEXT: an empty one is no rule for JSON.
IsNullText(t) == t = job.nullText /\ (job.format = "csv" \/ t # <<>>)
Blank(t) == job.format = "csv" /\ t = <<>>

\* ragged: only empty fields behind the last are let through.
Ragged(cells, width) ==
    \/ Len(cells) < width /\ ~ job.short
    \/ \E i \in width + 1 .. Len(cells) : cells[i] # <<<<>>>>

\* row_is_empty; a short row has nothing in the cells it lacks.
CellAt(cells, i) == IF i \in DOMAIN cells THEN cells[i] ELSE <<<<>>>>
RowEmpty(cells, targets) ==
    \A i \in DOMAIN targets : \/ targets[i].source \notin DOMAIN cells
                              \/ With(cells[targets[i].source], LAMBDA c : c = <<>> \/ Blank(c[1]) \/ IsNullText(c[1]))

\* is_number, is_whole
IsNumber(t) == Spelled(Trim(t)) # <<>>
IsWhole(t) ==
    With(Spelled(Trim(t)), LAMBDA n : With(n[2] \o n[3], LAMBDA digits :
        Range(digits) = {"0"} \/ n[4] - Len(n[3]) + TrailingZeros(digits) >= 0))

Word(t) == Fold(Trim(t)) \in {<<"n", "a", "n">>, <<"i", "n", "f">>, <<"-", "i", "n", "f">>}

\* zulu_as_offset
ZuluAsOffset(t) ==
    With(Trim(t), LAMBDA z :
        IF Len(z) > 1 /\ Last(z) = "Z" /\ IsDigit(z[Len(z) - 1]) THEN Front(z) \o <<"+", "0", "0", ":", "0", "0">>
        ELSE t)

\* read_values, of one value: the text as the target's type says to read it, or nothing.
Whole(kind, t) == IF kind = "int" /\ IsNumber(t) /\ ~ IsWhole(t) THEN <<>> ELSE <<t>>
ReadValue(kind, t) ==
    CASE kind \in {"int", "num"} ->
            IF job.decimal = Absent \/ Word(t) THEN Whole(kind, t)
            ELSE With(NormalizeNumber(t, job.decimal, job.grouping), LAMBDA n :
                     IF n = <<>> THEN <<>> ELSE Whole(kind, n))
      [] kind \in {"date", "ts"} /\ job.pattern # <<>> ->
            With(ReadDate(job.pattern, t), LAMBDA d :
                IF d = <<>> THEN <<>> ELSE IF kind = "date" THEN <<d[1]>> ELSE <<d[1] \o <<" ">> \o d[2]>>)
      [] kind = "ts" /\ job.dialect = "mysql" -> <<ZuluAsOffset(t)>>
      [] OTHER -> <<t>>

\* read_values: the row with its values read, or nothing.
ReadValues(cells, targets) ==
    LET at(i) == {n \in DOMAIN targets : targets[n].source = i}
        left(i) == i \notin DOMAIN cells \/ cells[i] = <<>> \/ IsNullText(cells[i][1]) \/ Blank(cells[i][1])
        read == [i \in DOMAIN cells |-> IF at(i) = {} \/ left(i) THEN cells[i]
                                        ELSE ReadValue(targets[Max(at(i))].kind, cells[i][1])]
    IN  IF \E i \in DOMAIN cells : read[i] = <<>> /\ cells[i] # <<>> THEN <<>> ELSE read

\* literal: bare if the column is a number's and the text is one, a truth value by its words.
ImportLiteral(cell, kind) ==
    LET text == cell[1]
        word == Fold(Trim(text))
    IN  IF cell = <<>> THEN <<"NULL">>
        ELSE IF IsNullText(text) THEN <<"NULL">>
        ELSE IF kind \in {"int", "num"} /\ IsNumber(text) THEN text
        ELSE IF kind = "bool" /\ word \in {<<"t", "r", "u", "e">>, <<"t">>, <<"1">>} THEN <<"TRUE">>
        ELSE IF kind = "bool" /\ word \in {<<"f", "a", "l", "s", "e">>, <<"f">>, <<"0">>} THEN <<"FALSE">>
        ELSE QuotedText(job.dialect, text)

\* insert_statement, of one row.
InsertStatement(cells, targets) ==
    InsertInto(job.dialect, QualifiedName(job.dialect, job.table), [i \in DOMAIN targets |-> targets[i].name])
      \o Tuple([i \in DOMAIN targets |-> ImportLiteral(CellAt(cells, targets[i].source), targets[i].kind)])

-----------------------------------------------------------------------------
(* The server's own reading of a script: names, strings and words.         *)

Marks == {",", "(", ")", ";", "nl", " ", "insert", "values"}

RECURSIVE Lex(_, _)
Lex(d, t) ==
    IF t = <<>> THEN <<>>
    ELSE IF t[1] \in {"'", IdentQuote(d)}
         THEN With(QuotedRun(t, 2, t[1], d = "mysql" /\ t[1] = "'"), LAMBDA q :
              <<[kind |-> IF t[1] = "'" THEN "text" ELSE "name", text |-> q[1]]>> \o Lex(d, SubSeq(t, q[2], Len(t))))
    ELSE IF t[1] \in Marks THEN <<[kind |-> t[1], text |-> <<>>]>> \o Lex(d, Tail(t))
    ELSE With(Max({n \in DOMAIN t : \A i \in 1 .. n : t[i] \notin Marks \cup {"'", IdentQuote(d)}}), LAMBDA n :
         <<[kind |-> "word", text |-> SubSeq(t, 1, n)]>> \o Lex(d, SubSeq(t, n + 1, Len(t))))

\* Its statements: the names before VALUES, and the rows after it.
TokenCell(token) ==
    IF token.kind # "word" THEN <<token.text>>
    ELSE IF token.text = <<"NULL">> THEN <<>>
    ELSE IF token.text = <<"TRUE">> THEN <<<<"t", "r", "u", "e">>>>
    ELSE IF token.text = <<"FALSE">> THEN <<<<"f", "a", "l", "s", "e">>>> ELSE <<token.text>>

Server(d, t) ==
    LET last(s) == Len(s.statements)
        step(s, token) ==
            CASE token.kind = "insert" ->
                    [s EXCEPT !.statements = Append(@, [names |-> <<>>, rows |-> <<>>]), !.rows = FALSE]
              [] token.kind = "values" -> [s EXCEPT !.rows = TRUE]
              [] token.kind = "name" /\ ~ s.rows -> [s EXCEPT !.statements[last(s)].names = Append(@, token.text)]
              [] token.kind = "(" -> [s EXCEPT !.tuple = <<>>]
              [] token.kind = ")" /\ s.rows -> [s EXCEPT !.statements[last(s)].rows = Append(@, s.tuple)]
              [] token.kind = ";" -> [s EXCEPT !.rows = FALSE]
              [] token.kind \in {"word", "text"} /\ s.rows /\ token.text \notin {<<"X">>, <<"decode">>} ->
                    [s EXCEPT !.tuple = Append(@, TokenCell(token))]
              [] OTHER -> s
    IN  FoldLeft(step, [statements |-> <<>>, tuple |-> <<>>, rows |-> FALSE], Lex(d, t)).statements

-----------------------------------------------------------------------------
(* The steps.                                                              *)

FileHead ==
    CASE job.format = "csv" -> DelimitedHead
      [] job.format = "json" -> <<"[", "nl">>
      [] job.format \in {"xml", "html"} -> PageHead
      [] OTHER -> <<>>

Closed == [pc |-> "closed", text |-> <<>>, at |-> 1, mode |-> "unstarted", expect |-> TRUE, count |-> 0,
           header |-> <<>>, queue |-> <<>>, unmapped |-> <<>>, width |-> 0, mapping |-> <<>>]

Init ==
    /\ job \in Jobs
    /\ rows = <<>>
    /\ out = IF job.given = <<>> THEN FileHead ELSE job.given
    /\ wr = [open |-> job.given = <<>>, first |-> TRUE, buffer |-> <<>>, damage |-> "no"]
    /\ rd = [Closed EXCEPT !.mapping = job.mapping]
    /\ got = <<>>

\* Writer::write_row.
WriteRow(row) ==
    /\ wr.open /\ Len(rows) < MaxRows
    /\ rows' = Append(rows, row)
    /\ LET buffer == Append(wr.buffer, SqlTuple(row))
           full   == Len(buffer) >= job.perInsert
       IN  IF job.format = "sql"
           THEN /\ out' = out \o IF full THEN Flushed(buffer) ELSE <<>>
                /\ wr' = [wr EXCEPT !.buffer = IF full THEN <<>> ELSE buffer]
           ELSE /\ out' = out \o CASE job.format = "csv" -> DelimitedRow(row)
                                   [] job.format \in {"json", "jsonl"} -> Encode("utf8", JsonRow(row))
                                   [] OTHER -> PageRow(row)
                /\ wr' = [wr EXCEPT !.first = FALSE]
    /\ UNCHANGED <<job, rd, got>>

\* Writer::finish.
Finish ==
    /\ wr.open
    /\ wr' = [wr EXCEPT !.open = FALSE, !.buffer = <<>>]
    /\ out' = out \o CASE job.format \in {"json", "jsonl"} -> JsonTail
                       [] job.format = "sql" -> Flushed(wr.buffer)
                       [] job.format \in {"xml", "html"} -> PageTail
                       [] OTHER -> <<>>
    /\ UNCHANGED <<job, rows, rd, got>>

Comes == job.format \in {"csv", "json", "jsonl"} /\ ~ wr.open /\ rd.pc = "closed"

\* The file is cut short, or gets a character.
Damage(at, c) ==
    /\ Comes /\ wr.damage = "no"
    /\ out' = SubSeq(out, 1, at) \o IF c = "cut" THEN <<>> ELSE <<c>> \o SubSeq(out, at + 1, Len(out))
    /\ wr' = [wr EXCEPT !.damage = c]
    /\ UNCHANGED <<job, rows, rd, got>>

\* Sample or header: what a reader knows when it is open, or the fault it met.
Opened ==
    LET csv  == job.format = "csv"
        text == Decode(IF csv THEN job.page ELSE "utf8", out)
        r    == [rd EXCEPT !.pc = "rows", !.text = text]
        past == IF At(text, 1) = "bom" /\ job.page = "utf8" THEN 2 ELSE 1
    IN  IF ~ csv THEN Sample(r)
        ELSE IF ~ Scan(job.page, out) THEN Fault(r)
        ELSE IF ~ job.header THEN Met([r EXCEPT !.at = past], "row", <<>>)
        ELSE With(CsvRow([r EXCEPT !.at = past]), LAMBDA m :
             Met([m.reader EXCEPT !.header = [i \in DOMAIN m.row |-> m.row[i][1]], !.width = Len(m.row)], "row", <<>>))

\* preview_json: the sheet maps the keys it is shown, each to the column of its name.
Preview ==
    /\ Comes /\ job.preview /\ rd.mapping = <<>> /\ wr.damage = "no"
    /\ LET m == Opened IN
       /\ m.what # "fault" /\ m.reader.header # <<>>
       /\ rd' = [rd EXCEPT !.mapping = [i \in DOMAIN m.reader.header |->
                    [source |-> i, target |-> m.reader.header[i], name |-> m.reader.header[i]]]]
    /\ UNCHANGED <<job, rows, out, wr, got>>

\* import_rows_file, up to the first row.
Open ==
    /\ Comes
    /\ rd' = IF ~ SettingsHold THEN [rd EXCEPT !.pc = "refused"]
             ELSE With(Opened, LAMBDA m :
                  IF \/ m.what = "fault"
                     \/ job.format # "csv" /\ (m.reader.header = <<>> \/ Stale(m.reader))
                     \/ ~ PlanHolds(m.reader)
                  THEN [rd EXCEPT !.pc = "refused"] ELSE m.reader)
    /\ UNCHANGED <<job, rows, out, wr, got>>

\* import_rows: the next row, with ON_ERROR=skip and one row to a statement.
Stored(cells, width) ==
    LET targets == Targets(rd)
        read == ReadValues(cells, targets)
    IN  IF (job.format = "csv" /\ Ragged(cells, width)) \/ RowEmpty(cells, targets) \/ read = <<>> THEN <<>>
        ELSE Server(job.dialect, InsertStatement(read, targets))

NextRow ==
    /\ rd.pc = "rows"
    /\ LET m == IF job.format = "csv" THEN CsvRow(rd) ELSE JsonNext(rd)
           width == IF rd.width = 0 THEN Len(m.row) ELSE rd.width
       IN  IF m.what # "row" THEN rd' = [m.reader EXCEPT !.pc = m.what] /\ UNCHANGED got
           ELSE /\ rd' = [m.reader EXCEPT !.width = width]
                /\ got' = Append(got, Stored(m.row, width))
    /\ UNCHANGED <<job, rows, out, wr>>

Next ==
    \/ \E row \in job.pool : WriteRow(row)
    \/ Finish \/ Preview \/ Open \/ NextRow
    \/ \E c \in job.damage : \E at \in 0 .. Len(out) : Damage(at, c)

Spec == Init /\ [][Next]_vars

-----------------------------------------------------------------------------
(* What the files are for.                                                 *)

Names(targets) == [i \in DOMAIN targets |-> targets[i].name]
TableParts == Parts(job.table, <<>>, "none")
Row(targets, cells) == <<[names |-> TableParts \o Names(targets), rows |-> <<cells>>]>>

\* What a page makes of a text.
Held(t) == [i \in DOMAIN t |-> IF t[i] \in High \ DOMAIN Bytes[job.page] THEN "?" ELSE t[i]]

\* What a row is worth in the table it comes to: its texts; nothing if it has no value, or one an
\* integer column would round.
Midnight ==
    <<" ", "0", "0", ":", "0", "0", ":", "0", "0">> \o (IF "S" \in Range(job.pattern) THEN <<".", "0">> ELSE <<>>)
Worth(v, kind) ==
    IF v = Null \/ (Infinite(v) /\ job.format # "csv") THEN <<>>
    ELSE IF kind = "ts" /\ Foreign(v) THEN <<WriteDate(v[2]) \o Midnight>>
    ELSE With(Held(WriteText(v)), LAMBDA t : IF IsNullText(t) THEN <<>> ELSE <<t>>)

ValueFor(row, target) ==
    IF job.format = "csv" THEN row[target.source]
    ELSE row[Max({i \in DOMAIN row : job.names[i] = rd.header[target.source]})]

Rounded(v, kind) == kind = "int" /\ v[1] = "dec" /\ v[2] % (10 ^ v[3]) # 0

ComesTo(row) ==
    LET targets == Targets(rd)
        values == [n \in DOMAIN targets |-> ValueFor(row, targets[n])]
        cells == [n \in DOMAIN targets |-> Worth(values[n], targets[n].kind)]
    IN  IF \/ \A n \in DOMAIN cells : cells[n] = <<>> \/ Blank(cells[n][1])
           \/ \E n \in DOMAIN targets : Rounded(values[n], targets[n].kind)
        THEN <<>> ELSE Row(targets, cells)

\* A line of one empty field is an empty line.
Lines == SelectSeq(rows, LAMBDA row : job.format = "csv" /\ Len(row) = 1 => Held(Field(row[1])) # <<>>)

\* Every row that left comes back as it was, once, in order, or is refused for what it holds.
RowsReturn ==
    wr.damage = "no" /\ job.given = <<>> =>
        /\ rd.pc \in {"refused", "fault"} => job.refused \/ rows = <<>>
        /\ rd.pc = "end" => got = [i \in DOMAIN Lines |-> ComesTo(Lines[i])]

\* A JSON file by its grammar: objects with commas between them and a bracket behind, or one after
\* the other; <<>> where there is something else.
Depth(t) ==
    Max({Cardinality({j \in 1 .. i : t[j] \in {"{", "["}})
           - Cardinality({j \in 1 .. i : t[j] \in {"}", "]"}}) : i \in DOMAIN t})
IsElement(t) ==
    /\ t # <<>> /\ t[1] = "{" /\ "bad" \notin Range(t)
    /\ JsonValidate(t) /\ ObjectPairs(t) # Bad
    /\ Depth(t) <= MaxDepth /\ Len(t) <= MaxElement

RECURSIVE ObjectsOf(_, _)
ObjectsOf(t, array) ==
    LET ends == {i \in DOMAIN t : t[i] = "}" /\ IsElement(Trim(SubSeq(t, 1, i)))}
        rest == Trim(SubSeq(t, Min(ends) + 1, Len(t)))
    IN  IF ends = {} THEN <<<<>>>>
        ELSE <<Trim(SubSeq(t, 1, Min(ends)))>>
               \o IF rest = (IF array THEN <<"]">> ELSE <<>>) THEN <<>>
                  ELSE IF ~ array THEN ObjectsOf(rest, array)
                  ELSE IF At(rest, 1) = "," THEN ObjectsOf(Tail(rest), array) ELSE <<<<>>>>

Elements ==
    With(Trim(IF At(rd.text, 1) = "bom" THEN Tail(rd.text) ELSE rd.text), LAMBDA t :
        IF t = <<>> \/ (t[1] = "[" /\ Trim(Tail(t)) = <<"]">>) THEN <<>>
        ELSE ObjectsOf(IF t[1] = "[" THEN Tail(t) ELSE t, t[1] = "["))

KeysOf(element) == With(ObjectPairs(element), LAMBDA pairs : {Unescaped(pairs[i][1]) : i \in DOMAIN pairs})
ValueOfKey(element, key) ==
    With(ObjectPairs(element), LAMBDA pairs :
    With({i \in DOMAIN pairs : Unescaped(pairs[i][1]) = key}, LAMBDA mine :
        IF mine = {} THEN <<>> ELSE Cell(pairs[Max(mine)][2])))

\* A JSON file somebody changed is read to its end if and only if it still is one.  What was stored
\* of it stands under the keys it stood under in the file, and under those the sheet was shown; a
\* key that was left out is named.
FileRead ==
    job.format # "csv" /\ rd.pc \in {"rows", "end", "fault"} =>
        With(Elements, LAMBDA es :
            /\ rd.pc = "end" <=> rd.pc # "rows" /\ <<>> \notin Range(es)
            /\ rd.pc = "end" => Len(got) = Len(es)
            /\ \A i \in DOMAIN got :
                  /\ es[i] # <<>>
                  /\ got[i] # <<>> => got[i][1].rows[1] =
                        [n \in DOMAIN Targets(rd) |-> ValueOfKey(es[i], rd.header[Targets(rd)[n].source])]
                  /\ KeysOf(es[i]) \subseteq Range(rd.header) \cup Range(rd.unmapped) \/ Len(rd.unmapped) = MaxUnmapped
            /\ \A n \in DOMAIN rd.mapping : rd.mapping[n].name \in {NoName, rd.header[rd.mapping[n].source]})

\* A CSV file is refused before its first row if any byte of it is no character of its page; and a
\* delimiter too many moves no value into another column, unless the row ends with an empty field.
BytesRead == "bad" \in Range(Decode(job.page, out)) => rd.pc \in {"closed", "refused"} /\ got = <<>>
NoneMoved ==
    wr.damage = job.delim =>
        \A i \in DOMAIN got : got[i] # <<>> =>
            \/ \E row \in job.pool : got[i] = ComesTo(row)
            \/ \E row \in job.pool : Field(Last(row)) = <<>>

\* A number that is stored stands in the file as the declared separators write it; `1.5` is never 15.
Within(part, t) == \E i \in 0 .. Len(t) - Len(part) : SubSeq(t, i + 1, i + Len(part)) = part
NumbersRead ==
    job.decimal # Absent =>
        \A i \in DOMAIN got : got[i] # <<>> => \A n \in DOMAIN Targets(rd) :
            LET cell == got[i][1].rows[1][n]
            IN  Targets(rd)[n].kind \in {"int", "num"} /\ cell # <<>> =>
                    \/ Within(LocaleText(cell[1]), rd.text)
                    \/ Within(SelectSeq(LocaleText(cell[1]), LAMBDA c : c # job.grouping), rd.text)

\* A script replays to the rows, a few to a statement, whatever their texts hold.
ScriptWorth(v) ==
    IF v = Null \/ (Infinite(v) /\ job.dialect # "postgres") THEN <<>> ELSE <<WriteText(v)>>
ScriptReplays ==
    ~ wr.open /\ job.format = "sql" =>
        With(Server(job.dialect, out), LAMBDA statements :
            /\ FlattenSeq([i \in DOMAIN statements |-> statements[i].rows])
                 = [i \in DOMAIN rows |-> [n \in DOMAIN rows[i] |-> ScriptWorth(rows[i][n])]]
            /\ \A i \in DOMAIN statements : /\ statements[i].names = TableParts \o job.names
                                            /\ Len(statements[i].rows) \in 1 .. job.perInsert)

\* What a browser or a parser of XML makes of a page: the innermost elements, their texts resolved.
Resolved(t) ==
    LET named(c) == CHOOSE x \in DOMAIN Escapes : Escapes[x] = c
        step(s, c) == IF c = "&" THEN [s EXCEPT !.open = TRUE]
                      ELSE IF ~ s.open THEN [s EXCEPT !.text = Append(@, c)]
                      ELSE IF c = ";" THEN [s EXCEPT !.open = FALSE]
                      ELSE [s EXCEPT !.text = Append(@, IF c \in Range(Escapes) THEN named(c) ELSE c)]
    IN  FoldLeft(step, [text |-> <<>>, open |-> FALSE], t).text

Page(t) ==
    LET next(i, marks) == Min({j \in i + 1 .. Len(t) : t[j] \in marks} \cup {Len(t) + 1})
        tags == {i \in DOMAIN t : t[i] = "<" /\ At(t, next(i, {"<", ">"})) = ">"}
        word(i) == SubSeq(t, i + 1, next(i, {">"}) - 1)
        close(i) == Min({j \in tags : j > i} \cup {Len(t)})
        empty(i) == Last(word(i)) = "/"
        cells == {i \in tags : \/ empty(i)
                               \/ /\ word(i)[1] # "/" /\ word(i) # RootTag
                                  /\ close(i) \in tags /\ word(close(i))[1] = "/"}
        cell(i) == IF empty(i) THEN <<Front(word(i)), <<>>>>
                   ELSE <<word(i), Resolved(SubSeq(t, next(i, {">"}) + 1, close(i) - 1))>>
    IN  With(SelectSeq([i \in DOMAIN t |-> i], LAMBDA i : i \in cells),
             LAMBDA found : [n \in DOMAIN found |-> cell(found[n])])

PageShows ==
    ~ wr.open /\ job.format \in {"xml", "html"} =>
        LET html == job.format = "html"
            tag(n) == IF html THEN <<"t", "d">> ELSE XmlTag(job.names[n])
            shown(n, v) == IF v = Null THEN <<tag(n) \o <<"null">>, IF html THEN <<"N">> ELSE <<>>>>
                           ELSE <<tag(n), IF html THEN WriteText(v) ELSE Cleaned(WriteText(v))>>
            heads == IF html THEN [n \in DOMAIN job.names |-> <<<<"t", "h">>, job.names[n]>>] ELSE <<>>
        IN  Page(out) = heads \o FlattenSeq([i \in DOMAIN rows |-> [n \in DOMAIN rows[i] |-> shown(n, rows[i][n])]])

FilesTrue ==
    /\ RowsReturn /\ FileRead /\ ScriptReplays /\ PageShows
    /\ job.format = "csv" => BytesRead /\ NoneMoved /\ NumbersRead
=============================================================================
