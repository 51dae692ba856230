-------------------------------- MODULE MCFiles -------------------------------
(***************************************************************************)
(* The commands and what stands around them (MCCommands), and the files an *)
(* export writes and an import reads (RowFiles), each on its own bounds:   *)
(* `sheet` says whether this behaviour is about the files or is one of     *)
(* MCCommands; the other stays at one of its initial states.               *)
(***************************************************************************)
EXTENDS MCCommands

VARIABLES sheet, rfJob, rfRows, rfOut, rfWr, rfRd, rfGot

rfVars == <<rfJob, rfRows, rfOut, rfWr, rfRd, rfGot>>

\* Files: two columns of texts with every separator, quote and escape of the formats in them, numbers
\* and dates in a spreadsheet's spelling, code pages, files somebody cut or typed into, and settings
\* an import must refuse.
A == <<"a">>
B == <<"b">>
Txt(t) == <<"text", t>>
Num(n) == <<"int", n>>
Both(as, bs) == {<<a, b>> : a \in as, b \in bs}
Texts == {<<"null">>, Txt(<<>>), Txt(<<"a", ",", "quote">>), Txt(<<"'", "\\">>), Txt(<<"cr", "nl", "b">>)}
Typed(kind1, kind2) == <<<<A, kind1>>, <<B, kind2>>>>

FileJob ==
    [format |-> "csv", names |-> <<A, B>>, columns |-> Typed("text", "text"), pool |-> {}, delim |-> ",",
     header |-> TRUE, bom |-> FALSE, page |-> "utf8", nullText |-> <<>>, decimal |-> "none", grouping |-> "none",
     pattern |-> <<>>, dialect |-> "postgres", table |-> A, perInsert |-> 2, mapping |-> <<>>, short |-> FALSE,
     preview |-> FALSE, damage |-> {}, given |-> <<>>, refused |-> FALSE]

CsvJobs ==
    {[FileJob EXCEPT !.columns = Typed("int", "text"), !.pool = Both({<<"null">>, Num(-1)}, Texts),
                     !.dialect = "mysql", !.table = <<"a", ".", "b", "quote">>],
     [FileJob EXCEPT !.pool = Both({<<"null">>}, Texts \cup {Txt(<<"n">>)}), !.nullText = <<"n">>, !.bom = TRUE],
     [FileJob EXCEPT !.pool = {<<Txt(<<"eacute">>), Txt(<<"euro">>)>>, <<Txt(<<"euro", "a">>), <<"null">>>>},
                     !.page = "latin1", !.damage = {"cut", "80", "E9"}],
     [FileJob EXCEPT !.pool = {<<Txt(<<"eacute">>), Txt(<<"euro">>)>>}, !.bom = TRUE,
                     !.damage = {"cut", "80", "E9", "quote"}],
     [FileJob EXCEPT !.columns = Typed("int", "text"), !.pool = {<<Num(1), Txt(<<"a">>)>>, <<Num(2), <<"null">>>>},
                     !.damage = {",", "nl"}],
     [FileJob EXCEPT !.names = <<A>>, !.columns = <<<<A, "bool">>>>,
                     !.pool = {<<<<"bool", TRUE>>>>, <<<<"bool", FALSE>>>>, <<<<"null">>>>}],
     [FileJob EXCEPT !.header = FALSE, !.columns = <<>>, !.pool = Both({Num(1)}, Texts),
                     !.mapping = <<[source |-> 2, target |-> A, name |-> <<"none">>],
                                   [source |-> 1, target |-> B, name |-> <<"none">>]>>],
     [FileJob EXCEPT !.columns = Typed("int", "num"), !.decimal = ",", !.grouping = ".", !.damage = {"."},
                     !.pool = Both({Num(-1234567), <<"dec", 15, 1>>, <<"dec", 1500000, 3>>},
                                   {<<"dec", -1234567, 2>>, <<"null">>, Num(123)})],
     [FileJob EXCEPT !.columns = Typed("date", "ts"), !.damage = {"1"},
                     !.pattern = <<"d", "/", "M", "/", "y", "y", "'", "a", "'", "h", "h", "a",
                                   ":", "m", "m", "s", "s", "S">>,
                     !.pool = Both({<<"date", 0>>, <<"date", 11016>>}, {<<"date", 19782>>, <<"null">>})],
     [FileJob EXCEPT !.pattern = <<"y", "y", "y", "y", "M", "M", "d", "d", "+", "0">>, !.refused = TRUE,
                     !.pool = {<<<<"null">>, Num(1)>>}],
     [FileJob EXCEPT !.names = <<A, <<"B">>>>, !.columns = <<<<A, "int">>>>, !.refused = TRUE,
                     !.pool = {<<<<"null">>, Num(1)>>}]}

JsonJobs ==
    {[FileJob EXCEPT !.format = f, !.columns = Typed("int", "text"), !.pool = Both({<<"null">>, Num(-1)}, Texts),
                     !.dialect = "mysql"] : f \in {"json", "jsonl"}}
    \cup {[FileJob EXCEPT !.format = f, !.preview = p, !.pool = {<<Num(1), Txt(B)>>},
                          !.damage = {"cut", ",", "quote", "}", "]", "b", "1"}]
           : f \in {"json", "jsonl"}, p \in BOOLEAN}
    \cup {[FileJob EXCEPT !.format = "json", !.names = <<A, A>>, !.columns = <<<<A, "num">>>>,
                          !.pool = Both({<<"null">>, Num(1)},
                                        {<<"float", "nan", 0, 0>>, <<"float", "num", 25, -1>>, Num(3)})],
           [FileJob EXCEPT !.format = "json", !.refused = TRUE,
                          !.given = <<"bom", "{", "quote", "a", "quote", ":", "[", "[", "1", "]", "]", "}">>]}

PageJobs ==
    {[FileJob EXCEPT !.format = f, !.names = <<<<"1", "a">>, B>>,
                     !.pool = Both({<<"null">>, Txt(<<"&", "<">>), Txt(<<"quote", "nul", ">">>)},
                                   {Txt(<<>>), Txt(<<"'">>)})] : f \in {"xml", "html"}}

ScriptJobs ==
    {[FileJob EXCEPT !.format = "sql", !.dialect = d, !.names = <<<<"tick", "quote">>, B>>,
                     !.table = <<"quote", "a", ".", "b", "quote", ".", "a">>,
                     !.pool = Both({<<"null">>, Num(-1), <<"bool", TRUE>>, <<"bytes", <<1>>>>,
                                    <<"float", "nan", 0, 0>>}, Texts)]
       : d \in {"postgres", "mysql", "trino"}}

Rf == INSTANCE RowFiles WITH
    Second <- 10, Fraction <- 1, MaxDigits <- 12, MinExp <- -9, MaxExp <- 9, MaxRun <- 2,
    Jobs <- CsvJobs \cup JsonJobs \cup PageJobs \cup ScriptJobs,
    MaxRows <- 2, SampleRows <- 1, MaxUnmapped <- 1, MaxDepth <- 2, MaxElement <- 40,
    job <- rfJob, rows <- rfRows, out <- rfOut, wr <- rfWr, rd <- rfRd, got <- rfGot

-----------------------------------------------------------------------------

FilesInit ==
    /\ sheet \in {"none", "files"}
    /\ (sheet # "none" => part = "script") /\ CommandsInit
    /\ (sheet # "files" => rfJob = CHOOSE j \in CsvJobs : TRUE) /\ Rf!Init

CommandStep == sheet = "none" /\ CommandsNext /\ UNCHANGED <<sheet, rfVars>>
FilesStep == sheet = "files" /\ Rf!Next /\ UNCHANGED <<sheet, CommandsVars>>

FilesNext == CommandStep \/ FilesStep

FilesSpec == FilesInit /\ [][FilesNext]_<<sheet, CommandsVars, rfVars>>

-----------------------------------------------------------------------------

\* What is in a file is what was in the table.  Rows that leave as CSV or JSON come back as they were,
\* in order, or are refused for what they hold; a number or a date is stored as the declared spelling
\* says or not at all; a JSON file somebody cut or typed into is read to its end exactly if it still
\* is one, nothing of it stands under another key, and a key left out is named; a CSV file with a byte
\* of no character is refused before its first row, and a stray delimiter moves no value; a script
\* replays to the rows in every dialect, and a page shows them (csv_source.rs scan, json_source.rs
\* next_element, values.rs, import.rs check_columns_against "importing by position would put one
\* key's values in another's column", ragged, writers.rs).  Three exceptions of the code's: a
\* character the file's encoding has no sign for leaves as `?`; a CSV row of one empty field is an
\* empty line, which the reader skips; and a stray delimiter may move values in a row whose last
\* field is empty, because `ragged` takes the empty field for the end of the line.
FilesTrue == sheet = "files" => Rf!FilesTrue
=============================================================================
