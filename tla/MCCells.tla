------------------------------- MODULE MCCells --------------------------------
(***************************************************************************)
(* The work on a database (MCEngines) and what becomes of its values: the  *)
(* readings of a text (TextReadings) and the cells of a chunk (Columnar),  *)
(* each on its own bounds: `sheet` says which of the two this behaviour is *)
(* about, or that it is one of MCEngines; everything else stays at one of  *)
(* its initial states.                                                     *)
(***************************************************************************)
EXTENDS MCEngines, Integers

VARIABLES
    sheet,
    ctReading, ctText,
    clPalette, clBuilder, clChunks, clDisk, clNonce, clStats, clFailed, clSource

ctVars == <<ctReading, ctText>>
clVars == <<clPalette, clBuilder, clChunks, clDisk, clNonce, clStats, clFailed, clSource>>

Null == <<"null">>
NoZone == "none"
Lowest == -2

\* Texts.

TextAlphabets ==
    [number |-> {"0", "1", "-", "+", ".", "e", " "},
     array  |-> {"[", "]", ",", "quote", "1", "\\"},
     object |-> {"{", "}", ",", ":", "quote", "1"},
     sort   |-> {"a", "A", "b", "1", "0", " ", "^", "-", "W"}]

TextLongest == [number |-> 5, array |-> 5, object |-> 6, sort |-> 4]

Numbers == {<<"0">>, <<"-", "0">>, <<"1">>, <<"0", ".", "1">>, <<"1", "0">>, <<"1", "e", "1">>, <<"-", "1", "1">>,
            <<"1", "0", "1">>, <<"1", ".", "1">>, <<"-", ".", "0", "1">>}

Sorts == {<<>>, <<"1">>, <<"0", "1">>, <<"1", "0">>, <<"a">>, <<"A">>, <<"a", "^">>, <<"a", "b">>, <<"^">>,
          <<"A", "1">>, <<"1", "a">>, <<" ", "a">>, <<"-", "1">>, <<"W", "a">>, <<"b", "0", "1">>}

Decs == {-120, -5, 0, 7, 100, 999}

TextDays == {-719528, -719163, -141428, -141427, -25567, -1, 0, 58, 59, 789, 790, 11015, 11016, 11322, 47540, 47541}

\* Results.

T(v) == <<"text", v>>
Row(v) == <<v, T(<<"1">>)>>

\* The rows of each palette: cells that agree, and cells that make the column tagged.
CellPalettes ==
    [decimals |-> {Row(<<"dec", 15, 1>>), Row(<<"dec", -5, 2>>), Row(<<"dec", 100, 1>>), <<Null, Null>>},
     stamps   |-> {Row(<<"ts", 5>>), Row(<<"tsz", 5, 3600>>), Row(<<"tsz", -7, -5400>>), Row(<<"tsz", 5, 90>>)},
     spans    |-> {Row(<<"interval", 1, 0, -3>>), Row(<<"interval", 0, 2, 11>>), Row(<<"time", 11>>), <<Null, T(<<>>)>>},
     texts    |-> {Row(T(<<"1", "1", "1", "1", "1", "1">>)), <<T(<<"[", "]">>), T(<<"[", "]">>)>>, Row(<<"json", <<"{", "}">>>>), <<T(<<>>), Null>>},
     nested   |-> {Row(<<"array", <<<<"int", 1>>, <<"array", <<Null>>>>>>>>), Row(<<"map", <<<<<<"int", 1>>, T(<<"a">>)>>>>>>),
                   Row(<<"array", <<<<"array", <<<<"row", <<Null>>>>>>>>>>>>), Row(<<"bytes", <<17>>>>)},
     others   |-> {Row(<<"unknown", <<"a">>, <<>>, <<<<1>>>>>>), Row(<<"unknown", <<>>, <<<<"b">>>>, <<<<2, 3>>>>>>),
                   Row(<<"unknown", <<>>, <<>>, <<>>>>), Row(<<"float", "num", 15, -1>>)},
     numbers  |-> {Row(<<"int", 1>>), Row(<<"uint", 1>>), Row(<<"bool", TRUE>>), Row(<<"date", 3>>)},
     arrow    |-> {Row(Null)}]

Array(type, raw) == [type |-> type, valid |-> [r \in DOMAIN raw |-> TRUE], raw |-> raw, kids |-> <<>>]
Nest(type, valid, raw, kids) == [type |-> type, valid |-> valid, raw |-> raw, kids |-> kids]
Ints == Array(<<"int">>, <<1, 2, 3, 4>>)
Texts2 == Array(<<"utf8">>, <<<<"{", "}">>, <<"1">>>>)
TF == <<TRUE, FALSE>>
TT == <<TRUE, TRUE>>

CellBatches ==
    {[arrays |-> <<a, Texts2>>, json |-> {2}] :
        a \in {Array(<<"timestamp", "ns", "Paris">>, <<-15, 995>>), Array(<<"timestamp", "s", NoZone>>, <<100, 3>>),
               Array(<<"timestamp", "us", "Mars">>, <<1, 2>>), Array(<<"decimal", -2>>, <<3, 20>>),
               Array(<<"duration", "ms">>, <<1, 500>>), Array(<<"interval", "ns">>, <<<<0, 1, -15>>, <<1, 0, 20>>>>),
               Nest(<<"list">>, TF, <<<<1, 3>>, <<3, 4>>>>, <<Ints>>), Nest(<<"fixed", 2>>, TT, <<0, 0>>, <<Ints>>),
               Nest(<<"struct">>, TF, <<0, 0>>, <<Ints, Array(<<"view">>, <<0, 0>>)>>),
               Nest(<<"map">>, TT, <<<<0, 1>>, <<1, 2>>>>, <<Texts2, Ints>>),
               Nest(<<"union">>, TT, <<<<2, 1>>, <<1, 3>>>>, <<Ints, Array(<<"time", "ns">>, <<-15>>)>>),
               Nest(<<"dictionary">>, TF, <<2, 1>>, <<Texts2>>), Array(<<"float">>, <<<<"num", 1, -1>>, <<"nan", 0, 0>>>>)}}

CellZones == [Paris |-> [at |-> 50, before |-> 3600, after |-> 7200]]

Ct == INSTANCE TextReadings WITH
    Second <- 10, Fraction <- 1, MaxDigits <- 3, MinExp <- Lowest, MaxExp <- 1, MaxRun <- 255,
    Alphabets <- TextAlphabets, Longest <- TextLongest, NumberSamples <- Numbers,
    SortSamples <- Sorts, Days <- TextDays, Decimals <- Decs,
    reading <- ctReading, text <- ctText

Cl == INSTANCE Columnar WITH
    Second <- 10, Fraction <- 1, MaxDigits <- 3, MinExp <- Lowest, MaxExp <- 1, MaxRun <- 255,
    Palettes <- CellPalettes, Batches <- CellBatches, Zones <- CellZones,
    Structured <- {}, MaxRows <- 3, MaxNonce <- 3, ChunkMaxRows <- 2, ChunkTargetBytes <- 40,
    DecimalLimit <- 100, MaxScale <- 2, Nanos <- 10, MaxNanos <- 100, Milli <- 5,
    MaxMicros <- 900, MaxZoned <- 800, MaxDepth <- 2, WordBits <- 2,
    palette <- clPalette, builder <- clBuilder, chunks <- clChunks, disk <- clDisk,
    nonce <- clNonce, stats <- clStats, failed <- clFailed, source <- clSource

-----------------------------------------------------------------------------

CellsInit ==
    /\ sheet \in {"none", "text", "cells"}
    /\ (sheet # "none" => part = "postgres") /\ EnginesInit
    /\ (sheet # "text" => ctReading = "sort") /\ Ct!Init
    /\ (sheet # "cells" => clPalette = "arrow") /\ Cl!Init

EngineStep == sheet = "none" /\ EnginesNext /\ UNCHANGED <<sheet, ctVars, clVars>>
TextStep == sheet = "text" /\ Ct!Next /\ UNCHANGED <<sheet, EnginesVars, clVars>>
CellsStep == sheet = "cells" /\ Cl!Next /\ UNCHANGED <<sheet, EnginesVars, ctVars>>

CellsNext == EngineStep \/ TextStep \/ CellsStep

CellsSpec == CellsInit /\ [][CellsNext]_<<sheet, EnginesVars, ctVars, clVars>>

-----------------------------------------------------------------------------
(* The components' properties under their own names.                       *)

\* A cell is read as it was pushed, through sealing, encoding, spilling and damage; no chunk is over
\* the limits; SQL reads the texts the grid shows; a nonce seals one record (read.rs:3 "the exact
\* inverse of the encoding table"; spill.rs:5).  And the grid's readings of a text are what the text
\* means: the two readers of numbers agree and order numbers by value, the validator takes JSON and
\* nothing else but objects with a key that lacks its opening quote, one comparison of bytes is the
\* order the grid promises, and a date or a decimal is written as the day or the number it is
\* (collate.rs:14-18, render.rs json_validate, qh-core/src/render.rs).  SQL reads an empty text as
\* absent, and moments later by their offset where a column's offsets disagree (LogicalTrue).
CellsTrue == (sheet = "cells" => Cl!CellsKept) /\ (sheet = "text" => Ct!TextTrue)
=============================================================================
