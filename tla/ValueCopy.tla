----------------------------- MODULE ValueCopy -----------------------------
(***************************************************************************)
(* One value of one column on its way through a transfer: the source       *)
(* server holds it, the driver describes the column (describe.rs,          *)
(* decode.rs) and reads the value (normalize.rs, decode.rs), the transfer  *)
(* maps the type (transfer/types.rs), checks the names                     *)
(* (transfer/names.rs), fits a MySQL row, and encodes the value            *)
(* (transfer/encode.rs), and the target server stores what it is given.    *)
(*                                                                         *)
(* A value is what the code tells apart: an integer is its sign and its    *)
(* width in bits, a decimal its digits before and after the point and the  *)
(* number of decimals it is printed with, a text its characters, bytes and *)
(* trailing spaces, a moment its year, its hour and the digits of its      *)
(* fraction.  What a server does with a text it is given (rounding,        *)
(* padding, refusing) is the servers' own and marked external.             *)
(***************************************************************************)
EXTENDS Integers, Sequences, FiniteSets, Functions, TLC

CONSTANTS
    Columns,    \* [src, d, values]: a declared column and what its server may hold in it
    Targets,    \* the dialects written to
    Tables,     \* [names, others]: the columns' names, and the other columns' lengths in characters
    Offsets     \* the hours east of UTC a session or a value may be printed in

Unset == -1

VARIABLES
    pc,       \* "names" "map" "fit" "create" "value" "write" "done" "refused"
    col,      \* the source's column
    target,   \* the dialect of the target
    table,    \* the table it stands in, as its first column
    plan,     \* the planned columns: [sql, outcome, ty]
    held,     \* the value the source holds
    off,      \* the hours its server prints it east of UTC
    stored    \* what the target holds in the end

vars == <<pc, col, target, table, plan, held, off, stored>>

-----------------------------------------------------------------------------
(* The descriptor of a column (qh-driver sql_type.rs) and what each driver  *)
(* fills in.                                                                *)

Of(b) == [base |-> b, precision |-> Unset, scale |-> Unset, length |-> Unset,
          unsigned |-> FALSE, session |-> FALSE, fraction |-> Unset,
          decimals |-> Unset, element |-> <<>>]

Decimal(p, s) == [Of("Decimal") EXCEPT !.precision = p, !.scale = s]

Fraction(ty) == IF ty.fraction = Unset THEN 6 ELSE ty.fraction

IntBytes == [Int8 |-> 1, Int16 |-> 2, Int24 |-> 3, Int32 |-> 4, Int64 |-> 8]

(* A MySQL column definition packet: the length counts bytes of the        *)
(* character set, and for a decimal its sign and its point.                 *)
PacketLength(d) ==
    IF d.ty = "decimal"
    THEN d.n + (IF d.s > 0 THEN 1 ELSE 0) + (IF d.uns THEN 0 ELSE 1)
    ELSE IF d.n = Unset THEN 65535 ELSE d.n * d.w

MysqlInts == [tinyint |-> "Int8", smallint |-> "Int16", mediumint |-> "Int24",
              int |-> "Int32", bigint |-> "Int64"]

(* Bytes per character the driver's table of sets knows; one for another.  *)
MaxBytesPerChar(d) == IF d.known THEN d.w ELSE 1

MysqlSqlType(d) ==
    LET length == PacketLength(d)
        Chars(b) == [Of(b) EXCEPT !.length = length \div MaxBytesPerChar(d)]
        Sized == [Of("Binary") EXCEPT !.length = length]
        Timed(b, session) == [Of(b) EXCEPT !.session = session,
                                           !.fraction = IF d.s \in 0..6 THEN d.s ELSE Unset]
        Floating(b) == [Of(b) EXCEPT !.decimals = IF d.s < 31 THEN d.s ELSE Unset]
        precision == length - (IF d.s > 0 THEN 1 ELSE 0) - (IF d.uns THEN 0 ELSE 1)
    IN  CASE d.ty \in DOMAIN MysqlInts -> [Of(MysqlInts[d.ty]) EXCEPT !.unsigned = d.uns]
          [] d.ty = "year"      -> Of("Int16")
          [] d.ty = "float"     -> Floating("Float32")
          [] d.ty = "double"    -> Floating("Float64")
          [] d.ty = "decimal"   -> IF precision > 0 /\ d.s <= precision
                                   THEN Decimal(precision, d.s) ELSE Of("Other")
          [] d.ty = "date"      -> Of("Date")
          [] d.ty = "datetime"  -> Timed("Timestamp", FALSE)
          [] d.ty = "timestamp" -> Timed("Timestamp", TRUE)
          [] d.ty = "time"      -> Timed("Time", FALSE)
          [] d.ty = "json"      -> Of("Json")
          [] d.ty = "enum"      -> Of("Enum")
          [] d.ty = "set"       -> Of("Set")
          [] d.ty = "text"      -> Of("Text")
          [] d.ty = "blob"      -> Of("Binary")
          [] d.ty = "varchar"   -> Chars("Text")
          [] d.ty = "char"      -> Chars("Char")
          [] d.ty \in {"varbinary", "binary"} -> Sized
          [] OTHER              -> Of("Other")

(* The type modifier PostgreSQL sends: the length plus a header, or a       *)
(* numeric's precision and eleven-bit scale packed into one number.         *)
Typmod(d) ==
    CASE d.ty \in {"varchar", "bpchar"} -> IF d.n = Unset THEN Unset ELSE d.n + 4
      [] d.ty = "numeric" -> IF d.n = Unset THEN Unset ELSE d.n * 65536 + (d.s % 2048) + 4
      [] d.ty \in {"time", "timetz", "timestamp", "timestamptz"} -> d.s
      [] d.ty \in {"bit", "varbit"} -> d.n
      [] OTHER -> Unset

Numeric(typmod) ==
    LET packed == typmod - 4
        low    == packed % 2048
    IN  IF typmod < 4 THEN Of("Decimal")
        ELSE Decimal((packed \div 65536) % 65536, IF low >= 1024 THEN low - 2048 ELSE low)

PgBases == [bool |-> "Bool", bytea |-> "Binary", int8 |-> "Int64", int2 |-> "Int16",
            int4 |-> "Int32", float4 |-> "Float32", float8 |-> "Float64", text |-> "Text",
            uuid |-> "Uuid", date |-> "Date", interval |-> "Interval", json |-> "Json",
            jsonb |-> "Jsonb", enum |-> "Enum"]

PgSimple(ty, typmod) ==
    LET Sized(b) == [Of(b) EXCEPT !.length = IF typmod >= 4 THEN typmod - 4 ELSE Unset]
        Timed(b) == [Of(b) EXCEPT !.fraction = IF typmod >= 0 THEN typmod ELSE Unset]
    IN  CASE ty \in DOMAIN PgBases  -> Of(PgBases[ty])
          [] ty = "numeric"     -> Numeric(typmod)
          [] ty = "varchar"     -> Sized("Text")
          [] ty = "bpchar"      -> Sized("Char")
          [] ty = "time"        -> Timed("Time")
          [] ty = "timetz"      -> Timed("TimeTz")
          [] ty = "timestamp"   -> Timed("Timestamp")
          [] ty = "timestamptz" -> Timed("TimestampTz")
          [] ty \in {"bit", "varbit"} ->
                [Of(ty) EXCEPT !.length = IF typmod > 0 THEN typmod ELSE Unset]
          [] ty = "inet"        -> Of("inet")
          [] OTHER              -> Of("Other")

(* An array's modifier is its element's. *)
PgSqlType(d) ==
    IF d.ty = "array"
    THEN [Of("Array") EXCEPT !.element = <<PgSimple(d.el[1].ty, Typmod(d.el[1]))>>]
    ELSE PgSimple(d.ty, Typmod(d))

Builtins == {"bit", "varbit", "inet"}

TrinoBases == [boolean |-> "Bool", tinyint |-> "Int8", smallint |-> "Int16",
               integer |-> "Int32", bigint |-> "Int64", real |-> "Float32",
               double |-> "Float64", varbinary |-> "Binary", uuid |-> "Uuid", date |-> "Date",
               json |-> "Json", interval |-> "Interval", map |-> "Map", row |-> "Row"]

TrinoScalar(d) ==
    CASE d.ty \in DOMAIN TrinoBases -> Of(TrinoBases[d.ty])
      [] d.ty \in {"time", "timetz", "timestamp", "timestamptz"} ->
            [Of([time |-> "Time", timetz |-> "TimeTz", timestamp |-> "Timestamp",
                 timestamptz |-> "TimestampTz"][d.ty])
                EXCEPT !.fraction = IF d.s = Unset THEN 3 ELSE d.s]
      [] d.ty = "decimal" -> IF d.n = Unset THEN Decimal(38, 0)
                             ELSE Decimal(d.n, IF d.s = Unset THEN 0 ELSE d.s)
      [] d.ty = "varchar" -> [Of("Text") EXCEPT !.length = d.n]
      [] d.ty = "char"    -> [Of("Char") EXCEPT !.length = IF d.n = Unset THEN 1 ELSE d.n]
      [] OTHER            -> Of("Other")

TrinoSqlType(d) ==
    IF d.ty = "array" THEN [Of("Array") EXCEPT !.element = <<TrinoScalar(d.el[1])>>]
    ELSE TrinoScalar(d)

Described(s, d) == CASE s = "mysql"    -> MysqlSqlType(d)
                     [] s = "postgres" -> PgSqlType(d)
                     [] s = "trino"    -> TrinoSqlType(d)

-----------------------------------------------------------------------------
(* The type of the target column (transfer/types.rs).                       *)

T(t, a, b) == [t |-> t, a |-> a, b |-> b, el |-> <<>>]

PgOnly == {"Uuid", "TimeTz", "Timestamp", "TimestampTz", "Interval", "Jsonb", "Array"}
          \union Builtins

(* render: whether the dialect can declare the type at all. *)
Renders(ty, to) ==
    CASE ty.t = "Int"      -> to = "mysql" \/ (~ty.b /\ ty.a \in {2, 4, 8})
      [] ty.t = "Numeric"  -> to = "postgres" \/ ty.a # Unset
      [] ty.t = "DateTime" -> to = "mysql"
      [] ty.t \in PgOnly   -> to = "postgres"
      [] OTHER             -> TRUE

Refuse == [outcome |-> "Refuse", ty |-> T("", Unset, Unset)]
Mapped(outcome, ty, to) == IF Renders(ty, to) THEN [outcome |-> outcome, ty |-> ty] ELSE Refuse
Exact(ty, to)    == Mapped("Exact", ty, to)
Widened(ty, to)  == Mapped("Widened", ty, to)
Fallback(ty, to) == Mapped("TextFallback", ty, to)

PgVarcharMax    == 10485760
MysqlVarcharMax == 16383
MaxFraction     == 6

(* The text sizes of MySQL in bytes; the long one is beyond every instance. *)
TextCap(size) == IF size = "text" THEN 65535 ELSE 16777215

MysqlTextFor(n) ==
    CASE n = Unset             -> T("Text", "long", Unset)
      [] n <= MysqlVarcharMax -> T("Varchar", n, Unset)
      [] n <= 4194303         -> T("Text", "medium", Unset)     \* n * 4 <= 16,777,215
      [] OTHER                -> T("Text", "long", Unset)

MapInt(ty, to) ==
    LET bytes == IntBytes[ty.base] IN
    CASE to = "mysql"                        -> Exact(T("Int", bytes, ty.unsigned), to)
      [] bytes \in {2, 4, 8} /\ ~ty.unsigned -> Exact(T("Int", bytes, FALSE), to)
      [] bytes = 1                           -> Widened(T("Int", 2, FALSE), to)
      [] bytes \in {2, 3}                    -> Widened(T("Int", 4, FALSE), to)
      [] bytes = 4                           -> Widened(T("Int", 8, FALSE), to)
      [] OTHER                               -> Widened(T("Numeric", 20, 0), to)

MapDecimal(ty, to) ==
    LET scale == IF ty.scale = Unset THEN 0 ELSE ty.scale
        most  == IF to = "postgres" THEN 1000 ELSE 65
        Declarable == ty.precision \in 1..most /\ scale <= ty.precision
                      /\ (to = "mysql" => scale <= 30)
    IN  CASE scale < 0          -> Refuse
          [] ty.precision = Unset -> IF to = "postgres" THEN Exact(T("Numeric", Unset, 0), to)
                                    ELSE Widened(T("Numeric", 65, 30), to)
          [] OTHER -> IF Declarable THEN Exact(T("Numeric", ty.precision, scale), to) ELSE Refuse

MapText(ty, to) ==
    LET n == ty.length IN
    CASE to = "postgres" /\ n = Unset          -> Exact(T("Text", "text", Unset), to)
      [] to = "postgres" /\ n <= PgVarcharMax -> Exact(T("Varchar", n, Unset), to)
      [] to = "postgres"                      -> Widened(T("Text", "text", Unset), to)
      [] to = "mysql" /\ n \in 0..MysqlVarcharMax -> Exact(MysqlTextFor(n), to)
      [] OTHER                                -> Widened(MysqlTextFor(n), to)

MapChar(ty, from, to) ==
    LET n == ty.length IN
    CASE n = Unset          -> Refuse
      [] to = "postgres"   -> IF n <= PgVarcharMax THEN Exact(T("Char", n, Unset), to) ELSE Refuse
      [] n <= 255          -> IF from = "mysql" THEN Exact(T("Char", n, Unset), to)
                              ELSE Widened(T("Char", n, Unset), to)
      [] OTHER             -> Widened(MysqlTextFor(n), to)

(* Times of day and moments. *)
MapTimed(ty, from, to) ==
    LET digits == Fraction(ty)
        Zoned(t) == IF ty.session THEN Fallback(T(t, digits, Unset), to)
                    ELSE Exact(T(t, digits, Unset), to)
    IN  CASE digits > MaxFraction  -> Refuse
          [] ty.base = "Time"      -> Exact(T("Time", digits, Unset), to)
          [] ty.base = "TimeTz"    -> IF from = "trino" THEN Refuse
                                      ELSE Exact(T("TimeTz", digits, Unset), to)
          [] ty.base = "Timestamp" -> Zoned(IF to = "postgres" THEN "Timestamp" ELSE "DateTime")
          [] ty.base = "TimestampTz" ->
                IF to = "postgres" THEN Exact(T("TimestampTz", digits, Unset), to)
                ELSE Fallback(T("DateTime", digits, Unset), to)

MapScalar(ty, from, to) ==
    LET pg == to = "postgres" IN
    CASE ty.base = "Bool"    -> IF pg THEN Exact(T("Boolean", Unset, Unset), to)
                                ELSE Widened(T("Boolean", Unset, Unset), to)
      [] ty.base \in DOMAIN IntBytes -> MapInt(ty, to)
      [] ty.base = "Float32" -> IF from = "mysql" THEN Refuse
                                ELSE Exact(T("Float", FALSE, Unset), to)
      [] ty.base = "Float64" -> IF from = "mysql" /\ ty.decimals # Unset THEN Refuse
                                ELSE Exact(T("Float", TRUE, Unset), to)
      [] ty.base = "Decimal" -> MapDecimal(ty, to)
      [] ty.base = "Text"    -> MapText(ty, to)
      [] ty.base = "Char"    -> MapChar(ty, from, to)
      [] ty.base = "Binary"  -> IF pg THEN Exact(T("Binary", Unset, Unset), to)
                                ELSE IF ty.length \in 0..65535
                                THEN Exact(T("Binary", ty.length, Unset), to)
                                ELSE Widened(T("Binary", Unset, Unset), to)
      [] ty.base = "Uuid"    -> IF pg THEN Exact(T("Uuid", Unset, Unset), to)
                                ELSE Fallback(T("Char", 36, Unset), to)
      [] ty.base = "Date"    -> Exact(T("Date", Unset, Unset), to)
      [] ty.base \in {"Time", "TimeTz", "Timestamp", "TimestampTz"} -> MapTimed(ty, from, to)
      [] ty.base = "Interval" -> Exact(T("Interval", Unset, Unset), to)
      [] ty.base = "Json"    -> IF pg THEN Exact(T("Json", Unset, Unset), to)
                                ELSE Widened(T("Json", Unset, Unset), to)
      [] ty.base = "Jsonb"   -> IF pg THEN Exact(T("Jsonb", Unset, Unset), to)
                                ELSE Widened(T("Json", Unset, Unset), to)
      [] ty.base \in {"Map", "Row"} -> Fallback(T(IF pg THEN "Jsonb" ELSE "Json", Unset, Unset), to)
      [] ty.base \in {"Enum", "Set"} -> Fallback(IF pg THEN T("Text", "text", Unset)
                                                 ELSE T("Varchar", 255, Unset), to)
      [] ty.base \in Builtins -> IF ~pg \/ from # "postgres" \/ (ty.base = "bit" /\ ty.length = Unset)
                                 THEN Refuse ELSE Exact(T(ty.base, ty.length, Unset), to)
      [] OTHER               -> Refuse

(* An array goes as an array only when its element has an exact type. *)
MapArray(ty, from, to) ==
    LET element == ty.element[1]
        inner   == MapScalar(element, from, to)
        Typed   == /\ to = "postgres"
                   /\ element.base \notin {"Array", "Map", "Row"}
                   /\ inner.outcome = "Exact"
    IN  CASE Typed             -> Exact([T("Array", Unset, Unset) EXCEPT !.el = <<inner.ty>>], to)
          [] from = "postgres" -> Refuse
          [] OTHER -> Fallback(T(IF to = "postgres" THEN "Jsonb" ELSE "Json", Unset, Unset), to)

MapType(ty, from, to) ==
    IF ty.base = "Array" THEN MapArray(ty, from, to) ELSE MapScalar(ty, from, to)

-----------------------------------------------------------------------------
(* The names of the columns (transfer/names.rs): a name is its length in    *)
(* bytes and in characters, what it is when case is ignored, and the forms  *)
(* the rules single out ("plain", "unnamed", "space" at the end, "wide"     *)
(* outside the BMP, "empty", "nul").                                        *)

NameOK(n, to) ==
    /\ n.form \notin {"empty", "nul"}
    /\ IF to = "postgres" THEN n.bytes <= 63 /\ n.form # "unnamed"
       ELSE n.chars <= 64 /\ n.form \notin {"space", "wide"}

NamesOK(names, to) ==
    /\ \A i \in DOMAIN names : NameOK(names[i], to)
    /\ \A i, j \in DOMAIN names :
         i # j => IF to = "mysql" THEN names[i].fold # names[j].fold ELSE names[i] # names[j]

-----------------------------------------------------------------------------
(* Fitting the row (types.rs mysql_row_bytes, fit_mysql_row).               *)

DecimalBytes(digits) == (digits \div 9) * 4 + <<0, 1, 1, 2, 2, 3, 3, 4, 4>>[(digits % 9) + 1]

RowBytes(ty) ==
    LET Counted(bytes) == bytes + (IF bytes > 255 THEN 2 ELSE 1) IN
    CASE ty.t = "Boolean"  -> 1
      [] ty.t = "Int"      -> ty.a
      [] ty.t = "Numeric"  -> DecimalBytes(ty.a - ty.b) + DecimalBytes(ty.b)
      [] ty.t = "Float"    -> IF ty.a THEN 8 ELSE 4
      [] ty.t = "Varchar"  -> Counted(ty.a * 4)
      [] ty.t = "Char"     -> ty.a * 4
      [] ty.t = "Binary" /\ ty.a # Unset -> Counted(ty.a)
      [] ty.t = "Date"     -> 3
      [] ty.t = "Time"     -> 3 + (ty.a + 1) \div 2
      [] ty.t = "DateTime" -> 5 + (ty.a + 1) \div 2
      [] OTHER             -> 12

RowLimit == 65535

Total(columns) ==
    SumFunction([i \in DOMAIN columns |-> RowBytes(columns[i].ty)])

Demotable(ty) == ty.t \in {"Varchar", "Char"} \/ (ty.t = "Binary" /\ ty.a # Unset)

Demoted(ty) ==
    CASE ty.t = "Binary"        -> T("Binary", Unset, Unset)
      [] ty.a * 4 <= 65535      -> T("Text", "text", Unset)
      [] OTHER                  -> T("Text", "medium", Unset)

(* The widest column that has a bigger type to move to, the last of equals. *)
Widest(columns) ==
    LET able == {i \in DOMAIN columns : Demotable(columns[i].ty)}
        Bytes(i) == RowBytes(columns[i].ty)
    IN  CHOOSE i \in able : \A j \in able : Bytes(j) < Bytes(i) \/ (Bytes(j) = Bytes(i) /\ j <= i)

-----------------------------------------------------------------------------
(* Reading: what the driver makes of what the server prints, a Value's      *)
(* variant and the value it stands for.                                     *)

Read(variant, v) == [v |-> variant, x |-> v]

\* The year a moment falls in, and the moment moved by some hours.
YearOf(v) == IF v.hour < 0 THEN v.year - 1 ELSE IF v.hour >= 8760 THEN v.year + 1 ELSE v.year
Moved(v, hours) == [v EXCEPT !.hour = @ + hours]

\* as_decimal and parse_decimal: a scale of at most 38 and what an i128 holds.
AsDecimal(v) == Read(IF v.sent <= 38 /\ v.whole + v.sent <= 38 THEN "Decimal" ELSE "Text", v)

AsInteger(v) ==
    Read(CASE v.bits <= 63           -> "Int"
           [] v.bits = 64 /\ ~v.neg -> "UInt"
           [] OTHER                  -> "Text", v)

\* The parts are checked one by one: month and day are in 1..12 and 1..31, and the calendar carries
\* a day its month has not into the next one.
AsDate(v) ==
    CASE v.spec = "zero"   -> Read("Text", v)
      [] v.spec = "nosuch" -> Read("Date", [v EXCEPT !.spec = "plain"])
      [] OTHER             -> Read("Date", v)

AsTimestamp(v) ==
    CASE v.spec = "zero"   -> Read("Text", v)
      [] v.spec = "nosuch" -> Read("Timestamp", [v EXCEPT !.spec = "plain"])
      [] OTHER             -> Read("Timestamp", v)

\* A time that is not a time of day is an interval.
AsTime(v) == Read(IF v.hour \in 0..23 THEN "Time" ELSE "Interval", v)

\* The server prints a timestamp as the wall clock of the session.
ReadMysql(d, v, hours) ==
    LET printed == [Moved(v, IF d.ty = "timestamp" THEN hours ELSE 0) EXCEPT !.zoned = FALSE] IN
    CASE v.k = "int"   -> AsInteger(v)
      [] v.k = "float" -> Read("Float", v)
      [] v.k = "dec"   -> AsDecimal(v)
      [] v.k = "date"  -> AsDate(v)
      [] v.k = "ts"    -> AsTimestamp(printed)
      [] v.k = "time"  -> AsTime(v)
      [] v.k = "json"  -> Read("Json", v)
      [] v.k = "bytes" -> Read("Bytes", v)
      [] OTHER         -> Read("Text", v)

PgDecimal(v) == Read(IF v.sent <= 38 /\ v.whole + v.sent <= 38 THEN "Decimal" ELSE "Text", v)

\* A date before year 1 is printed with BC, which no number parses.
PgDays(v) == Read(IF v.spec = "infinity" \/ v.year < 1 THEN "Text" ELSE "Date", v)

\* parse_offset_seconds: no zone is more than fourteen hours away.
OffsetRead(hours) == hours \in -14..14

\* The last year whose microseconds are an i64; past it they wrap to the far past.
LastYear == 294246
Wrapped(v) == IF YearOf(v) > LastYear THEN [v EXCEPT !.year = 0 - 290308] ELSE v

\* The instant is the wall clock less the offset it was printed with.
PgMoment(v, hours) ==
    LET offset  == IF v.zoned THEN hours ELSE 0
        printed == Moved(v, offset)
    IN  IF v.spec = "infinity" \/ YearOf(printed) < 1 \/ ~OffsetRead(offset) THEN Read("Text", v)
        ELSE Read("Timestamp", Wrapped(Moved(printed, 0 - offset)))

\* The clock of an interval has no sign and no more than a day.
PgInterval(v) == Read(IF v.hours \in 0..24 THEN "Interval" ELSE "Text", v)

\* A float4's shortest text reads as a double, for the largest ones one above every float4.
Doubled(v) == IF v.f = "top" THEN [v EXCEPT !.f = "over"] ELSE v

ReadPg(v, hours) ==
    CASE v.k = "bool"     -> Read("Bool", v)
      [] v.k = "int"      -> Read("Int", v)
      [] v.k = "float"    -> Read("Float", Doubled(v))
      [] v.k = "dec"      -> PgDecimal(v)
      [] v.k = "bytes"    -> Read("Bytes", v)
      [] v.k = "date"     -> PgDays(v)
      [] v.k = "time"     -> Read("Time", v)
      [] v.k = "ts"       -> PgMoment(v, hours)
      [] v.k = "interval" -> PgInterval(v)
      [] v.k = "json"     -> Read("Json", v)
      [] OTHER            -> Read("Text", v)

Region == 99      \* a zone printed by its region's name

TrinoDecimal(v) == Read(IF v.whole + v.sent <= 38 THEN "Decimal" ELSE "Unknown", v)

\* A year before 0 is printed with a sign, which the split at the dashes does not read.
TrinoDate(v) == Read(IF v.year < 0 THEN "Unknown" ELSE "Date", v)

\* fraction_to_micros reads six digits.
TrinoTime(v) == Read(IF v.frac > MaxFraction THEN "Unknown" ELSE "Time", v)

TrinoMoment(v, hours) ==
    LET offset  == IF v.zoned THEN hours ELSE 0
        printed == Moved(v, offset)
    IN  IF v.frac > MaxFraction \/ offset = Region \/ YearOf(printed) < 0 THEN Read("Unknown", v)
        ELSE Read("Timestamp", Moved(printed, 0 - offset))

TrinoCell(v, hours) ==
    CASE v.k = "null"  -> Read("Null", v)
      [] v.k = "bool"  -> Read("Bool", v)
      [] v.k = "int"   -> Read("Int", v)
      [] v.k = "float" -> Read("Float", Doubled(v))
      [] v.k = "dec"   -> TrinoDecimal(v)
      [] v.k = "bytes" -> Read("Bytes", v)
      [] v.k = "date"  -> TrinoDate(v)
      [] v.k = "time"  -> TrinoTime(v)
      [] v.k = "ts"    -> TrinoMoment(v, hours)
      [] v.k = "interval" -> Read("Interval", v)
      [] v.k = "json"  -> Read("Json", v)
      [] v.k = "timetz" -> Read("Unknown", v)
      [] OTHER         -> Read("Text", v)

\* A map's keys arrive as strings; a row's fields only when they have no names.
KeyCell(v) == IF v.k = "bool" THEN Read("Unknown", v) ELSE TrinoCell(v, 0)

ReadTrino(v, hours) ==
    CASE v.k = "array" -> [v |-> "Array", x |-> v, els |-> <<TrinoCell(v.el[1], hours)>>,
                           keys |-> <<>>]
      [] v.k = "map"   -> [v |-> "Map", x |-> v, els |-> <<TrinoCell(v.el[1], hours)>>,
                           keys |-> <<KeyCell(v.key[1])>>]
      [] v.k = "row"   -> [v |-> "Row", x |-> v, keys |-> <<>>,
                           els |-> <<IF v.named THEN Read("Unknown", v.el[1])
                                     ELSE TrinoCell(v.el[1], hours)>>]
      [] OTHER         -> TrinoCell(v, hours)

ReadValue(c, v, hours) ==
    IF v.k = "null" THEN Read("Null", v)
    ELSE CASE c.src = "mysql"    -> ReadMysql(c.d, v, hours)
           [] c.src = "postgres" -> ReadPg(v, hours)
           [] c.src = "trino"    -> ReadTrino(v, hours)

-----------------------------------------------------------------------------
(* Writing (transfer/encode.rs): which variants a planned column takes, and *)
(* the value the text or the parameter it is written as stands for.         *)

IntFits(bytes, unsigned, v) ==
    IF unsigned THEN ~v.neg /\ v.bits <= 8 * bytes ELSE v.bits <= 8 * bytes - 1

\* A mutant: the digits before the point are not counted.
DecimalFitsScale(v, ty) == ty.a = Unset \/ v.frac <= ty.b

\* decimal_text: trailing zeros are dropped, nothing is rounded.
DecimalFits(v, ty) == ty.a = Unset \/ (v.frac <= ty.b /\ v.whole <= ty.a - ty.b)

FractionFits(v, digits) == digits >= 6 \/ v.frac <= digits

TextFits(v, ty) ==
    CASE ty.t \in {"Varchar", "Char"}          -> v.chars <= ty.a
      [] ty.t = "Text" /\ ty.a \in {"text", "medium"} -> v.bytes <= TextCap(ty.a)
      [] OTHER                                 -> TRUE

HasDuplicateKeys(j) == j.dup
JsonbTakes(j) == ~j.nul /\ ~HasDuplicateKeys(j) /\ j.num # "huge"
NumbersFitMysql(j) == j.num = "fits"
MysqlJsonTakes(j) == ~HasDuplicateKeys(j) /\ NumbersFitMysql(j)

\* date_text and timestamp_text: the years the target can have.
MysqlYears == 1000..9999
DateFits(v, to) == IF to = "mysql" THEN v.year \in MysqlYears ELSE v.year >= 1
MomentFits(v, sql, to) ==
    /\ v.zoned = (sql.base = "TimestampTz")
    /\ FractionFits(v, Fraction(sql))
    /\ IF to = "mysql" THEN YearOf(v) \in MysqlYears ELSE YearOf(v) >= 1

\* json_write: a cell of a composite as JSON, and the numbers MySQL keeps as they are written.
JsonWrites(r) ==
    CASE r.v \in {"Null", "Bool", "Int", "UInt", "Decimal", "Text", "Time"} -> TRUE
      [] r.v = "Float"     -> r.x.f \notin {"nan", "inf"}
      [] r.v = "Date"      -> DateFits(r.x, "postgres")
      [] r.v = "Timestamp" -> YearOf(r.x) >= 1
      [] r.v = "Json"      -> r.x.num # "huge"
      [] OTHER             -> FALSE

JsonKeyed(r) == \/ r.v \in {"Text", "Int", "UInt", "Bool", "Decimal"}
                \/ r.v = "Date" /\ DateFits(r.x, "postgres")

JsonNumber(r) ==
    CASE r.v = "Decimal" -> IF r.x.sent = 0 THEN r.x.whole <= 18 ELSE r.x.whole + r.x.frac <= 15
      [] r.v = "Float"   -> r.x.f # "huge"
      [] r.v = "Json"    -> r.x.num = "fits"
      [] OTHER           -> TRUE

\* A negative zero is written -0, which JSON's readers take for the integer 0.
Zeroed(v) == IF v.k = "float" /\ v.f = "negzero" THEN [v EXCEPT !.f = "zero"] ELSE v

JsonOf(r) ==
    LET cells == {r.els[i] : i \in DOMAIN r.els} \union {r.keys[i] : i \in DOMAIN r.keys} IN
    [k    |-> "jsonof",
     els  |-> [i \in DOMAIN r.els |-> Zeroed(r.els[i].x)],
     keys |-> [i \in DOMAIN r.keys |-> r.keys[i].x],
     dup  |-> \E e \in cells : e.v = "Json" /\ e.x.dup,
     nul  |-> \E e \in cells : e.v \in {"Text", "Json"} /\ e.x.k \in {"text", "json"} /\ e.x.nul,
     num  |-> IF \A i \in DOMAIN r.els : JsonNumber(r.els[i]) THEN "fits" ELSE "wide"]

Composite(base, r) ==
    /\ r.v = base
    /\ \A i \in DOMAIN r.els : JsonWrites(r.els[i])
    /\ \A i \in DOMAIN r.keys : JsonKeyed(r.keys[i])

\* The spellings PostgreSQL's driver leaves as text and its encoder forwards as they are.
ClosedDate(r) == r.v = "Text" /\ (r.x.spec = "infinity" \/ r.x.year < 1)
ClosedMoment(r, hours) ==
    /\ r.v = "Text"
    /\ r.x.spec = "infinity" \/ YearOf(IF r.x.zoned THEN Moved(r.x, hours) ELSE r.x) < 1
ClosedNumber(r, ty) == r.v = "Text" /\ r.x.k = "special" /\ (r.x.s = "NaN" \/ ty.a = Unset)

\* pg_value of a column that is not a composite.
PgCell(sql, ty, from, r, hours) ==
    LET pg == from = "postgres" IN
    CASE r.v = "Null"            -> TRUE
      [] sql.base = "Bool"       -> r.v = "Bool"
      [] sql.base \in DOMAIN IntBytes ->
            r.v \in {"Int", "UInt"} /\ IntFits(IntBytes[sql.base], sql.unsigned, r.x)
      [] sql.base \in {"Float32", "Float64"} -> r.v = "Float"
      [] sql.base = "Decimal"    -> \/ r.v = "Decimal" /\ DecimalFits(r.x, ty)
                                    \/ pg /\ ClosedNumber(r, ty)
      [] sql.base \in {"Text", "Char", "Enum", "Set"} ->
            /\ r.v = "Text" /\ ~r.x.nul
            /\ ty.t \in {"Varchar", "Char"} => TextFits(r.x, ty)
      [] sql.base = "Uuid"       -> r.v = "Text"
      [] sql.base = "Binary"     -> r.v = "Bytes"
      [] sql.base = "Date"       -> (r.v = "Date" /\ DateFits(r.x, "postgres")) \/ (pg /\ ClosedDate(r))
      [] sql.base = "Time"       -> /\ r.v = "Time" /\ r.x.hour \in 0..24
                                    /\ FractionFits(r.x, Fraction(sql))
      [] sql.base = "TimeTz"     -> pg /\ r.v = "Text"
      [] sql.base \in {"Timestamp", "TimestampTz"} ->
            \/ r.v = "Timestamp" /\ MomentFits(r.x, sql, "postgres")
            \/ pg /\ ClosedMoment(r, hours)
      [] sql.base = "Interval"   -> r.v = "Interval"
      [] sql.base = "Json"       -> r.v = "Json" /\ r.x.num # "huge"
      [] sql.base = "Jsonb"      -> r.v = "Json" /\ JsonbTakes(r.x)
      [] sql.base \in Builtins   -> pg /\ r.v = "Text"
      [] OTHER                   -> FALSE

PgValue(sql, ty, from, r, hours) ==
    CASE sql.base = "Array" /\ ty.t = "Array" ->
            IF from = "postgres" THEN r.v = "Null" \/ (r.v = "Text" /\ ~r.x.bounded)
            ELSE \/ r.v = "Null"
                 \/ /\ r.v = "Array"
                    /\ \A i \in DOMAIN r.els :
                         PgCell(sql.element[1], ty.el[1], from, r.els[i], hours)
      [] sql.base \in {"Array", "Map", "Row"} ->
            r.v = "Null" \/ (Composite(sql.base, r) /\ JsonbTakes(JsonOf(r)))
      [] OTHER -> PgCell(sql, ty, from, r, hours)

MysqlValue(sql, ty, r) ==
    CASE r.v = "Null"            -> TRUE
      [] sql.base = "Bool"       -> r.v = "Bool"
      [] sql.base \in DOMAIN IntBytes ->
            r.v \in {"Int", "UInt"} /\ IntFits(IntBytes[sql.base], sql.unsigned, r.x)
      [] sql.base \in {"Float32", "Float64"} ->
            /\ r.v = "Float" /\ r.x.f \notin {"nan", "inf"}
            /\ sql.base = "Float32" => r.x.f \notin {"huge", "tiny"}
      [] sql.base = "Decimal"    -> r.v = "Decimal" /\ DecimalFits(r.x, ty)
      [] sql.base \in {"Text", "Char", "Enum", "Set"} -> r.v = "Text" /\ TextFits(r.x, ty)
      [] sql.base = "Uuid"       -> r.v = "Text"
      [] sql.base = "Binary"     -> r.v = "Bytes" /\ (ty.a = Unset \/ r.x.len <= ty.a)
      [] sql.base = "Date"       -> r.v = "Date" /\ DateFits(r.x, "mysql")
      [] sql.base = "Time"       -> /\ r.v = "Time" /\ r.x.hour \in -838..838
                                    /\ FractionFits(r.x, Fraction(sql))
      [] sql.base \in {"Timestamp", "TimestampTz"} ->
            r.v = "Timestamp" /\ MomentFits(r.x, sql, "mysql")
      [] sql.base \in {"Json", "Jsonb"} -> r.v = "Json" /\ MysqlJsonTakes(r.x)
      [] sql.base \in {"Array", "Map", "Row"} ->
            Composite(sql.base, r) /\ MysqlJsonTakes(JsonOf(r))
      [] OTHER                   -> FALSE

\* What the field or the parameter says: a float4 is narrowed back for MySQL, a moment with a zone is
\* its UTC wall clock there, a composite is JSON unless the column is an array.
Said(sql, ty, to, r) ==
    CASE r.v = "Null" -> r.x
      [] sql.base \in {"Array", "Map", "Row"} /\ ty.t \in {"Json", "Jsonb"} -> JsonOf(r)
      [] r.v = "Array" -> [r.x EXCEPT !.el = <<r.els[1].x>>]
      [] to = "mysql" /\ sql.base = "Float32" /\ r.x.f = "over" -> [r.x EXCEPT !.f = "top"]
      [] to = "mysql" /\ r.v = "Timestamp" -> [r.x EXCEPT !.zoned = FALSE]
      [] OTHER -> r.x

-----------------------------------------------------------------------------
(* The target server: a value its column holds is stored as it is said,     *)
(* padding apart; any other is bent into one (rounded, cut, refused).       *)

Bent == [k |-> "bent"]

HoldsCell(ty, to, v) ==
    LET my == to = "mysql" IN
    CASE v.k = "null"      -> TRUE
      [] ty.t = "Int"      -> /\ v.k = "int" /\ (ty.b => ~v.neg)
                              /\ v.bits <= IF ty.b THEN 8 * ty.a ELSE 8 * ty.a - 1
      [] ty.t = "Numeric"  -> \/ v.k = "int" /\ v.bits <= 64
                              \/ v.k = "dec" /\ (ty.a = Unset \/ (v.frac <= ty.b /\ v.whole + ty.b <= ty.a))
                              \/ v.k = "special" /\ ~my /\ (v.s = "NaN" \/ ty.a = Unset)
      [] ty.t = "Float"    -> /\ v.k = "float" /\ (my => v.f \notin {"nan", "inf"})
                              /\ ~ty.a => v.f \notin ({"double", "huge", "tiny"}
                                                    \union IF my THEN {"over"} ELSE {})
      [] ty.t \in {"Varchar", "Char", "Text"} ->
            \/ v.k = "uuid"
            \/ /\ v.k = "text" /\ (v.nul => my)
               /\ IF ty.t # "Text" THEN v.chars <= ty.a
                  ELSE my /\ ty.a # "long" => v.bytes <= [text |-> 65535, medium |-> 16777215][ty.a]
      [] ty.t = "Binary"   -> v.k = "bytes" /\ (ty.a = Unset \/ v.len <= ty.a)
      [] ty.t = "Date"     -> /\ v.k = "date" /\ v.spec \notin {"zero", "nosuch"}
                              /\ my => v.spec = "plain" /\ v.year \in 1000..9999
      [] ty.t = "Time"     -> /\ v.k = "time" /\ v.frac <= ty.a
                              /\ v.hour \in IF my THEN -838..838 ELSE 0..24
      [] ty.t \in {"Timestamp", "TimestampTz", "DateTime"} ->
            /\ v.k = "ts" /\ v.frac <= ty.a /\ v.spec \notin {"zero", "nosuch"}
            /\ v.zoned = (ty.t = "TimestampTz")
            /\ my => v.spec = "plain" /\ YearOf(v) \in 1000..9999
      [] ty.t = "Json"     -> v.k \in {"json", "jsonof"} /\ (my => ~v.dup /\ v.num = "fits")
      [] ty.t = "Jsonb"    -> v.k \in {"json", "jsonof"} /\ ~v.dup /\ ~v.nul
      [] OTHER             -> TRUE

Stored(ty, to, v) ==
    LET cell == IF ty.t = "Array" /\ v.k = "array" THEN v.el[1] ELSE v
        for  == IF ty.t = "Array" /\ v.k = "array" THEN ty.el[1] ELSE ty
    IN  IF HoldsCell(for, to, cell) THEN v ELSE Bent

\* PostgreSQL cuts a name at 63 bytes.
StoredName(to, n) == IF to = "postgres" /\ n.bytes > 63 THEN [n EXCEPT !.bytes = 63] ELSE n

\* The limit as the server counts it: a bit for each column besides (every column may be null).
RowTooWide(columns) == Total(columns) + (Len(columns) + 7) \div 8 > RowLimit

-----------------------------------------------------------------------------
(* The transfer of one value.                                               *)

Nothing == [k |-> "nothing"]

Init ==
    /\ pc = "names"
    /\ col \in Columns
    /\ target \in Targets
    /\ table \in Tables
    /\ plan = <<>>
    /\ held = Nothing /\ off = 0
    /\ stored = Nothing

(* plan_table refuses a name the server would not keep as it is. *)
CheckNames ==
    /\ pc = "names"
    /\ pc' = IF NamesOK(table.names, target) THEN "map" ELSE "refused"
    /\ UNCHANGED <<col, target, table, plan, held, off, stored>>

\* The table's other columns are texts of some length.
Planned(sql) == [sql |-> sql] @@ MapType(sql, col.src, target)
Columned == <<Described(col.src, col.d)>>
            \o [i \in DOMAIN table.others |-> [Of("Text") EXCEPT !.length = table.others[i]]]

MapColumns ==
    /\ pc = "map"
    /\ LET planned == [i \in DOMAIN Columned |-> Planned(Columned[i])]
           refused == \E i \in DOMAIN planned : planned[i].outcome = "Refuse"
       IN  /\ plan' = IF refused THEN <<>> ELSE planned
           /\ pc' = CASE refused            -> "refused"
                      [] target = "mysql"   -> "fit"
                      [] OTHER              -> "create"
    /\ UNCHANGED <<col, target, table, held, off, stored>>

(* One turn of fit_mysql_row. *)
Demote ==
    /\ pc = "fit"
    /\ Total(plan) > RowLimit
    /\ IF \E i \in DOMAIN plan : Demotable(plan[i].ty)
       THEN LET i == Widest(plan) IN
            /\ plan' = [plan EXCEPT ![i].ty = Demoted(@),
                                    ![i].outcome = IF @ = "Exact" THEN "Widened" ELSE @]
            /\ pc' = pc
       ELSE pc' = "refused" /\ plan' = plan
    /\ UNCHANGED <<col, target, table, held, off, stored>>

Fitted ==
    /\ pc = "fit"
    /\ Total(plan) <= RowLimit
    /\ pc' = "create"
    /\ UNCHANGED <<col, target, table, plan, held, off, stored>>

(* The server takes the CREATE TABLE, or a row it counts as too wide ends the run. *)
Create ==
    /\ pc = "create"
    /\ pc' = IF target = "mysql" /\ RowTooWide(plan) THEN "refused" ELSE "value"
    /\ UNCHANGED <<col, target, table, plan, held, off, stored>>

(* The source has a value in the column and prints it in some zone. *)
Fetch ==
    /\ pc = "value"
    /\ held' \in col.values \union {[k |-> "null"]}
    /\ off' \in IF held'.k = "ts" /\ held'.zoned
               THEN {h \in Offsets : h = Region => col.src = "trino"} ELSE {0}
    /\ pc' = "write"
    /\ UNCHANGED <<col, target, table, plan, stored>>

(* copy_row or mysql_row, and what the server makes of it; one refusal ends the run. *)
Write ==
    /\ pc = "write"
    /\ LET c == plan[1]
           r == ReadValue(col, held, off)
           takes == IF target = "postgres" THEN PgValue(c.sql, c.ty, col.src, r, off)
                    ELSE MysqlValue(c.sql, c.ty, r)
       IN  /\ pc' = IF takes THEN "done" ELSE "refused"
           /\ stored' = IF takes THEN Stored(c.ty, target, Said(c.sql, c.ty, target, r)) ELSE stored
    /\ UNCHANGED <<col, target, table, plan, held, off>>

Next == CheckNames \/ MapColumns \/ Demote \/ Fitted \/ Create \/ Fetch \/ Write

Spec == Init /\ [][Next]_vars

-----------------------------------------------------------------------------
(* Properties.                                                              *)

\* A value without what no column keeps of it: the zeros a decimal is printed with, the spaces a
\* char is padded with, the double the text of a float4 reads as.
Bare(v) ==
    CASE v.k = "dec"   -> [v EXCEPT !.sent = v.frac]
      [] v.k = "text"  -> [v EXCEPT !.pad = FALSE]
      [] v.k = "float" -> [v EXCEPT !.f = IF @ = "over" THEN "top" ELSE @]
      [] OTHER         -> v

\* What stands for the value held, against encode.rs:1 "exactly as they are, or refused", in the two
\* cases where the code alters one and says nothing: a day its month has not, which MySQL stores under
\* ALLOW_INVALID_DATES, is carried into the next month (normalize.rs date_from_parts, parse_ymd), and
\* a negative zero inside a composite that is written as JSON has no sign (encode.rs json_write).
Altered ==
    CASE held.k \in {"date", "ts"} /\ held.spec = "nosuch" -> [held EXCEPT !.spec = "plain"]
      [] stored.k = "jsonof" -> [held EXCEPT !.el = [i \in DOMAIN @ |-> Zeroed(@[i])]]
      [] OTHER -> held

\* The stand-ins that are reported as fallbacks: JSON for a composite, a wall clock for a moment (UTC's
\* for one with a zone, the source session's for a MySQL timestamp).
Kept ==
    LET value == Altered IN
    CASE stored.k = "jsonof" ->
            /\ [i \in DOMAIN value.el |-> Bare(value.el[i])]
                  = [i \in DOMAIN stored.els |-> Bare(stored.els[i])]
            /\ held.k = "map" => [i \in DOMAIN held.key |-> Bare(held.key[i])]
                                   = [i \in DOMAIN stored.keys |-> Bare(stored.keys[i])]
      [] held.k = "array" /\ stored.k = "array" ->
            [stored EXCEPT !.el = <<Bare(@[1])>>] = [held EXCEPT !.el = <<Bare(@[1])>>]
      [] held.k = "ts" /\ held.zoned /\ stored.k = "ts" /\ ~stored.zoned ->
            /\ plan[1].outcome = "TextFallback"
            /\ stored = [Moved(value, IF col.src = "mysql" THEN off ELSE 0) EXCEPT !.zoned = FALSE]
      [] held.k = "text" /\ stored.k = "text" ->
            IF plan[1].ty.t = "Char" \/ plan[1].sql.base = "Char" THEN Bare(stored) = Bare(value)
            ELSE stored = value
      [] OTHER -> Bare(stored) = Bare(value)

\* What need not be refused: the values whose type has a plain counterpart.
Ordinary == held.k \in {"null", "bool", "int", "bytes", "uuid"}
            \/ (held.k = "text" /\ ~(held.nul /\ target = "postgres"))

\* A value that is written arrives as it was, up to the stand-ins the plan reports and the two changes
\* the code makes unsaid (Altered), under the name its column had (encode.rs; names.rs check); and once the
\* table is created no integer, boolean, text or binary value of an exact or a wider column is
\* refused, so the plan's types are wide enough for their source (describe.rs, types.rs map_type,
\* fit_mysql_row).
ValuesKept ==
    /\ pc = "done" => Kept /\ \A i \in DOMAIN table.names :
                                StoredName(target, table.names[i]) = table.names[i]
    /\ pc = "refused" /\ held.k # "nothing" /\ plan[1].outcome # "TextFallback" => ~Ordinary
=============================================================================
