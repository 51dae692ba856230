---------------------------- MODULE ValueSamples ----------------------------
(***************************************************************************)
(* The columns and values ValueCopy is checked on: for every type a source *)
(* declares, values on each side of every limit the code has for it.       *)
(***************************************************************************)
EXTENDS Integers, Sequences

D(ty) == [ty |-> ty, n |-> -1, s |-> -1, uns |-> FALSE, w |-> 4, known |-> TRUE, el |-> <<>>]
Sized(ty, n) == [D(ty) EXCEPT !.n = n]
Scaled(ty, n, s) == [D(ty) EXCEPT !.n = n, !.s = s]
Arrayed(d) == [D("array") EXCEPT !.el = <<d>>]

\* Integers by sign and bits; the widest of a type are its ends.
Ints(bits) == {[k |-> "int", neg |-> neg, bits |-> b] : neg \in BOOLEAN, b \in {0, bits}}
Unsigned(bits) == {[k |-> "int", neg |-> FALSE, bits |-> b] : b \in {0, bits - 1, bits}}
Floats(fs) == {[k |-> "float", f |-> f] : f \in fs}
Dec(whole, frac, sent) == [k |-> "dec", whole |-> whole, frac |-> frac, sent |-> sent]
Text(chars, bytes) == [k |-> "text", chars |-> chars, bytes |-> bytes, pad |-> FALSE, nul |-> FALSE]
Texts(n) == {Text(0, 0), Text(n, n), Text(n, n * 4), [Text(n, n) EXCEPT !.pad = TRUE]}
Bytes(ns) == {[k |-> "bytes", len |-> n] : n \in ns}
Date(y, spec) == [k |-> "date", year |-> y, spec |-> spec]
Dates(years) == {Date(y, "plain") : y \in years}
Times(hours, fracs) == {[k |-> "time", hour |-> h, frac |-> f] : h \in hours, f \in fracs}
Ts(y, h, f, zoned) ==
    [k |-> "ts", year |-> y, hour |-> h, frac |-> f, spec |-> "plain", zoned |-> zoned]
Moments(years, fracs, zoned) == {Ts(y, h, f, zoned) : y \in years, h \in {0, 8759}, f \in fracs}
Interval(m, d, h) == [k |-> "interval", months |-> m, days |-> d, hours |-> h]
Jsons(dups, nuls, nums) ==
    {[k |-> "json", dup |-> d, nul |-> u, num |-> n] : d \in dups, u \in nuls, n \in nums}
ArrayOf(v) == [k |-> "array", el |-> <<v>>, bounded |-> FALSE]
Nul(v) == [v EXCEPT !.nul = TRUE]

Of(src, d, values) == [src |-> src, d |-> d, values |-> values]

MysqlColumns ==
    LET M(d, values) == Of("mysql", d, values)
        U(d) == [d EXCEPT !.uns = TRUE] IN
    {M(D("tinyint"), Ints(7)), M(U(D("tinyint")), Unsigned(8)), M(U(D("smallint")), Unsigned(16)),
     M(U(D("mediumint")), Unsigned(24)), M(U(D("int")), Unsigned(32)), M(D("bigint"), Ints(63)),
     M(U(D("bigint")), Unsigned(64)),
     M([D("double") EXCEPT !.s = 31], Floats({"negzero", "single", "double", "huge", "tiny"})),
     M([D("float") EXCEPT !.s = 31], Floats({"single"})),
     M(Scaled("decimal", 10, 2), {Dec(8, 2, 2), Dec(0, 0, 2)}),
     M(U(Scaled("decimal", 10, 0)), {Dec(10, 0, 0)}),
     M(Scaled("decimal", 65, 30), {Dec(8, 2, 30), Dec(35, 30, 30)}),
     M(D("date"), Dates({0, 999, 1000, 9999}) \union {Date(0, "zero"), Date(2023, "nosuch")}),
     M(Scaled("datetime", -1, 3), Moments({999, 1000, 9999}, {0, 3}, FALSE)
                                  \union {[Ts(0, 0, 0, FALSE) EXCEPT !.spec = "zero"],
                                          [Ts(2023, 0, 3, FALSE) EXCEPT !.spec = "nosuch"]}),
     M(Scaled("timestamp", -1, 6), Moments({1999, 2037}, {0, 6}, TRUE)),
     M(Scaled("time", -1, 0), Times({-838, -1, 0, 23, 24, 838}, {0})),
     M(D("json"), Jsons({FALSE}, BOOLEAN, {"fits"})),
     M(D("text"), Texts(16383) \union {Nul(Text(1, 1))}),
     M(D("enum"), Texts(255)), M(D("set"), Texts(300)),
     M(Sized("varchar", 10), Texts(10) \union {Nul(Text(1, 1))}),
     M(Sized("varchar", 16383), Texts(16383)),
     M([Sized("varchar", 20000) EXCEPT !.w = 1], Texts(20000)),
     M([Sized("varchar", 10) EXCEPT !.w = 3, !.known = FALSE], Texts(10)),
     M(Sized("char", 255), Texts(255)),
     M(Sized("varbinary", 65000), Bytes({0, 65000})), M(D("blob"), Bytes({0, 65535})),
     M(D("geometry"), Bytes({1}))}

PostgresColumns ==
    LET P(d, values) == Of("postgres", d, values) IN
    {P(D("bool"), {[k |-> "bool"]}), P(D("int2"), Ints(15)), P(D("int8"), Ints(63)),
     P(D("float4"), Floats({"nan", "inf", "single", "top"})),
     P(D("float8"), Floats({"nan", "inf", "negzero", "single", "double", "huge", "tiny"})),
     P(D("numeric"), {Dec(0, 0, 0), Dec(35, 0, 3), Dec(36, 0, 0), Dec(8, 30, 30), Dec(2, 31, 31),
                      Dec(2, 2, 38), Dec(0, 39, 39), Dec(60, 0, 0),
                      [k |-> "special", s |-> "NaN"], [k |-> "special", s |-> "Infinity"]}),
     P(Scaled("numeric", 10, 2), {Dec(8, 2, 2), [k |-> "special", s |-> "NaN"]}),
     P(Scaled("numeric", 70, 2), {Dec(68, 2, 2), Dec(5, 2, 2)}),
     P(Scaled("numeric", 5, -2), {Dec(7, 0, 0)}), P(Scaled("numeric", 2, 5), {Dec(0, 5, 5)}),
     P(D("text"), Texts(20000)), P(Sized("varchar", 20000), Texts(20000)),
     P(Sized("varchar", 10), Texts(10)), P(Sized("bpchar", 300), Texts(300)),
     P(Sized("bpchar", 5), Texts(5)), P(D("bpchar"), Texts(5)),
     P(D("bytea"), Bytes({0, 70000})), P(D("uuid"), {[k |-> "uuid"]}),
     P(D("date"), Dates({-43, 1, 999, 9999, 10000}) \union {Date(2000, "infinity")}),
     P(Scaled("time", -1, 6), Times({0, 23, 24}, {0, 6})),
     P(Scaled("timetz", -1, 0), {[k |-> "timetz"]}),
     P(Scaled("timestamp", -1, 3), Moments({-43, 1, 999, 9999, 294247}, {0, 3}, FALSE)
                                    \union {[Ts(2000, 0, 0, FALSE) EXCEPT !.spec = "infinity"]}),
     P(Scaled("timestamptz", -1, 6), Moments({0, 1, 999, 1000, 9999, 294246}, {6}, TRUE)
                                      \union {[Ts(2000, 0, 0, TRUE) EXCEPT !.spec = "infinity"]}),
     P(D("interval"), {Interval(14, 3, 4), Interval(-1, 3, 24), Interval(0, 0, -4), Interval(0, 0, 100)}),
     P(D("json"), Jsons(BOOLEAN, BOOLEAN, {"fits", "wide", "huge"})),
     P(D("jsonb"), Jsons({FALSE}, {FALSE}, {"fits", "wide", "huge"})),
     P(D("enum"), Texts(63)), P(Sized("bit", 8), {[k |-> "bits"]}), P(D("varbit"), {[k |-> "bits"]}),
     P(D("inet"), {[k |-> "inet"]}), P(D("point"), {[k |-> "point"]}),
     P(Arrayed(D("date")), {ArrayOf(Date(9999, "plain")),
                            [ArrayOf(Date(1, "plain")) EXCEPT !.bounded = TRUE]}),
     P(Arrayed(Scaled("numeric", 10, 2)), {ArrayOf(Dec(8, 2, 2))}),
     P(Arrayed(D("point")), {ArrayOf([k |-> "point"])})}

TrinoColumns ==
    LET R(d, values) == Of("trino", d, values)
        Null == [k |-> "null"]
        MapOf(key, v) == [k |-> "map", key |-> <<key>>, el |-> <<v>>]
        RowOf(v, named) == [k |-> "row", el |-> <<v>>, named |-> named]
        wide == Dec(20, 18, 18)
        small == Dec(2, 2, 2) IN
    {R(D("boolean"), {[k |-> "bool"]}), R(D("tinyint"), Ints(7)), R(D("bigint"), Ints(63)),
     R(D("real"), Floats({"nan", "inf", "single", "top"})),
     R(D("double"), Floats({"nan", "inf", "negzero", "double", "huge", "tiny"})),
     R(Scaled("decimal", 38, 10), {Dec(28, 10, 10), Dec(0, 0, 10)}), R(D("decimal"), {Dec(38, 0, 0)}),
     R(Scaled("decimal", 38, 38), {Dec(0, 38, 38)}),
     R(D("varchar"), Texts(20000) \union {Nul(Text(1, 1))}), R(Sized("varchar", 10), Texts(10)),
     R(Sized("char", 5), Texts(5)), R(D("varbinary"), Bytes({0, 70000})), R(D("uuid"), {[k |-> "uuid"]}),
     R(D("date"), Dates({-43, 0, 1, 999, 9999, 10000})),
     R(Scaled("time", -1, 9), Times({0}, {9})), R(D("time"), Times({0, 23}, {0, 3})),
     R(Scaled("timetz", -1, 3), {[k |-> "timetz"]}),
     R(Scaled("timestamp", -1, 6), Moments({-43, 0, 1, 999, 9999}, {0, 6}, FALSE)),
     R(Scaled("timestamp", -1, 9), Moments({2000}, {9}, FALSE)),
     R(Scaled("timestamptz", -1, 3), Moments({0, 1, 999, 1000, 9999}, {3}, TRUE)),
     R(D("interval"), {Interval(0, -3, -4), Interval(27, 0, 0)}),
     R(D("json"), Jsons({FALSE}, BOOLEAN, {"fits", "wide", "huge"})),
     R(Arrayed(D("bigint")), {ArrayOf(v) : v \in Ints(63) \union {Null}}),
     R(Arrayed(Scaled("decimal", 38, 18)), {ArrayOf(wide), ArrayOf(small)}),
     R(Arrayed(D("varchar")), {ArrayOf(Text(10, 40)), ArrayOf(Nul(Text(1, 1)))}),
     R(Arrayed(D("real")), {ArrayOf(v) : v \in Floats({"nan", "negzero", "single", "top"})}),
     R(Arrayed(Scaled("timestamptz", -1, 3)), {ArrayOf(v) : v \in Moments({0, 2000}, {3}, TRUE)}),
     R(Arrayed(Scaled("time", -1, 9)), {ArrayOf(v) : v \in Times({0}, {9})}),
     R(Arrayed(D("json")), {ArrayOf(v) : v \in Jsons({FALSE}, {FALSE}, {"fits", "wide"})}),
     R(D("map"), {MapOf(key, v) : key \in {Text(3, 3), small, [k |-> "bool"], [k |-> "uuid"]}
                                          \union Ints(63) \union Floats({"double"}),
                                  v \in {wide, small, Nul(Text(1, 1)), Date(-43, "plain")}}),
     R(D("row"), {RowOf(v, named) : v \in {small, [k |-> "bytes", len |-> 1], Interval(1, 0, 0)}
                                         \union Floats({"nan", "negzero", "double", "huge"}),
                                    named \in BOOLEAN}),
     R(D("geometry"), {[k |-> "point"]})}

ValueColumns == MysqlColumns \union PostgresColumns \union TrinoColumns

\* Names at each limit, and rows that fit, just do not, and cannot.
Name(bytes, chars, form) == [id |-> "a", fold |-> "a", bytes |-> bytes, chars |-> chars, form |-> form]
Second == [id |-> "b", fold |-> "b", bytes |-> 1, chars |-> 1, form |-> "plain"]
ValueTables ==
    {[names |-> <<Name(b[1], b[2], f)>>, others |-> <<>>] :
        b \in {<<1, 1>>}, f \in {"plain", "unnamed", "space", "wide", "empty", "nul"}}
    \union {[names |-> <<Name(b[1], b[2], "plain")>>, others |-> <<>>] :
                b \in {<<63, 63>>, <<64, 64>>, <<64, 32>>, <<130, 65>>}}
    \union {[names |-> <<Name(1, 1, "plain"), other>>, others |-> <<n>>] :
                other \in {Second, Name(1, 1, "plain"), [Name(1, 1, "plain") EXCEPT !.id = "A"]},
                n \in {100, 16128, 16383}}

ValueOffsets == {0, 7, -5, 15, 99}
=============================================================================
