------------------------------ MODULE CellText ------------------------------
(***************************************************************************)
(* The text of a cell: how a value is written (qh-core/src/render.rs), and *)
(* how the grid reads such a text back, as a number, as JSON, as a key to  *)
(* sort by (qh-result-store/src/collate.rs, render.rs).                    *)
(*                                                                         *)
(* A text is a sequence of characters.  "^" is a combining mark, "W" a     *)
(* letter beyond the basic plane.  A value is a tuple, its kind first:     *)
(*   <<"null">>, <<"bool", b>>, <<"int", n>>, <<"uint", n>>,               *)
(*   <<"float", class, digits, exponent>>, <<"dec", unscaled, scale>>,     *)
(*   <<"text", t>>, <<"json", t>>, <<"bytes", bytes>>, <<"date", days>>,   *)
(*   <<"time", micros>>, <<"ts", micros>>, <<"tsz", micros, offset>>,      *)
(*   <<"interval", months, days, micros>>, <<"array", items>>,             *)
(*   <<"row", items>>, <<"map", pairs>>,                                   *)
(*   <<"unknown", type, texts, raws>> with at most one text and one raw.   *)
(***************************************************************************)
EXTENDS Integers, Sequences, FiniteSets, SequencesExt

CONSTANTS
    Second,     \* micros of a second: a power of ten, 1_000_000 in the code
    Fraction,   \* its number of zeros
    MaxDigits,  \* digits of the longest number Swift's Decimal holds (38)
    MinExp,     \* its exponents (-166, 128)
    MaxExp,
    MaxRun      \* the most digits a run's length is told apart for (255)

Absent == "none"

\* Op of a value that is worked out once.
With(x, Op(_)) == CHOOSE y \in {Op(v) : v \in {x}} : TRUE

Digits == <<"0", "1", "2", "3", "4", "5", "6", "7", "8", "9">>
IsDigit(c) == c \in Range(Digits)
HexDigits == Digits \o <<"a", "b", "c", "d", "e", "f">>

\* --- Writing a value ----------------------------------------------------------------------------

RECURSIVE Natural(_)
Natural(n) == (IF n < 10 THEN <<>> ELSE Natural(n \div 10)) \o <<Digits[(n % 10) + 1]>>

Magnitude(n) == IF n < 0 THEN -n ELSE n
Sign(n) == IF n < 0 THEN <<"-">> ELSE <<>>
Number(n) == Sign(n) \o Natural(Magnitude(n))

Zeros(n) == [i \in 1 .. n |-> "0"]
Padded(n, width) == Zeros(width - Len(Natural(n))) \o Natural(n)

\* write_decimal: the zeros of the scale are kept.
WriteDecimal(unscaled, scale) ==
    LET digits == Natural(Magnitude(unscaled))
        whole  == Len(digits) - scale
    IN  IF scale = 0 THEN Number(unscaled)
        ELSE Sign(unscaled) \o
             IF whole <= 0 THEN <<"0", ".">> \o Zeros(-whole) \o digits
             ELSE SubSeq(digits, 1, whole) \o <<".">> \o SubSeq(digits, whole + 1, Len(digits))

\* write_float, write_scientific: a float is its shortest digits and the exponent of the last one.
WriteFloat(class, digits, exp) ==
    LET s == Natural(Magnitude(digits))
        magnitude == Len(s) - 1 + exp
        mantissa  == IF Len(s) = 1 THEN s ELSE <<s[1], ".">> \o Tail(s)
    IN  CASE class = "nan" -> <<"n", "a", "n">>
          [] class = "inf" -> Sign(digits) \o <<"i", "n", "f">>
          [] class = "zero" -> Sign(digits) \o <<"0", ".", "0">>
          [] class = "num" /\ magnitude \notin -4 .. 15 ->
                Sign(digits) \o mantissa \o <<"e", IF magnitude < 0 THEN "-" ELSE "+">>
                             \o Padded(Magnitude(magnitude), 2)
          [] OTHER -> Sign(digits) \o
                IF exp >= 0 THEN s \o Zeros(exp) \o <<".", "0">>
                ELSE WriteDecimal(Magnitude(digits), -exp)

\* civil_from_days: Hinnant's count, in eras of 400 years that begin in March.
CivilFromDays(epochDays) ==
    With(epochDays + 719468, LAMBDA days :
    With(IF days >= 0 THEN days \div 146097 ELSE -((146096 - days) \div 146097), LAMBDA era :
    With(days - era * 146097, LAMBDA doe :
    With((doe - doe \div 1460 + doe \div 36524 - doe \div 146096) \div 365, LAMBDA yoe :
    With(doe - (365 * yoe + yoe \div 4 - yoe \div 100), LAMBDA doy :
    With((5 * doy + 2) \div 153, LAMBDA mp :
    With(IF mp < 10 THEN mp + 3 ELSE mp - 9, LAMBDA month :
        <<yoe + era * 400 + (IF month <= 2 THEN 1 ELSE 0), month, doy - (153 * mp + 2) \div 5 + 1>>)))))))

WriteDate(days) ==
    With(CivilFromDays(days), LAMBDA d :
        (IF d[1] < 0 THEN <<"-">> \o Padded(-d[1], 3) ELSE Padded(d[1], 4))
          \o <<"-">> \o Padded(d[2], 2) \o <<"-">> \o Padded(d[3], 2))

\* write_time: a fraction only if there is one.
Clock(micros, hourWidth) ==
    LET seconds == micros \div Second
    IN  Padded(seconds \div 3600, hourWidth) \o <<":">> \o Padded((seconds % 3600) \div 60, 2)
          \o <<":">> \o Padded(seconds % 60, 2)
          \o IF micros % Second = 0 THEN <<>> ELSE <<".">> \o Padded(micros % Second, Fraction)

WriteTime(micros) == Sign(micros) \o Clock(Magnitude(micros), 2)

\* The wall clock of an instant, in the zone the server named.
WriteTimestamp(local) ==
    LET day == 86400 * Second IN WriteDate(local \div day) \o <<" ">> \o WriteTime(local % day)

WriteOffset(offset) ==
    LET m == Magnitude(offset)
    IN  <<IF offset < 0 THEN "-" ELSE "+">> \o Padded(m \div 3600, 2) \o <<":">> \o Padded((m % 3600) \div 60, 2)

\* write_interval: months, days and time apart, Python's way.
WriteInterval(months, days, micros) ==
    LET part(n, word) == IF n = 0 THEN <<>>
                         ELSE Number(n) \o <<" ">> \o word \o (IF Magnitude(n) = 1 THEN <<>> ELSE <<"s">>)
                                \o <<",", " ">>
    IN  part(months, <<"m", "o", "n", "t", "h">>) \o part(days, <<"d", "a", "y">>)
          \o Sign(micros) \o Clock(Magnitude(micros), 1)

\* write_hex.
WriteHex(bytes) == FlattenSeq([i \in DOMAIN bytes |-> <<HexDigits[(bytes[i] \div 16) + 1], HexDigits[(bytes[i] % 16) + 1]>>])

\* write_json_string.
WriteJsonString(t) ==
    LET escaped(c) == IF c = "quote" THEN <<"\\", "quote">> ELSE IF c = "\\" THEN <<"\\", "\\">>
                      ELSE IF c = "nl" THEN <<"\\", "n">> ELSE <<c>>
    IN  <<"quote">> \o FlattenSeq([i \in DOMAIN t |-> escaped(t[i])]) \o <<"quote">>

Joined(parts) == FlattenSeq([i \in DOMAIN parts |-> IF i = 1 THEN parts[i] ELSE <<",", " ">> \o parts[i]])

\* write_text and write_json_like: a value inside a value is JSON, and what JSON has no scalar for
\* is a string there.
RECURSIVE WriteText(_), WriteJsonLike(_)
WriteText(v) ==
    CASE v[1] = "null" -> <<>>
      [] v[1] = "bool" -> IF v[2] THEN <<"t", "r", "u", "e">> ELSE <<"f", "a", "l", "s", "e">>
      [] v[1] \in {"int", "uint"} -> Number(v[2])
      [] v[1] = "float" -> WriteFloat(v[2], v[3], v[4])
      [] v[1] = "dec" -> WriteDecimal(v[2], v[3])
      [] v[1] \in {"text", "json"} -> v[2]
      [] v[1] = "bytes" -> WriteHex(v[2])
      [] v[1] = "date" -> WriteDate(v[2])
      [] v[1] = "time" -> WriteTime(v[2])
      [] v[1] = "ts" -> WriteTimestamp(v[2])
      [] v[1] = "tsz" -> WriteTimestamp(v[2] + v[3] * Second) \o WriteOffset(v[3])
      [] v[1] = "interval" -> WriteInterval(v[2], v[3], v[4])
      [] v[1] \in {"array", "row"} ->
            <<"[">> \o Joined([i \in DOMAIN v[2] |-> WriteJsonLike(v[2][i])]) \o <<"]">>
      [] v[1] = "map" ->
            <<"{">> \o Joined([i \in DOMAIN v[2] |-> WriteJsonString(WriteText(v[2][i][1])) \o <<":", " ">>
                                                       \o WriteJsonLike(v[2][i][2])]) \o <<"}">>
      [] v[1] = "unknown" -> IF v[3] # <<>> THEN v[3][1] ELSE IF v[4] # <<>> THEN WriteHex(v[4][1]) ELSE <<>>

WriteJsonLike(v) ==
    CASE v[1] = "null" -> <<"n", "u", "l", "l">>
      [] v[1] \in {"bool", "int", "uint", "float", "array", "row", "map"} -> WriteText(v)
      [] OTHER -> WriteJsonString(WriteText(v))

\* --- A text as a number --------------------------------------------------------------------------

\* trim_zs_tab: spaces and tabs go, newlines do not.
TrimZsTab(t) ==
    LET kept == {i \in DOMAIN t : t[i] \notin {" ", "tab"}}
    IN  IF kept = {} THEN <<>> ELSE SubSeq(t, Min(kept), Max(kept))

AllDigits(t) == \A i \in DOMAIN t : IsDigit(t[i])
RECURSIVE ValueOf(_)
ValueOf(t) == IF t = <<>> THEN 0 ELSE 10 * ValueOf(Front(t)) + (CHOOSE d \in 0 .. 9 : Digits[d + 1] = Last(t))

\* What is before and after the first of these characters, and whether there is one.
SplitAt(t, chars) ==
    With({i \in DOMAIN t : t[i] \in chars}, LAMBDA at :
        IF at = {} THEN <<t, <<>>, FALSE>>
        ELSE <<SubSeq(t, 1, Min(at) - 1), SubSeq(t, Min(at) + 1, Len(t)), TRUE>>)

Unsigned(t) == IF t # <<>> /\ t[1] \in {"-", "+"} THEN Tail(t) ELSE t

\* A number as it is written: sign, digits before and after the dot, exponent; or none.  Both
\* swift_plain_number and is_swift_plain_number begin with this.
Spelled(t) ==
    With(TrimZsTab(t), LAMBDA body :
    With(SplitAt(Unsigned(body), {"e", "E"}), LAMBDA sci :
    With(SplitAt(sci[1], {"."}), LAMBDA parts :
    With(IF sci[3] THEN sci[2] ELSE <<"0">>, LAMBDA exp :
    With(Unsigned(exp), LAMBDA digits :
        IF \/ body = <<>> \/ digits = <<>> \/ ~ AllDigits(digits)
           \/ ~ AllDigits(parts[1]) \/ ~ AllDigits(parts[2])
           \/ Len(parts[1]) + Len(parts[2]) \notin 1 .. MaxDigits
        THEN <<>>
        ELSE <<body[1] = "-", parts[1], parts[2],
               IF exp[1] = "-" THEN -ValueOf(digits) ELSE ValueOf(digits)>>)))))

LeadingZeros(t) == Cardinality({i \in DOMAIN t : \A j \in 1 .. i : t[j] = "0"})
TrailingZeros(t) == LeadingZeros(Reverse(t))

NoNumber == [neg |-> TRUE, exp |-> 0, digits |-> <<>>]

\* swift_plain_number: the key of a number, or none.
SwiftPlainNumber(t) ==
    With(Spelled(t), LAMBDA n :
        IF n = <<>> THEN NoNumber
        ELSE With(n[2] \o n[3], LAMBDA all :
             With(SubSeq(all, LeadingZeros(all) + 1, Len(all)), LAMBDA significant :
             With(SubSeq(significant, 1, Len(significant) - TrailingZeros(significant)), LAMBDA digits :
             With(n[4] - Len(n[3]) + TrailingZeros(significant), LAMBDA adjExp :
                IF adjExp \notin MinExp .. MaxExp THEN NoNumber
                ELSE IF digits = <<>> THEN [neg |-> FALSE, exp |-> 0, digits |-> <<>>]
                ELSE [neg |-> n[1], exp |-> adjExp, digits |-> digits])))))

MayBegin(body) == body # <<>> /\ (IsDigit(body[1]) \/ body[1] \in {"-", "+", "."})

InRange(n, trailing) == n[4] - Len(n[3]) + trailing \in MinExp .. MaxExp

\* A slip: the zeros of 0.00 count as trailing ones.
ZerosTrail(t) ==
    MayBegin(TrimZsTab(t)) /\ With(Spelled(t), LAMBDA n : n # <<>> /\ InRange(n, TrailingZeros(n[2] \o n[3])))

\* is_swift_plain_number: the same without the key.
IsSwiftPlainNumber(t) ==
    /\ MayBegin(TrimZsTab(t))
    /\ With(Spelled(t), LAMBDA n : n # <<>> /\ With(n[2] \o n[3], LAMBDA all :
            InRange(n, IF Range(all) = {"0"} THEN 0 ELSE TrailingZeros(all))))

\* The order of sequences of numbers: by the first that differ, and a prefix before what it begins.
SeqLess(a, b) ==
    \E i \in 1 .. Len(b) : /\ \A j \in 1 .. i - 1 : j <= Len(a) /\ a[j] = b[j]
                           /\ i <= Len(a) => a[i] < b[i]

\* NumKey::cmp.
NumSign(k) == IF k.digits = <<>> THEN 0 ELSE IF k.neg THEN -1 ELSE 1
NumLess(a, b) ==
    LET size(k) == k.exp + Len(k.digits)
        values(k) == [i \in DOMAIN k.digits |-> ValueOf(<<k.digits[i]>>)]
        below(x, y) == size(x) < size(y) \/ (size(x) = size(y) /\ SeqLess(values(x), values(y)))
    IN  IF NumSign(a) # NumSign(b) THEN NumSign(a) < NumSign(b)
        ELSE NumSign(a) # 0 /\ (IF a.neg THEN below(b, a) ELSE below(a, b))

\* --- A text as a key to sort by --------------------------------------------------------------------

\* Code points of the characters in use, as an order.
Code(c) == CHOOSE i \in 1 .. 24 :
    <<"tab", " ", "quote", "+", ",", "-", ".", "0", "1", "2", "3", "4", "5", "6", "7", "8", "9", ":",
      "A", "B", "a", "b", "^", "W">>[i] = c

Lowers == <<"a", "b", "e", "f", "n", "t">>
Upper(c) == c \in {"A", "B"}
Folded(c) == IF c = "A" THEN "a" ELSE IF c = "B" THEN "b" ELSE c
Fold(t) == [i \in DOMAIN t |-> Folded(t[i])]

\* split_elements: a base with its marks; a mark before any base stands alone.
Element(base, marks) == [base |-> base, marks |-> marks]
SplitElements(t) ==
    FoldLeft(LAMBDA els, c :
                 IF c # "^" THEN Append(els, Element(c, 0))
                 ELSE IF els # <<>> /\ Last(els).base # Absent THEN [els EXCEPT ![Len(els)].marks = @ + 1]
                 ELSE Append(els, Element(Absent, 1)),
             <<>>, t)

\* The runs of digits, and the elements outside them, in order: <<first, last>>.
Runs(els) ==
    LET digit(i) == els[i].base # Absent /\ IsDigit(els[i].base)
        heads == {i \in DOMAIN els : ~ (i > 1 /\ digit(i) /\ digit(i - 1))}
        end(i) == IF ~ digit(i) THEN i
                  ELSE Max({j \in i .. Len(els) : \A k \in i .. j : digit(k)})
    IN  [n \in 1 .. Cardinality(heads) |->
            LET i == CHOOSE h \in heads : Cardinality({g \in heads : g < h}) = n - 1 IN <<i, end(i)>>]

Capped(n) == IF n < MaxRun THEN n ELSE MaxRun

\* natural_key: four levels, each closed by 0, then the text itself.
PrimaryOf(e) ==
    IF e.base = Absent THEN <<2, 0>>
    ELSE IF e.base \in {" ", "tab"} THEN <<1>>
    ELSE IF e.base \in Range(Lowers) \/ Upper(e.base) THEN <<4, Code(Folded(e.base))>>
    ELSE IF e.base = "W" THEN <<5, Code(e.base)>>
    ELSE <<2, Code(e.base)>>

IsRun(els, r) == els[r[1]].base # Absent /\ IsDigit(els[r[1]].base)
RunOf(els, r) == [i \in 1 .. r[2] - r[1] + 1 |-> els[r[1] + i - 1].base]
Significant(run) == SubSeq(run, LeadingZeros(run) + 1, Len(run))

Primary(els, r) ==
    IF ~ IsRun(els, r) THEN PrimaryOf(els[r[1]])
    ELSE With(Significant(RunOf(els, r)), LAMBDA sig : <<3, Capped(Len(sig))>> \o [i \in DOMAIN sig |-> Code(sig[i])])
Secondary(els, r) ==
    IF IsRun(els, r) THEN <<>>
    ELSE <<Capped(els[r[1]].marks)>> \o [i \in 1 .. els[r[1]].marks |-> Code("^")]
Tertiary(els, r) ==
    IF IsRun(els, r) THEN <<>> ELSE IF els[r[1]].base = Absent THEN <<0>>
    ELSE IF els[r[1]].base \in Range(Lowers) THEN <<1>> ELSE <<2>>
Quaternary(els, r) == IF IsRun(els, r) THEN <<Capped(LeadingZeros(RunOf(els, r)))>> ELSE <<0>>

Level(els, runs, Part(_, _)) == FlattenSeq([n \in DOMAIN runs |-> Part(els, runs[n])]) \o <<0>>

NaturalKey(t) ==
    With(SplitElements(t), LAMBDA els : With(Runs(els), LAMBDA runs :
        Level(els, runs, Primary) \o Level(els, runs, Secondary) \o Level(els, runs, Tertiary)
          \o Level(els, runs, Quaternary) \o [i \in DOMAIN t |-> Code(t[i])]))

\* ci_contains.
CiContains(t, needle) ==
    \E i \in 0 .. Len(t) - Len(needle) : SubSeq(Fold(t), i + 1, i + Len(needle)) = Fold(needle)

\* --- A text cut for the screen ----------------------------------------------------------------------

\* The ends of the letters of a text: a mark belongs to the letter before it.
Graphemes(t) == {i \in DOMAIN t : i = Len(t) \/ t[i + 1] # "^"}
Utf16(t) == Len(t) + Cardinality({i \in DOMAIN t : t[i] = "W"})

\* truncate_utf16.
TruncateUtf16(t, limit) ==
    LET fit == {i \in Graphemes(t) : Utf16(SubSeq(t, 1, i)) <= limit}
    IN  SubSeq(t, 1, Max({0} \cup fit))

\* --- A text as JSON ---------------------------------------------------------------------------------

\* skip_number: the end of the number that begins at i, or 0.
SkipDigits(t, i) == Max({i} \cup {j + 1 : j \in {k \in i .. Len(t) : \A m \in i .. k : IsDigit(t[m])}})
DigitAt(t, i) == i <= Len(t) /\ IsDigit(t[i])
SkipFraction(t, i) == IF i <= Len(t) /\ t[i] = "." THEN (IF DigitAt(t, i + 1) THEN SkipDigits(t, i + 1) ELSE 0) ELSE i
SkipExponent(t, i) ==
    IF i = 0 \/ i > Len(t) THEN i
    ELSE IF t[i] \notin {"e", "E"} THEN i
    ELSE With(IF i < Len(t) /\ t[i + 1] \in {"+", "-"} THEN i + 2 ELSE i + 1, LAMBDA j :
              IF DigitAt(t, j) THEN SkipDigits(t, j) ELSE 0)
SkipNumber(t, start) ==
    With(IF t[start] = "-" THEN start + 1 ELSE start, LAMBDA i :
        IF ~ DigitAt(t, i) THEN 0
        ELSE With(SkipFraction(t, IF t[i] = "0" THEN i + 1 ELSE SkipDigits(t, i)), LAMBDA j : SkipExponent(t, j)))

\* skip_string: past its closing quote; a backslash takes the next character with it.
RECURSIVE SkipString(_, _)
SkipString(t, i) ==
    IF i > Len(t) \/ t[i] \in {"nl", "tab"} THEN 0
    ELSE IF t[i] = "quote" THEN i + 1
    ELSE IF t[i] # "\\" THEN SkipString(t, i + 1)
    ELSE IF i < Len(t) /\ t[i + 1] \in {"quote", "\\", "b", "f", "n", "t"} THEN SkipString(t, i + 2) ELSE 0

Literals == {<<"t", "r", "u", "e">>, <<"f", "a", "l", "s", "e">>, <<"n", "u", "l", "l">>}
SkipLiteral(t, i) ==
    Max({0} \cup {i + Len(w) : w \in {x \in Literals : i + Len(x) - 1 <= Len(t) /\ SubSeq(t, i, i + Len(x) - 1) = x}})

\* The end of the scalar at i, or 0.
SkipScalar(t, i) ==
    IF t[i] = "quote" THEN SkipString(t, i + 1)
    ELSE IF t[i] = "-" \/ IsDigit(t[i]) THEN SkipNumber(t, i) ELSE SkipLiteral(t, i)

RECURSIVE SkipWs(_, _)
SkipWs(t, i) == IF i <= Len(t) /\ t[i] \in {" ", "tab", "nl"} THEN SkipWs(t, i + 1) ELSE i

\* json_validate: one frame per open container, with what it waits for.  The character a key begins
\* with is not looked at.
RECURSIVE Resolve(_, _, _), ValueAt(_, _, _), InFrame(_, _, _)
Popped(stack) == Front(stack)
Waiting(stack, state) == [stack EXCEPT ![Len(stack)] = <<@[1], state>>]

Resolve(t, at, stack) ==
    IF stack = <<>> THEN SkipWs(t, at) > Len(t) ELSE InFrame(t, at, Waiting(stack, "comma"))

ValueAt(t, at, stack) ==
    LET i == SkipWs(t, at)
    IN  IF i > Len(t) THEN FALSE
        ELSE IF t[i] = "{" THEN InFrame(t, i + 1, Append(stack, <<"obj", "first">>))
        ELSE IF t[i] = "[" THEN InFrame(t, i + 1, Append(stack, <<"arr", "first">>))
        ELSE SkipScalar(t, i) # 0 /\ Resolve(t, SkipScalar(t, i), stack)

InFrame(t, at, stack) ==
    LET i == SkipWs(t, at)
        kind == Last(stack)[1]
        state == Last(stack)[2]
        close == IF kind = "obj" THEN "}" ELSE "]"
        key == SkipString(t, i + 1)
    IN  IF i > Len(t) THEN FALSE
        ELSE CASE state \in {"first", "comma"} /\ t[i] = close -> Resolve(t, i + 1, Popped(stack))
               [] state = "comma" -> t[i] = "," /\ InFrame(t, i + 1, Waiting(stack, IF kind = "obj" THEN "key" ELSE "value"))
               [] state = "colon" -> t[i] = ":" /\ ValueAt(t, i + 1, Waiting(stack, "value"))
               [] kind = "obj" /\ state \in {"first", "key"} -> key # 0 /\ InFrame(t, key, Waiting(stack, "colon"))
               [] OTHER -> ValueAt(t, i, stack)

JsonValidate(t) == ValueAt(t, 1, <<>>)

\* cell_openable_text: what looks like a container and is JSON.
CellOpenableText(t) ==
    LET i == SkipWs(t, 1) IN i <= Len(t) /\ t[i] \in {"{", "["} /\ JsonValidate(t)
=============================================================================
