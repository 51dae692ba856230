---------------------------- MODULE TextReadings ----------------------------
(***************************************************************************)
(* The grid's readings of a cell's text against what each of them means.   *)
(* A text grows by one character a step; every text on the way is read as  *)
(* a number, as JSON or as a key to sort by (collate.rs, render.rs), and   *)
(* every day and number is written and read back (qh-core/src/render.rs).  *)
(***************************************************************************)
EXTENDS CellText

CONSTANTS
    Alphabets,  \* the characters of the texts of each reading
    Longest,    \* and their greatest length
    NumberSamples, SortSamples, \* texts each text is compared with
    Days,       \* days since the epoch that are written as a date
    Decimals    \* unscaled numbers that are written with each scale up to MaxDigits

VARIABLES reading, text

vars == <<reading, text>>

Init == reading \in DOMAIN Alphabets /\ text = <<>>

Type(c) ==
    /\ Len(text) < Longest[reading]
    /\ text' = Append(text, c)
    /\ UNCHANGED reading

Next == \E c \in Alphabets[reading] : Type(c)

Spec == Init /\ [][Next]_vars

\* --- What a text means --------------------------------------------------------------------------------

\* The number a text spells, times 10 ^ (MaxDigits - MinExp).
Worth(t) ==
    With(Spelled(t), LAMBDA n :
    With(ValueOf(n[2] \o n[3]) * 10 ^ (n[4] - Len(n[3]) + MaxDigits - MinExp), LAMBDA worth :
        IF n[1] THEN -worth ELSE worth))

Trimmed(t) ==
    LET kept == {i \in DOMAIN t : t[i] \notin {" ", "tab", "nl"}}
    IN  IF kept = {} THEN <<>> ELSE SubSeq(t, Min(kept), Max(kept))

Inner(t) == SubSeq(t, 2, Len(t) - 1)
Encloses(t, open, close) == Len(t) >= 2 /\ t[1] = open /\ Last(t) = close

\* What follows the first character of a string: escaped pairs and plain characters, then a quote.
RECURSIVE StringTail(_)
StringTail(t) ==
    \/ t = <<"quote">>
    \/ Len(t) > 1 /\ t[1] \notin {"quote", "\\", "nl", "tab"} /\ StringTail(Tail(t))
    \/ Len(t) > 2 /\ t[1] = "\\" /\ t[2] \in {"quote", "\\", "b", "f", "n", "t"} /\ StringTail(SubSeq(t, 3, Len(t)))

IsString(t) == Len(t) > 1 /\ t[1] = "quote" /\ StringTail(Tail(t))

IsInt(t) == t # <<>> /\ AllDigits(t) /\ (t[1] = "0" => Len(t) = 1)
IsExponent(t) == t = <<>> \/ (t[1] \in {"e", "E"} /\ With(Unsigned(Tail(t)), LAMBDA d : d # <<>> /\ AllDigits(d)))
IsFraction(t) == t = <<>> \/ (t[1] = "." /\ Len(t) > 1 /\ AllDigits(Tail(t)))
IsNumber(t) ==
    \E s \in 0 .. 1, i \in DOMAIN t, f \in DOMAIN t :
        /\ s = 1 => t[1] = "-"
        /\ i <= f /\ IsInt(SubSeq(t, s + 1, i))
        /\ IsFraction(SubSeq(t, i + 1, f)) /\ IsExponent(SubSeq(t, f + 1, Len(t)))

\* JSON by its grammar, with the characters that may begin an object's first key, and its later ones.
Quoted == <<{"quote"}, {"quote"}>>
IsKey(t, opens) == Len(t) > 1 /\ t[1] \in opens /\ StringTail(Tail(t))
RECURSIVE IsJson(_, _), IsItems(_, _), IsMembers(_, _, _)
IsJson(s, keys) ==
    \E t \in {Trimmed(s)} :
        \/ IsString(t) \/ IsNumber(t) \/ t \in Literals
        \/ Encloses(t, "[", "]") /\ (Trimmed(Inner(t)) = <<>> \/ IsItems(Inner(t), keys))
        \/ Encloses(t, "{", "}") /\ (Trimmed(Inner(t)) = <<>> \/ IsMembers(Inner(t), keys[1], keys))
IsItems(t, keys) ==
    \/ IsJson(t, keys)
    \/ \E i \in DOMAIN t : t[i] = "," /\ IsJson(SubSeq(t, 1, i - 1), keys) /\ IsItems(SubSeq(t, i + 1, Len(t)), keys)
IsMember(t, opens, keys) ==
    \E i \in DOMAIN t :
        t[i] = ":" /\ IsKey(Trimmed(SubSeq(t, 1, i - 1)), opens) /\ IsJson(SubSeq(t, i + 1, Len(t)), keys)
IsMembers(t, opens, keys) ==
    \/ IsMember(t, opens, keys)
    \/ \E i \in DOMAIN t :
          t[i] = "," /\ IsMember(SubSeq(t, 1, i - 1), opens, keys) /\ IsMembers(SubSeq(t, i + 1, Len(t)), keys[2], keys)

\* The order the grid promises: spaces, punctuation, numbers by value, letters, other scripts; then
\* accents; then lower case before upper; then zeros in front; then the texts themselves.
ClassOf(els, r) ==
    IF IsRun(els, r) THEN <<3, ValueOf(RunOf(els, r))>> ELSE IF PrimaryOf(els[r[1]]) = <<1>> THEN <<1, 0>> ELSE PrimaryOf(els[r[1]])
WordOf(els, r) ==
    [class |-> ClassOf(els, r),
     marks |-> IF IsRun(els, r) THEN 0 ELSE els[r[1]].marks,
     case  |-> IF IsRun(els, r) \/ els[r[1]].base = Absent THEN 0 ELSE IF els[r[1]].base \in Range(Lowers) THEN 1 ELSE 2,
     zeros |-> IF IsRun(els, r) THEN LeadingZeros(RunOf(els, r)) ELSE 0]
Words(t) ==
    With(SplitElements(t), LAMBDA els : With(Runs(els), LAMBDA runs : [n \in DOMAIN runs |-> WordOf(els, runs[n])]))

Levels(t) ==
    With(Words(t), LAMBDA w :
        <<FlattenSeq([n \in DOMAIN w |-> w[n].class]), [n \in DOMAIN w |-> w[n].marks],
          [n \in DOMAIN w |-> w[n].case], [n \in DOMAIN w |-> w[n].zeros], [i \in DOMAIN t |-> Code(t[i])]>>)

Before(a, b) ==
    With(Levels(a), LAMBDA x : With(Levels(b), LAMBDA y :
        \E n \in 1 .. 5 : (\A m \in 1 .. n - 1 : x[m] = y[m]) /\ SeqLess(x[n], y[n])))

LeapYear(y) == (y % 4 = 0 /\ y % 100 # 0) \/ y % 400 = 0
DaysBeforeMonth(y, m) == <<0, 31, 59, 90, 120, 151, 181, 212, 243, 273, 304, 334>>[m] + (IF m > 2 /\ LeapYear(y) THEN 1 ELSE 0)
DaysBeforeYear(y) == 365 * (y - 1) + (y - 1) \div 4 - (y - 1) \div 100 + (y - 1) \div 400
DayNumber(d) == DaysBeforeYear(d[1]) + DaysBeforeMonth(d[1], d[2]) + d[3] - 1 - DaysBeforeYear(1970)

\* --- Properties --------------------------------------------------------------------------------------

\* Both readers of numbers take the same texts, and the keys of two numbers are ordered and equal as
\* the numbers are, whatever their zeros, signs and exponents (collate.rs:14-18, 139).
NumberTrue ==
    /\ IsSwiftPlainNumber(text) <=> SwiftPlainNumber(text) # NoNumber
    /\ SwiftPlainNumber(text) # NoNumber =>
          \A s \in NumberSamples : \A a \in {SwiftPlainNumber(text)}, b \in {SwiftPlainNumber(s)} :
             /\ NumLess(a, b) <=> Worth(text) < Worth(s)
             /\ a = b <=> Worth(text) = Worth(s)

\* The validator takes every JSON text, and besides it only what would be JSON if each key began with
\* its quote: it never looks at a key's first character, unless that closes the object (render.rs
\* json_validate, ObjState::First and ObjState::Key), so that {a":1} passes for JSON.
Unquoted == LET any == UNION Range(Alphabets) IN <<any \ {"}"}, any>>
JsonTrue ==
    /\ IsJson(text, Quoted) => JsonValidate(text)
    /\ JsonValidate(text) => IsJson(text, Quoted) \/ IsJson(text, Unquoted)

\* One comparison of bytes gives the grid's order of texts (collate.rs natural_key).
SortTrue == \A s \in SortSamples : SeqLess(NaturalKey(text), NaturalKey(s)) <=> Before(text, s)

\* A date is the day it was made from, and a decimal's text holds its number.
WrittenTrue ==
    /\ \A d \in Days : DayNumber(CivilFromDays(d)) = d
    /\ \A n \in Decimals, scale \in 0 .. MaxDigits :
          \A t \in {WriteDecimal(n, scale)} :
              /\ ValueOf(SelectSeq(t, IsDigit)) = Magnitude(n) /\ (n < 0 <=> t[1] = "-")
              /\ scale > 0 => Len(t) > scale + 1 /\ t[Len(t) - scale] = "." /\ IsDigit(t[Len(t) - scale - 1])

TextTrue ==
    /\ reading = "number" => NumberTrue
    /\ reading \in {"array", "object"} => JsonTrue
    /\ reading = "sort" => SortTrue
    /\ text = <<>> => WrittenTrue
=============================================================================
