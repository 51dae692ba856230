------------------------------ MODULE Columnar ------------------------------
(***************************************************************************)
(* The cells of a result at rest: crates/qh-columnar (the builder, the     *)
(* encodings, the tagged codec, from_arrow) and, of qh-result-store, the   *)
(* sealing of a chunk (chunk.rs), its record in the spill file (spill.rs), *)
(* reading it back (store.rs) and the schema SQL sees (logical.rs).        *)
(*                                                                         *)
(* A store is written by push, or by a fetch that fills a builder, cuts it *)
(* to the row limit and pushes it piece by piece, or by batches of the     *)
(* analytics helper.  Any chunk may be spilled at any time, and the spill  *)
(* file may be damaged.  Every test on a cell is kept; an IPC stream is    *)
(* the batch it holds, and a blob or a record is the sequence of its       *)
(* fields.                                                                 *)
(***************************************************************************)
EXTENDS CellText

CONSTANTS
    Palettes,          \* name -> rows a result may be made of
    Batches,           \* Arrow batches of the analytics helper
    Zones,             \* name -> [at, before, after]: a zone and its change of offset
    Structured,        \* columns whose type opens every cell (openable_by_type)
    MaxRows,           \* bound: rows of a result
    MaxNonce,          \* u64::MAX
    ChunkMaxRows, ChunkTargetBytes,
    DecimalLimit, MaxScale, \* 10^38, 38
    Nanos, MaxNanos,   \* nanoseconds of a microsecond, and the most there are (i64)
    Milli, MaxMicros,  \* microseconds of a millisecond, and the most there are
    MaxZoned,          \* the most microseconds a named zone is resolved at
    MaxDepth,          \* MAX_DEPTH
    WordBits           \* bits of a byte of a bitmap

VARIABLES
    palette,  \* what the rows of this result are made of
    builder,  \* the rows a fetch has staged, and estimated_bytes
    chunks,   \* the chunk table: a chunk, or where its record is
    disk,     \* the spill file: offset -> record
    nonce,    \* SpillCipher.counter
    stats,    \* the column statistics
    failed,   \* the run ended with an error
    source    \* history: the rows that were pushed

vars == <<palette, builder, chunks, disk, nonce, stats, failed, source>>

Null == <<"null">>
IsNull(v) == v[1] = "null"
Error == <<"error">>

\* --- The builder --------------------------------------------------------------------------------------

CellWidth(v) ==
    CASE v[1] \in {"text", "json", "bytes"} -> Len(v[2]) + 9
      [] v[1] = "unknown" -> Len(FlattenSeq(v[3])) + Len(FlattenSeq(v[4])) + 21
      [] v[1] \in {"array", "row"} -> 9 + 16 * Len(v[2])
      [] OTHER -> 16

RowBytes(row) == FoldLeft(LAMBDA n, v : n + CellWidth(v), 0, row)
Bytes(rows) == FoldLeft(LAMBDA n, row : n + RowBytes(row), 0, rows)

NewBuilder == [rows |-> <<>>, est |-> 0]
IsFull(b) == Len(b.rows) >= ChunkMaxRows \/ b.est >= ChunkTargetBytes
PushRow(b, row) == [rows |-> Append(b.rows, row), est |-> b.est + RowBytes(row)]

\* push_owned: an empty builder takes the batch whole.
PushOwned(b, rows) ==
    IF b.rows = <<>> THEN [rows |-> rows, est |-> Bytes(rows)] ELSE FoldLeft(PushRow, b, rows)

\* A slip: the estimate stays as it was.
TruncateRowsOnly(b, n) == IF n >= Len(b.rows) THEN b ELSE [b EXCEPT !.rows = SubSeq(@, 1, n)]

Truncate(b, n) ==
    IF n >= Len(b.rows) THEN b
    ELSE [rows |-> SubSeq(b.rows, 1, n), est |-> b.est - Bytes(SubSeq(b.rows, n + 1, Len(b.rows)))]

\* split_sealable: how many rows make one chunk; the row that crosses a limit is one of them.
Sealable(b) ==
    Min({Len(b.rows)} \cup {n \in 1 .. Len(b.rows) : n >= ChunkMaxRows \/ Bytes(SubSeq(b.rows, 1, n)) >= ChunkTargetBytes})

\* The pieces one push seals.
Pieces(rows) ==
    FoldLeft(LAMBDA done, row :
                 IF done # <<>> /\ ~ IsFull(Last(done)) THEN [done EXCEPT ![Len(done)] = PushRow(@, row)]
                 ELSE Append(done, PushRow(NewBuilder, row)),
             <<>>, rows)

\* --- The tagged codec ---------------------------------------------------------------------------------

Tags == <<"null", "bool", "int", "uint", "float", "dec", "text", "bytes", "stamp", "date", "time", "interval", "json",
          "array", "row", "map", "unknown">>
Tag(v) == IF v[1] \in {"ts", "tsz"} THEN "stamp" ELSE v[1]

EncodeBytes(s) == <<Len(s)>> \o s

\* encode_at; a value that nests too deep has no blob.
RECURSIVE Depth(_), EncodeValue(_)
Depth(v) ==
    IF v[1] \in {"array", "row"} THEN 1 + Max({-1} \cup {Depth(v[2][i]) : i \in DOMAIN v[2]})
    ELSE IF v[1] = "map" THEN 1 + Max({-1} \cup {Depth(v[2][i][1]) : i \in DOMAIN v[2]} \cup {Depth(v[2][i][2]) : i \in DOMAIN v[2]})
    ELSE 0
EncodeValue(v) ==
    <<Tag(v)>> \o
    CASE IsNull(v) -> <<>>
      [] v[1] \in {"text", "json", "bytes"} -> EncodeBytes(v[2])
      [] v[1] = "ts" -> <<v[2], 0>>
      [] v[1] = "tsz" -> <<v[2], 1, v[3]>>
      [] v[1] \in {"array", "row"} -> <<Len(v[2])>> \o FlattenSeq([i \in DOMAIN v[2] |-> EncodeValue(v[2][i])])
      [] v[1] = "map" -> <<Len(v[2])>> \o FlattenSeq([i \in DOMAIN v[2] |-> EncodeValue(v[2][i][1]) \o EncodeValue(v[2][i][2])])
      [] v[1] = "unknown" ->
            EncodeBytes(v[2]) \o <<Len(v[3]) + 2 * Len(v[4])>> \o FlattenSeq([i \in DOMAIN v[3] |-> EncodeBytes(v[3][i])])
              \o FlattenSeq([i \in DOMAIN v[4] |-> EncodeBytes(v[4][i])])
      [] OTHER -> Tail(v)

\* A reader: what it read, where it is.  Past the end it is lost.
Read(value, at) == [value |-> value, at |-> at]
Lost == Read(<<>>, 0)
IsLost(r) == r.at = 0
TakeOne(blob, at) == IF at \in DOMAIN blob THEN Read(blob[at], at + 1) ELSE Lost
TakeMany(blob, at, n) == IF at + n - 1 <= Len(blob) THEN Read(SubSeq(blob, at, at + n - 1), at + n) ELSE Lost
LengthPrefixed(blob, at) == IF at \in DOMAIN blob THEN TakeMany(blob, at + 1, blob[at]) ELSE Lost

Fields == [bool |-> 1, int |-> 1, uint |-> 1, float |-> 3, dec |-> 2, date |-> 1, time |-> 1, interval |-> 3]

\* decode_nested.
TooDeep(depth) == depth >= MaxDepth

RECURSIVE DecodeValue(_, _, _), DecodeMany(_, _, _, _, _)
DecodeValue(blob, at, depth) ==
    IF at \notin DOMAIN blob THEN Lost
    ELSE With(blob[at], LAMBDA tag :
         IF tag = "null" THEN Read(Null, at + 1)
         ELSE IF tag \in {"text", "json", "bytes"}
              THEN With(LengthPrefixed(blob, at + 1), LAMBDA s : IF IsLost(s) THEN Lost ELSE Read(<<tag, s.value>>, s.at))
         ELSE IF tag \in DOMAIN Fields
              THEN With(TakeMany(blob, at + 1, Fields[tag]), LAMBDA f : IF IsLost(f) THEN Lost ELSE Read(<<tag>> \o f.value, f.at))
         ELSE IF tag = "stamp"
              THEN IF at + 2 \notin DOMAIN blob THEN Lost
                   ELSE IF blob[at + 2] = 0 THEN Read(<<"ts", blob[at + 1]>>, at + 3)
                   ELSE IF blob[at + 2] = 1 /\ at + 3 \in DOMAIN blob THEN Read(<<"tsz", blob[at + 1], blob[at + 3]>>, at + 4)
                   ELSE Lost
         ELSE IF tag \in {"array", "row"} /\ at + 1 \in DOMAIN blob
              THEN With(DecodeMany(blob, at + 2, depth, blob[at + 1], <<>>), LAMBDA s : IF IsLost(s) THEN Lost ELSE Read(<<tag, s.value>>, s.at))
         ELSE IF tag = "map" /\ at + 1 \in DOMAIN blob
              THEN With(DecodeMany(blob, at + 2, depth, 2 * blob[at + 1], <<>>), LAMBDA s :
                       IF IsLost(s) THEN Lost
                       ELSE Read(<<tag, [i \in 1 .. Len(s.value) \div 2 |-> <<s.value[2 * i - 1], s.value[2 * i]>>]>>, s.at))
         ELSE IF tag = "unknown"
              THEN With(LengthPrefixed(blob, at + 1), LAMBDA type :
                       IF IsLost(type) \/ type.at \notin DOMAIN blob THEN Lost
                       ELSE IF blob[type.at] \notin 0 .. 3 THEN Lost
                       ELSE With(IF blob[type.at] % 2 = 1 THEN LengthPrefixed(blob, type.at + 1) ELSE Read(<<>>, type.at + 1), LAMBDA text :
                            With(IF IsLost(text) THEN Lost
                                 ELSE IF blob[type.at] \div 2 = 1 THEN LengthPrefixed(blob, text.at) ELSE Read(<<>>, text.at), LAMBDA raw :
                                IF IsLost(raw) THEN Lost
                                ELSE Read(<<tag, type.value, IF blob[type.at] % 2 = 1 THEN <<text.value>> ELSE <<>>,
                                            IF blob[type.at] \div 2 = 1 THEN <<raw.value>> ELSE <<>>>>, raw.at))))
         ELSE Lost)
DecodeMany(blob, at, depth, n, done) ==
    IF n = 0 THEN Read(done, at)
    ELSE IF TooDeep(depth) THEN Lost
    ELSE With(DecodeValue(blob, at, depth + 1), LAMBDA item :
              IF IsLost(item) THEN Lost ELSE DecodeMany(blob, item.at, depth, n - 1, Append(done, item.value)))

\* --- The encodings ------------------------------------------------------------------------------------

\* What one cell asks of its column.
KindOf(v) ==
    CASE v[1] = "int" -> <<"i64">>
      [] v[1] = "uint" -> <<"u64">>
      [] v[1] = "float" -> <<"f64">>
      [] v[1] = "dec" -> IF v[3] > MaxScale \/ Magnitude(v[2]) >= DecimalLimit THEN <<"tagged">> ELSE <<"dec", v[3]>>
      [] v[1] = "tsz" -> IF v[3] % 60 = 0 THEN <<"tsz", v[3]>> ELSE <<"tagged">>
      [] v[1] = "interval" -> IF Magnitude(v[4]) * Nanos > MaxNanos THEN <<"tagged">> ELSE <<"interval">>
      [] v[1] \in {"array", "row", "map", "unknown"} -> <<"tagged">>
      [] OTHER -> <<v[1]>>

\* pick_encoding and merge_kinds: cells that disagree make the column tagged.
PickEncoding(column) ==
    With({KindOf(v) : v \in {w \in Range(column) : ~ IsNull(w)}}, LAMBDA kinds :
        IF kinds = {} THEN Null ELSE IF Cardinality(kinds) = 1 THEN CHOOSE k \in kinds : TRUE ELSE <<"tagged">>)

\* format_tz.
FormatTz(offset) == WriteOffset(offset)

TypeOfKind(kind) ==
    CASE kind[1] = "dec" -> <<"Decimal128", kind[2]>>
      [] kind[1] = "tsz" -> <<"Timestamp", FormatTz(kind[2])>>
      [] kind[1] = "ts" -> <<"Timestamp", <<>>>>
      [] kind[1] \in {"text", "json"} -> <<"Utf8">>
      [] kind[1] \in {"bytes", "tagged"} -> <<"Binary">>
      [] OTHER -> <<kind[1]>>

Stored(kind, v) ==
    CASE kind[1] = "tagged" -> EncodeValue(v)
      [] kind[1] = "interval" -> <<v[2], v[3], v[4] * Nanos>>
      [] kind[1] = "f64" -> Tail(v)
      [] OTHER -> v[2]

\* build_column: a cell is absent or its stored form.
BuildColumn(kind, column) ==
    [enc |-> kind[1], type |-> TypeOfKind(kind),
     cells |-> [r \in DOMAIN column |-> IF IsNull(column[r]) THEN <<>> ELSE <<Stored(kind, column[r])>>]]

ColumnOf(rows, c) == [r \in DOMAIN rows |-> rows[r][c]]
SealColumns(rows) ==
    [c \in DOMAIN rows[1] |-> With(ColumnOf(rows, c), LAMBDA column : BuildColumn(PickEncoding(column), column))]

\* Only a tagged column can refuse a value.
CanSeal(rows) ==
    \A c \in DOMAIN rows[1] :
        PickEncoding(ColumnOf(rows, c)) = <<"tagged">> => \A r \in DOMAIN rows : Depth(rows[r][c]) <= MaxDepth

\* check_compatible.
Compatible(enc, type) ==
    CASE enc = "dec" -> type[1] = "Decimal128"
      [] enc = "ts" -> type = <<"Timestamp", <<>>>>
      [] enc = "tsz" -> type[1] = "Timestamp" /\ type[2] # <<>>
      [] enc \in {"text", "json"} -> type = <<"Utf8">>
      [] enc \in {"bytes", "tagged"} -> type = <<"Binary">>
      [] OTHER -> type = <<enc>>

\* offset_of: three spellings, or none.
OffsetOf(zone) ==
    With(<<SubSeq(zone, 2, 3), IF Len(zone) = 3 THEN <<"0">> ELSE SubSeq(zone, Len(zone) - 1, Len(zone))>>, LAMBDA part :
        IF \/ zone[1] \notin {"+", "-"} \/ Len(zone) \notin {3, 5, 6} \/ (Len(zone) = 6 /\ zone[4] # ":")
           \/ ~ AllDigits(part[1]) \/ ~ AllDigits(part[2])
        THEN <<>>
        ELSE IF ValueOf(part[1]) > 23 \/ ValueOf(part[2]) > 59 THEN <<>>
        ELSE <<(IF zone[1] = "-" THEN -1 ELSE 1) * (3600 * ValueOf(part[1]) + 60 * ValueOf(part[2]))>>)

\* value_at.
ValueAtRow(column, r) ==
    IF ~ Compatible(column.enc, column.type) THEN Error
    ELSE IF column.cells[r] = <<>> THEN Null
    ELSE With(column.cells[r][1], LAMBDA raw :
         CASE column.enc = "i64" -> <<"int", raw>>
           [] column.enc = "u64" -> <<"uint", raw>>
           [] column.enc = "f64" -> <<"float">> \o raw
           [] column.enc = "dec" -> <<"dec", raw, column.type[2]>>
           [] column.enc = "tsz" -> With(OffsetOf(column.type[2]), LAMBDA o : IF o = <<>> THEN Error ELSE <<"tsz", raw, o[1]>>)
           [] column.enc = "interval" -> <<"interval", raw[1], raw[2], raw[3] \div Nanos>>
           [] column.enc = "tagged" ->
                 With(DecodeValue(raw, 1, 0), LAMBDA v : IF IsLost(v) \/ v.at <= Len(raw) THEN Error ELSE v.value)
           [] OTHER -> <<column.enc, raw>>)

\* --- The flags and the statistics of a chunk ----------------------------------------------------------

Openable(v) == ~ IsNull(v) /\ CellOpenableText(WriteText(v))
Numeric(v) == ~ IsNull(v) /\ IsSwiftPlainNumber(WriteText(v))

\* A bitmap, or none when no bit is set.
Bitmap(bits) == IF \E r \in DOMAIN bits : bits[r] THEN <<bits>> ELSE <<>>

FlagsOf(c, column) ==
    With([r \in DOMAIN column.cells |-> ValueAtRow(column, r)], LAMBDA values :
        [openable |-> IF c \in Structured \/ column.enc \notin {"text", "json", "tagged"} THEN <<>>
                      ELSE Bitmap([r \in DOMAIN values |-> Openable(values[r])]),
         numeric |-> IF column.enc \notin {"text", "json", "tagged", "bytes"} THEN <<>>
                     ELSE Bitmap([r \in DOMAIN values |-> Numeric(values[r])])])

Chunk(columns) == [columns |-> columns, flags |-> [c \in DOMAIN columns |-> FlagsOf(c, columns[c])]]

NoStats == [variants |-> {}, scale |-> 0, uniform |-> TRUE, offset |-> <<>>, overflow |-> FALSE, rows |-> 0]

Variant(v) == IF v[1] \in {"array", "row", "map"} THEN "composite" ELSE v[1]

\* Two offsets that disagree leave a mark that is no offset.
Disagree == <<-86400 * 365>>

Observe(s, v) ==
    IF IsNull(v) THEN [s EXCEPT !.rows = @ + 1]
    ELSE [s EXCEPT !.rows = @ + 1, !.variants = @ \cup {Variant(v)},
            !.uniform = @ /\ ~ (v[1] = "dec" /\ "dec" \in s.variants /\ v[3] # s.scale),
            !.scale = IF v[1] = "dec" /\ v[3] > @ THEN v[3] ELSE @,
            !.offset = IF v[1] # "tsz" THEN @ ELSE IF @ = <<>> THEN <<v[3]>> ELSE IF @ = <<v[3]>> THEN @ ELSE Disagree,
            !.overflow = @ \/ (v[1] = "dec" /\ Magnitude(v[2]) >= DecimalLimit)
                           \/ (v[1] = "interval" /\ Magnitude(v[4]) * Nanos > MaxNanos)]

StatsOf(column) == FoldLeft(LAMBDA s, r : Observe(s, ValueAtRow(column, r)), NoStats, [r \in DOMAIN column.cells |-> r])

\* merge_stats.
Merge(into, delta) ==
    IF into.rows = 0 THEN delta
    ELSE [variants |-> into.variants \cup delta.variants,
          scale    |-> IF delta.scale > into.scale THEN delta.scale ELSE into.scale,
          uniform  |-> into.uniform /\ delta.scale = into.scale,
          offset   |-> IF into.offset = <<>> THEN delta.offset
                       ELSE IF delta.offset = <<>> \/ delta.offset = into.offset THEN into.offset ELSE Disagree,
          overflow |-> into.overflow \/ delta.overflow,
          rows     |-> into.rows + delta.rows]

\* --- The record of a chunk in the spill file ------------------------------------------------------------

\* A byte is the set of its bits.
Words(rows) == (rows + WordBits - 1) \div WordBits
PackBits(bits) ==
    [w \in 1 .. Words(Len(bits)) |-> {b \in 0 .. WordBits - 1 : (w - 1) * WordBits + b + 1 \in {r \in DOMAIN bits : bits[r]}}]
Unpack(bytes, rows) == [r \in 1 .. rows |-> (r - 1) % WordBits \in bytes[((r - 1) \div WordBits) + 1]]

\* encode_flags: which bitmaps each column has, then the bitmaps.
Present(f) == {b \in {0, 1} : (b = 0 /\ f.openable # <<>>) \/ (b = 1 /\ f.numeric # <<>>)}
EncodeFlags(flags) ==
    [c \in DOMAIN flags |-> Present(flags[c])]
      \o FlattenSeq([c \in DOMAIN flags |->
            FlattenSeq([i \in DOMAIN flags[c].openable |-> PackBits(flags[c].openable[i])])
              \o FlattenSeq([i \in DOMAIN flags[c].numeric |-> PackBits(flags[c].numeric[i])])])

\* A slip: the numeric bitmap first.
DecodeNumericFirst(bytes, width, rows) ==
    FoldLeft(LAMBDA r, c :
        With(IF 1 \in bytes[c] THEN Words(rows) ELSE 0, LAMBDA n : With(IF 0 \in bytes[c] THEN Words(rows) ELSE 0, LAMBDA o :
            IF r.at = 0 \/ r.at + o + n - 1 > Len(bytes) THEN Lost
            ELSE Read(Append(r.value, [openable |-> IF o = 0 THEN <<>> ELSE <<Unpack(SubSeq(bytes, r.at + n, r.at + n + o - 1), rows)>>,
                                       numeric |-> IF n = 0 THEN <<>> ELSE <<Unpack(SubSeq(bytes, r.at, r.at + n - 1), rows)>>]),
                      r.at + o + n))),
        Read(<<>>, width + 1), [c \in 1 .. width |-> c])

\* decode_flags.
DecodeFlags(bytes, width, rows) ==
    FoldLeft(LAMBDA r, c :
        With(IF 0 \in bytes[c] THEN Words(rows) ELSE 0, LAMBDA o : With(IF 1 \in bytes[c] THEN Words(rows) ELSE 0, LAMBDA n :
            IF r.at = 0 \/ r.at + o + n - 1 > Len(bytes) THEN Lost
            ELSE Read(Append(r.value, [openable |-> IF o = 0 THEN <<>> ELSE <<Unpack(SubSeq(bytes, r.at, r.at + o - 1), rows)>>,
                                       numeric |-> IF n = 0 THEN <<>> ELSE <<Unpack(SubSeq(bytes, r.at + o, r.at + o + n - 1), rows)>>]),
                      r.at + o + n))),
        Read(<<>>, width + 1), [c \in 1 .. width |-> c])

RowsOf(columns) == Len(columns[1].cells)

EncodeRecord(chunk) == [ipc |-> chunk.columns, flags |-> EncodeFlags(chunk.flags)]

\* decode_record: a chunk, or none.
DecodeRecord(record) ==
    With(DecodeFlags(record.flags, Len(record.ipc), RowsOf(record.ipc)), LAMBDA f :
        IF \/ IsLost(f) \/ f.at <= Len(record.flags)
           \/ \E c \in DOMAIN record.ipc : ~ Compatible(record.ipc[c].enc, record.ipc[c].type)
        THEN <<>>
        ELSE <<[columns |-> record.ipc, flags |-> f.value]>>)

\* SpillCipher::open: the record of this chunk, under its nonce, as it was sealed.
Opens(sealed, index, n) == sealed.index = index /\ sealed.nonce = n /\ sealed.whole

\* load_chunk.
LoadChunk(i) ==
    IF chunks[i].resident # <<>> THEN chunks[i].resident
    ELSE With(disk[chunks[i].offset], LAMBDA sealed :
              IF Opens(sealed, i, chunks[i].nonce) THEN DecodeRecord(sealed.plain) ELSE <<>>)

\* chunk_for_row: the last chunk that does not begin after the row; rows count from 0.
ChunkForRow(row) == Max({0} \cup {i \in DOMAIN chunks : chunks[i].first <= row})

\* --- The schema SQL sees --------------------------------------------------------------------------------

LogicalType(s) ==
    IF s.variants = {} THEN Null
    ELSE IF Cardinality(s.variants) > 1 THEN <<"Utf8">>
    ELSE With(CHOOSE v \in s.variants : TRUE, LAMBDA v :
         CASE v = "dec" -> IF s.uniform /\ ~ s.overflow THEN <<"Decimal128", s.scale>> ELSE <<"Utf8">>
           [] v = "tsz" -> <<"Timestamp", IF s.offset = Disagree THEN <<"U", "T", "C">> ELSE WriteOffset(s.offset[1])>>
           [] v = "interval" -> IF s.overflow THEN <<"Utf8">> ELSE <<"interval">>
           [] v \in {"composite", "unknown"} -> <<"Utf8">>
           [] OTHER -> TypeOfKind(KindOf(<<v>>)))

\* utf8_array: an empty text is absent.
Utf8Column(column) ==
    [type |-> <<"Utf8">>,
     cells |-> [r \in DOMAIN column.cells |->
                  With(WriteText(ValueAtRow(column, r)), LAMBDA t : IF t = <<>> THEN <<>> ELSE <<t>>)]]

\* shift_timestamps.
Shifted(column, zone) ==
    With(OffsetOf(column.type[2]), LAMBDA from : With(OffsetOf(zone), LAMBDA to :
    With(((IF from = <<>> THEN 0 ELSE from[1]) - (IF to = <<>> THEN 0 ELSE to[1])) * Second, LAMBDA delta :
        [type |-> <<"Timestamp", zone>>,
         cells |-> [r \in DOMAIN column.cells |-> IF column.cells[r] = <<>> THEN <<>> ELSE <<column.cells[r][1] + delta>>]])))

\* build_logical_array.
LogicalColumn(column, type) ==
    IF type = <<"Utf8">> THEN Utf8Column(column)
    ELSE IF type[1] = "Timestamp" /\ column.enc = "tsz" THEN Shifted(column, type[2])
    ELSE IF type = Null THEN [type |-> Null, cells |-> [r \in DOMAIN column.cells |-> <<>>]]
    ELSE IF column.type = type THEN [type |-> type, cells |-> column.cells]
    ELSE Utf8Column(column)

\* logical_batch: Arrow refuses a column that is not of its type.
LogicalBatch(columns) ==
    With([c \in DOMAIN columns |-> LogicalColumn(columns[c], LogicalType(stats[c]))], LAMBDA logical :
        IF \A c \in DOMAIN logical : logical[c].type = LogicalType(stats[c]) THEN logical ELSE <<>>)

\* --- Batches of the analytics helper ---------------------------------------------------------------------

\* An Arrow array: its type, which rows it has, what they hold, its children and where their rows begin.
InMicros(raw, unit) ==
    CASE unit = "s" -> raw * Second [] unit = "ms" -> raw * Milli [] unit = "us" -> raw [] unit = "ns" -> raw \div Nanos

\* What Arrow's own display makes of a cell.
Displayed == <<"text", <<"A">>>>

OffsetAt(zone, micros) == IF micros < Zones[zone].at THEN Zones[zone].before ELSE Zones[zone].after

ArrowStamp(micros, zone) ==
    IF Magnitude(micros) > MaxMicros THEN Displayed
    ELSE IF zone = Absent THEN <<"ts", micros>>
    ELSE IF Magnitude(micros) > MaxZoned THEN Displayed
    ELSE <<"tsz", micros, OffsetAt(zone, micros)>>

\* rescale and decimal.
I128Max == (17 * DecimalLimit) \div 10
ArrowDecimal(unscaled, scale) ==
    With(IF scale < 0 THEN unscaled * 10 ^ (-scale) ELSE unscaled, LAMBDA n :
        IF Magnitude(n) > I128Max THEN Displayed ELSE <<"dec", n, IF scale < 0 THEN 0 ELSE scale>>)

ArrowCell(type, raw, json) ==
    CASE type[1] = "utf8" -> <<IF json THEN "json" ELSE "text", raw>>
      [] type[1] = "timestamp" -> ArrowStamp(InMicros(raw, type[2]), type[3])
      [] type[1] = "time" -> <<"time", InMicros(raw, type[2])>>
      [] type[1] = "duration" ->
            With(InMicros(raw, type[2]), LAMBDA m : IF Magnitude(m) > MaxMicros THEN Displayed ELSE <<"interval", 0, 0, m>>)
      [] type[1] = "interval" -> <<"interval", raw[1], raw[2], InMicros(raw[3], type[2])>>
      [] type[1] = "decimal" -> ArrowDecimal(raw, type[2])
      [] type[1] = "float" -> <<"float">> \o raw
      [] type[1] = "view" -> Displayed
      [] OTHER -> <<type[1], raw>>

\* Converter::cells: a column at a time, its children before it.
RECURSIVE ArrowCells(_, _)
ArrowCells(a, json) ==
    With([k \in DOMAIN a.kids |-> ArrowCells(a.kids[k], json /\ a.type[1] = "dictionary")], LAMBDA kids :
        [r \in DOMAIN a.valid |->
            IF a.type[1] = "union" THEN kids[a.raw[r][1]][a.raw[r][2]]
            ELSE IF ~ a.valid[r] THEN Null
            ELSE CASE a.type[1] = "dictionary" -> kids[1][a.raw[r]]
                   [] a.type[1] = "list" -> <<"array", SubSeq(kids[1], a.raw[r][1] + 1, a.raw[r][2])>>
                   [] a.type[1] = "fixed" -> <<"array", SubSeq(kids[1], (r - 1) * a.type[2] + 1, r * a.type[2])>>
                   [] a.type[1] = "struct" -> <<"row", [k \in DOMAIN kids |-> kids[k][r]]>>
                   [] a.type[1] = "map" ->
                         <<"map", [i \in 1 .. a.raw[r][2] - a.raw[r][1] |-> <<kids[1][a.raw[r][1] + i], kids[2][a.raw[r][1] + i]>>]>>
                   [] OTHER -> ArrowCell(a.type, a.raw[r], json)])

\* Converter::zone: a zone nobody knows fails the batch.
RECURSIVE ZonesKnown(_)
ZonesKnown(a) ==
    /\ a.type[1] = "timestamp" => a.type[3] \in {Absent} \cup DOMAIN Zones
    /\ \A k \in DOMAIN a.kids : ZonesKnown(a.kids[k])

ArrowRows(batch) ==
    With([c \in DOMAIN batch.arrays |-> ArrowCells(batch.arrays[c], c \in batch.json)], LAMBDA columns :
        [r \in DOMAIN columns[1] |-> [c \in DOMAIN columns |-> columns[c][r]]])

(***************************************************************************)
(* The store                                                               *)
(***************************************************************************)

Init ==
    /\ palette \in DOMAIN Palettes
    /\ builder = NewBuilder
    /\ chunks = <<>> /\ disk = <<>> /\ nonce = 1
    /\ stats = <<NoStats, NoStats>>
    /\ failed = FALSE /\ source = <<>>

Resident(chunk, first) == [resident |-> <<chunk>>, first |-> first, offset |-> 0, nonce |-> 0]

\* publish, for each of the pieces of rows.
Publish(pieces) ==
    /\ chunks' = chunks \o
          [p \in DOMAIN pieces |->
              Resident(Chunk(SealColumns(pieces[p])), Len(source) + Len(FlattenSeq(SubSeq(pieces, 1, p - 1))))]
    /\ stats' = FoldLeft(LAMBDA s, piece :
                            With(SealColumns(piece), LAMBDA columns : [c \in DOMAIN s |-> Merge(s[c], StatsOf(columns[c]))]),
                        stats, pieces)
    /\ source' = source \o FlattenSeq(pieces)

Writable(n) == ~ failed /\ builder.rows = <<>> /\ Len(source) + n <= MaxRows

\* push: everything is sealed before anything is published.
Push(rows) ==
    /\ Writable(Len(rows))
    /\ \E pieces \in {[p \in DOMAIN Pieces(rows) |-> Pieces(rows)[p].rows]} :
          \/ /\ \A p \in DOMAIN pieces : CanSeal(pieces[p])
             /\ Publish(pieces) /\ UNCHANGED failed
          \/ /\ \E p \in DOMAIN pieces : ~ CanSeal(pieces[p])
             /\ failed' = TRUE /\ UNCHANGED <<chunks, stats, source>>
    /\ UNCHANGED <<palette, builder, disk, nonce>>

\* A fetch of the run: a cursor may hand over more than was asked for.
Fetch(rows, take) ==
    /\ Writable(take)
    /\ builder' = Truncate(PushOwned(NewBuilder, rows), take)
    /\ UNCHANGED <<palette, chunks, disk, nonce, stats, failed, source>>

\* split_sealable, seal, push_chunk: one piece of the fetch.
PushPiece ==
    /\ builder.rows # <<>>
    /\ \E n \in {Sealable(builder)} : \E piece \in {SubSeq(builder.rows, 1, n)} :
          \/ /\ CanSeal(piece) /\ Publish(<<piece>>)
             /\ builder' = [rows |-> SubSeq(builder.rows, n + 1, Len(builder.rows)),
                            est |-> IF n = Len(builder.rows) THEN 0 ELSE builder.est - Bytes(piece)]
             /\ UNCHANGED failed
          \/ /\ ~ CanSeal(piece)
             /\ failed' = TRUE /\ builder' = NewBuilder /\ UNCHANGED <<chunks, stats, source>>
    /\ UNCHANGED <<palette, disk, nonce>>

\* from_arrow in the helper, push_chunk in the app.
PushArrow(batch) ==
    /\ palette = "arrow" /\ Writable(Len(batch.arrays[1].valid))
    /\ \E rows \in {IF \A c \in DOMAIN batch.arrays : ZonesKnown(batch.arrays[c]) THEN ArrowRows(batch) ELSE <<>>} :
          \/ /\ rows # <<>> /\ CanSeal(rows) /\ Publish(<<rows>>) /\ UNCHANGED failed
          \/ /\ rows = <<>> \/ (rows # <<>> /\ ~ CanSeal(rows))
             /\ failed' = TRUE /\ UNCHANGED <<chunks, stats, source>>
    /\ UNCHANGED <<palette, builder, disk, nonce>>

\* spill_one.  A nonce is taken before the write, whether the disk is full or not.
Spill(i) ==
    /\ chunks[i].resident # <<>> /\ nonce < MaxNonce
    /\ nonce' = nonce + 1
    /\ \/ /\ disk' = Append(disk, [index |-> i, nonce |-> nonce, plain |-> EncodeRecord(chunks[i].resident[1]), whole |-> TRUE])
          /\ chunks' = [chunks EXCEPT ![i].resident = <<>>, ![i].offset = Len(disk) + 1, ![i].nonce = nonce]
       \/ UNCHANGED <<disk, chunks>>
    /\ UNCHANGED <<palette, builder, stats, failed, source>>

\* A record changes on the disk.
Damage(offset) ==
    /\ disk' = [disk EXCEPT ![offset].whole = FALSE]
    /\ UNCHANGED <<palette, builder, chunks, nonce, stats, failed, source>>

Handed(n) == UNION {[1 .. k -> Palettes[palette]] : k \in 1 .. n}

Next ==
    \/ \E rows \in Handed(2) : Push(rows)
    \/ \E rows \in Handed(3), take \in 1 .. 3 : take <= Len(rows) /\ Fetch(rows, take)
    \/ PushPiece
    \/ \E batch \in Batches : PushArrow(batch)
    \/ \E i \in DOMAIN chunks : Spill(i)
    \/ \E offset \in DOMAIN disk : Damage(offset)

Spec == Init /\ [][Next]_vars

\* --- Properties ------------------------------------------------------------------------------------------

\* The chunk of every row that was pushed is found, and when its record is whole the row is read as it
\* was pushed, cell by cell, with the flags its texts ask for; when the record is damaged nothing is
\* read (read.rs:3, "the exact inverse of the encoding table"; spill.rs:5).
RowsRead ==
    \A n \in DOMAIN source : \E i \in {ChunkForRow(n - 1)} :
        /\ i # 0
        /\ \A loaded \in {LoadChunk(i)} :
              /\ loaded = <<>> <=> chunks[i].resident = <<>> /\ ~ disk[chunks[i].offset].whole
              /\ loaded # <<>> =>
                    \A c \in DOMAIN source[n], r \in {n - chunks[i].first} : \A v \in {source[n][c]} :
                        /\ ValueAtRow(loaded[1].columns[c], r) = v
                        /\ \A f \in {loaded[1].flags[c]} :
                              /\ c \notin Structured /\ v[1] \in {"text", "json", "array", "map"} =>
                                    (Openable(v) <=> f.openable # <<>> /\ f.openable[1][r])
                              /\ v[1] \in {"text", "json", "bytes", "map"} => (Numeric(v) <=> f.numeric # <<>> /\ f.numeric[1][r])

\* No chunk is over the limits but for its last row, and the builder's estimate is that of its rows.
WithinLimits ==
    /\ builder.est = Bytes(builder.rows)
    /\ \A i \in DOMAIN chunks :
          \E rows \in {SubSeq(source, chunks[i].first + 1,
                               (IF i = Len(chunks) THEN Len(source) ELSE chunks[i + 1].first) - 1)} :
              palette # "arrow" => Len(rows) < ChunkMaxRows /\ Bytes(rows) < ChunkTargetBytes

\* SQL reads the texts the grid shows, or gets an error: in a column that is not text, the values
\* themselves.  Two exceptions: an empty text is absent, against
\* logical.rs:7 "never becomes a silent NULL" (utf8_array); and where a column's offsets
\* disagree, the moments of a chunk that has one offset are later by that offset, against logical.rs:88
\* "the instant, in UTC" (shift_timestamps; the ignored test a_zone_relabel_keeps_the_instant).
LogicalTrue ==
    \A i \in DOMAIN chunks : \A loaded \in {LoadChunk(i)} : loaded # <<>> =>
        \A logical \in {LogicalBatch(loaded[1].columns)} :
            \A c \in DOMAIN logical, r \in 1 .. RowsOf(loaded[1].columns) : \A v \in {ValueAtRow(loaded[1].columns[c], r)} :
                \/ /\ stats[c].offset = Disagree /\ v[1] = "tsz" /\ logical[c].type[1] = "Timestamp"
                   /\ logical[c].cells[r] = <<v[2] + v[3] * Second>>
                \/ logical[c].cells[r] = <<>> /\ (IsNull(v) \/ WriteText(v) = <<>>)
                \/ logical[c].type = <<"Utf8">> /\ logical[c].cells[r] = <<WriteText(v)>>
                \/ logical[c].type # <<"Utf8">> /\ logical[c].cells[r] = loaded[1].columns[c].cells[r]
                      /\ logical[c].type = loaded[1].columns[c].type

\* A nonce is used for one record, and a blob is read whole or not at all (tagged.rs:173).
SealedOnce ==
    /\ \A a, b \in DOMAIN disk : disk[a].nonce = disk[b].nonce => a = b
    /\ \A n \in DOMAIN source : \A c \in DOMAIN source[n] : \A blob \in {EncodeValue(source[n][c])} :
          \A cut \in 0 .. Len(blob) - 1 : IsLost(DecodeValue(SubSeq(blob, 1, cut), 1, 0))

CellsKept == RowsRead /\ WithinLimits /\ LogicalTrue /\ SealedOnce
=============================================================================
