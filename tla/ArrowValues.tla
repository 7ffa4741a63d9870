------------------------------ MODULE ArrowValues ------------------------------
(***************************************************************************)
(* Values in Arrow arrays: appendToBuilder(), which puts a Qore value into *)
(* the builder of an array, and scalarToQore(), which reads one back.      *)
(* Integer widths, the factor between the units of time and the length of  *)
(* a day are scaled down, keeping their order.                             *)
(***************************************************************************)
EXTENDS ArrowTypes

CONSTANTS
    Kilo,            \* milliseconds in a second, and so on: 1000
    DaySecs,         \* seconds in a day: 86400
    Zone,            \* the offset of currentTZ() from UTC in seconds
    W8, W16, W32, W64,   \* the widths of the integers in bits
    MaxScale         \* decimal digits (base 2 here) that a number is written with

ASSUME TimeAssumption == {Kilo, DaySecs} \subseteq Nat \ {0} /\ Zone \in Int
ASSUME WidthAssumption ==
    /\ {W8, W16, W32, W64, MaxScale} \subseteq Nat
    /\ 0 < W8 /\ W8 < W16 /\ W16 < W32 /\ W32 < W64

-----------------------------------------------------------------------------
\* Arithmetic of the code: division truncates, casts to a width wrap

Quot(a, b) == IF a >= 0 THEN a \div b ELSE -((-a) \div b)
Rem(a, b) == a - b * Quot(a, b)

Width == [INT8 |-> W8, INT16 |-> W16, INT32 |-> W32, INT64 |-> W64,
          UINT8 |-> W8, UINT16 |-> W16, UINT32 |-> W32, UINT64 |-> W64]
Unsigned == {"UINT8", "UINT16", "UINT32", "UINT64"}

Wrap(id, n) ==
    LET m == n % 2^Width[id] IN
    IF id \notin Unsigned /\ m >= 2^(Width[id] - 1) THEN m - 2^Width[id] ELSE m

MaxInt64 == 2^(W64 - 1) - 1

PerSecond == [s |-> 1, ms |-> Kilo, us |-> Kilo^2, ns |-> Kilo^3]
DayUs == DaySecs * PerSecond.us
DigitUnit(scale) == 2^(MaxScale - scale)

-----------------------------------------------------------------------------
\* Reading fixed-width values

\* A count of units as whole seconds and the microseconds that are left, both of
\* the count's sign; makeAbsolute() and makeRelative() add them up.
Microseconds(unit, n) ==
    LET secs == Quot(n, PerSecond[unit])
        rest == Rem(n, PerSecond[unit])
        us == CASE unit = "s" -> 0
                [] unit = "ms" -> rest * Kilo
                [] unit = "us" -> rest
                [] unit = "ns" -> Quot(rest, Kilo)
    IN  secs * PerSecond.us + us

\* currentTZ(), or the zone of the type, which is known here to be UTC's
ZoneOf(t) == IF t.tz = "" THEN Zone ELSE 0

\* A duration whose getRelativeMicroseconds() is what its whole seconds leave, and one
\* of which it is all: libqore decides, and its source is not in the repository.
DurationOf(us) == QDuration(us, Rem(us, PerSecond.us))
TotalDuration(us) == QDuration(us, us)

ReadScalar(t, x) ==
    CASE t.id = "BOOL" -> QBool(x)
      [] t.id = "UINT64" -> IF x > MaxInt64 THEN QNumber(x * DigitUnit(0)) ELSE QInt(x)
      [] t.id \in Ints \ {"UINT64"} -> QInt(x)
      [] t.id \in Floats -> QFloat(x)
      [] t.id \in {"STRING", "LARGE_STRING"} -> QString(x)
      [] t.id \in {"BINARY", "LARGE_BINARY", "FIXED_SIZE_BINARY"} -> QBinary(x)
      [] t.id = "DATE32" -> QDate(Microseconds("s", x * DaySecs), Zone)
      [] t.id = "DATE64" -> QDate(Microseconds("ms", x), Zone)
      [] t.id = "TIMESTAMP" ->
            IF t.tz \notin {"", "UTC"} THEN Throws ELSE QDate(Microseconds(t.unit, x), ZoneOf(t))
      [] t.id \in {"TIME32", "TIME64"} -> QDate(Microseconds(t.unit, x), Zone)
      [] t.id = "DURATION" -> DurationOf(Microseconds(t.unit, x))
      [] t.id \in {"DECIMAL128", "DECIMAL256"} -> QNumber(x * DigitUnit(t.scale))

-----------------------------------------------------------------------------
\* Writing fixed-width values: what is appended, as a value, a null or nothing at
\* all because an exception is raised

Put(x) == <<"value", x>>
PutNull == <<"null", 0>>
Raises == <<"throws", 0>>

\* Mutant of Count: microseconds are added to nanoseconds.
CountUnscaled(unit, secs, us) ==
    CASE unit = "s" -> secs
      [] unit = "ms" -> secs * Kilo + Quot(us, Kilo)
      [] unit = "us" -> secs * Kilo^2 + us
      [] unit = "ns" -> secs * Kilo^3 + us

\* Seconds and microseconds in units
Count(unit, secs, us) ==
    CASE unit = "s" -> secs
      [] unit = "ms" -> secs * Kilo + Quot(us, Kilo)
      [] unit = "us" -> secs * Kilo^2 + us
      [] unit = "ns" -> secs * Kilo^3 + us * Kilo

\* The date in its own zone: its day, and the time of that day
LocalUs(d) == d[2] + d[3] * PerSecond.us
LocalDay(d) == LocalUs(d) \div DayUs
TimeOfDay(d) == LocalUs(d) % DayUs

WriteTemporal(t, d) ==
    CASE t.id = "DATE32" -> LocalDay(d)
      [] t.id = "DATE64" -> LocalDay(d) * DaySecs * Kilo
      [] t.id = "TIMESTAMP" -> Count(t.unit, d[2] \div PerSecond.us, d[2] % PerSecond.us)
      [] t.id \in {"TIME32", "TIME64"} ->
            Count(t.unit, TimeOfDay(d) \div PerSecond.us, TimeOfDay(d) % PerSecond.us)

\* getRelativeSeconds() and getRelativeMicroseconds(), added up
WriteDuration(t, d) == Count(t.unit, Quot(d[2], PerSecond.us), d[3])

\* The text of a number has as many digits as it needs; rescaling it to fewer
\* digits raises.  The precision is not looked at.
WriteDecimal(t, n) ==
    IF n % DigitUnit(t.scale) = 0 THEN Put(n \div DigitUnit(t.scale)) ELSE Raises

\* What libqore makes of a value where another kind is wanted.  A number beyond
\* an integer's range gives the range's end; a text that is not a string's own is
\* known by the kind of the value it was made from.
AsInt(v) ==
    CASE v[1] \in {"int", "float"} -> v[2]
      [] v[1] = "bool" -> IF v[2] THEN 1 ELSE 0
      [] v[1] = "number" -> IF Quot(v[2], DigitUnit(0)) > MaxInt64 THEN MaxInt64 ELSE Quot(v[2], DigitUnit(0))
      [] OTHER -> 0
AsBool(v) == IF v[1] = "bool" THEN v[2] ELSE AsInt(v) # 0
AsText(v) == IF v[1] = "string" THEN v[2] ELSE v[1]

\* The number that is parsed back from a value's text
Numeric(v) == v[1] \in {"int", "float", "number"}
NumberValue(v) == IF v[1] = "number" THEN v[2] ELSE v[2] * DigitUnit(0)

\* A value of another kind becomes a null here, where only a binary or a date will
\* do, and an exception in a nested type.
WriteScalar(t, v) ==
    CASE t.id = "BOOL" -> Put(AsBool(v))
      [] t.id = "UINT64" /\ v[1] = "number" -> Put(Quot(v[2], DigitUnit(0)) % 2^W64)
      [] t.id \in Ints /\ ~(t.id = "UINT64" /\ v[1] = "number") -> Put(Wrap(t.id, AsInt(v)))
      [] t.id \in Floats -> Put(AsInt(v))
      [] t.id \in {"STRING", "LARGE_STRING"} -> Put(AsText(v))
      [] t.id \in {"BINARY", "LARGE_BINARY"} -> IF v[1] = "binary" THEN Put(v[2]) ELSE PutNull
      [] t.id = "FIXED_SIZE_BINARY" ->
            IF v[1] # "binary" THEN PutNull
            ELSE IF Len(v[2]) # t.size THEN Raises ELSE Put(v[2])
      [] t.id \in {"DATE32", "DATE64", "TIMESTAMP", "TIME32", "TIME64"} ->
            IF v[1] = "date" THEN Put(WriteTemporal(t, v)) ELSE PutNull
      [] t.id = "DURATION" -> IF v[1] = "duration" THEN Put(WriteDuration(t, v)) ELSE PutNull
      [] t.id \in {"DECIMAL128", "DECIMAL256"} ->
            IF Numeric(v) THEN WriteDecimal(t, NumberValue(v)) ELSE Raises
      [] t.id = "NA" -> PutNull
      [] OTHER -> Raises

-----------------------------------------------------------------------------
\* The builders of arrays

HasOffsets(t) == t.id \in {"LIST", "LARGE_LIST", "MAP"}
Start(a, i) == IF i = 1 THEN 0 ELSE a.data[i - 1]

\* The types of the arrays below
ChildTypes(t) ==
    CASE t.id = "MAP" -> <<KeyType(t), ItemType(t)>>
      [] t.id = "DICTIONARY" -> <<t.dict[2]>>
      [] OTHER -> [i \in 1..Len(t.kids) |-> t.kids[i].type]

RECURSIVE EmptyArray(_)
EmptyArray(t) == Array(<<>>, <<>>, [i \in 1..Len(ChildTypes(t)) |-> EmptyArray(ChildTypes(t)[i])])

\* A slot, after the arrays below it have been seen to
Slot(t, a, valid, x, kids) ==
    Array(Append(a.valid, valid), Append(a.data, IF HasOffsets(t) THEN Length(kids[1]) ELSE x), kids)

\* AppendNull().  The arrays below a struct or a list of fixed size get slots too.
RECURSIVE AppendNull(_, _)
AppendNull(t, a) ==
    Slot(t, a, FALSE, 0,
         CASE t.id = "STRUCT" -> [i \in 1..Len(a.kids) |-> AppendNull(ChildTypes(t)[i], a.kids[i])]
           [] t.id = "FIXED_SIZE_LIST" ->
                <<FoldLeft(LAMBDA kid, i : AppendNull(ChildTypes(t)[1], kid), a.kids[1],
                           [i \in 1..t.size |-> i])>>
           [] OTHER -> a.kids)

\* Mutant of AppendTo: a struct leaves out the fields that the hash lacks.
AppendToSparse(t, a, v) ==
    CASE v = Nothing -> AppendNull(t, a)
      [] t.id = "STRUCT" /\ v[1] = "hash" /\ (\A i \in 1..Len(a.kids) : a.kids[i].kids = <<>>) ->
            Slot(t, a, TRUE, 0,
                 [i \in 1..Len(a.kids) |->
                    LET child == Lookup(v, t.kids[i].name)
                        put == WriteScalar(t.kids[i].type, child)
                    IN  IF child = Nothing THEN a.kids[i]
                        ELSE Slot(t.kids[i].type, a.kids[i], put[1] = "value", put[2], <<>>)])
      [] t.kids = <<>> /\ WriteScalar(t, v)[1] # "throws" ->
            Slot(t, a, WriteScalar(t, v)[1] = "value", WriteScalar(t, v)[2], a.kids)
      [] OTHER -> FailedArray

RECURSIVE AppendTo(_, _, _)
\* Values appended one after the other
AppendAll(t, a, values) ==
    FoldLeft(LAMBDA b, v : IF b = FailedArray THEN b ELSE AppendTo(t, b, v), a, values)

\* appendToBuilder()
AppendTo(t, a, v) ==
    LET Below(kids) == IF \E i \in 1..Len(kids) : kids[i] = FailedArray THEN FailedArray
                       ELSE Slot(t, a, TRUE, 0, kids)
        wanted == IF t.id \in {"STRUCT", "MAP"} THEN "hash" ELSE "list"
    IN
    CASE v = Nothing -> AppendNull(t, a)
      [] t.id \in {"STRUCT", "MAP"} \cup Lists /\ v[1] # wanted -> FailedArray
      [] t.id = "FIXED_SIZE_LIST" /\ v[1] = "list" /\ Len(v[2]) # t.size -> FailedArray
      [] t.id = "STRUCT" /\ v[1] = "hash" ->
            Below([i \in 1..Len(a.kids) |-> AppendTo(t.kids[i].type, a.kids[i], Lookup(v, t.kids[i].name))])
      [] t.id = "MAP" /\ v[1] = "hash" ->
            Below(<< AppendAll(KeyType(t), a.kids[1], [i \in 1..Len(v[2]) |-> QString(v[2][i][1])]),
                     AppendAll(ItemType(t), a.kids[2], [i \in 1..Len(v[2]) |-> v[2][i][2]]) >>)
      [] t.id \in Lists /\ v[1] = "list" /\ (t.id = "FIXED_SIZE_LIST" => Len(v[2]) = t.size) ->
            Below(<<AppendAll(t.kids[1].type, a.kids[1], v[2])>>)
      [] t.id \notin {"STRUCT", "MAP"} \cup Lists ->
            LET put == WriteScalar(t, v) IN
            CASE put[1] = "value" -> Slot(t, a, TRUE, put[2], a.kids)
              [] put[1] = "null" -> AppendNull(t, a)
              [] put[1] = "throws" -> FailedArray

ListToArray(t, values) == AppendAll(t, EmptyArray(t), values)

-----------------------------------------------------------------------------
\* Reading arrays

\* setKeyValue(): a key keeps its first place and gets its last value.
SetKey(pairs, key, v) ==
    IF \E i \in 1..Len(pairs) : pairs[i][1] = key
    THEN [i \in 1..Len(pairs) |-> IF pairs[i][1] = key THEN <<key, v>> ELSE pairs[i]]
    ELSE Append(pairs, <<key, v>>)

Collect(keys, values) ==
    IF \E i \in 1..Len(values) : values[i] = Throws THEN Throws
    ELSE QHash(FoldLeft(LAMBDA pairs, i : SetKey(pairs, keys[i], values[i]), <<>>,
                        [i \in 1..Len(keys) |-> i]))

\* Mutant of Elements: the elements are those at the front of the array.
ElementsUnshifted(t, a, i) ==
    IF t.id = "FIXED_SIZE_LIST" THEN [j \in 1..t.size |-> j]
    ELSE [j \in 1..(a.data[i] - Start(a, i)) |-> j]

\* Where the elements of slot i are in the arrays below
Elements(t, a, i) ==
    IF t.id = "FIXED_SIZE_LIST" THEN [j \in 1..t.size |-> (i - 1) * t.size + j]
    ELSE [j \in 1..(a.data[i] - Start(a, i)) |-> Start(a, i) + j]

\* scalarToQore()
RECURSIVE ToQore(_, _, _)
ToQore(t, a, i) ==
    LET At(kid) == [j \in 1..Len(Elements(t, a, i)) |->
                        ToQore(ChildTypes(t)[kid], a.kids[kid], Elements(t, a, i)[j])]
    IN
    CASE ~a.valid[i] \/ t.id = "NA" -> Nothing
      [] a.valid[i] /\ t.id = "STRUCT" ->
            Collect([k \in 1..Len(a.kids) |-> t.kids[k].name],
                    [k \in 1..Len(a.kids) |-> ToQore(t.kids[k].type, a.kids[k], i)])
      [] a.valid[i] /\ t.id \in Lists ->
            IF \E j \in 1..Len(At(1)) : At(1)[j] = Throws THEN Throws ELSE QList(At(1))
      [] a.valid[i] /\ t.id = "MAP" ->
            Collect([j \in 1..Len(At(1)) |-> AsText(At(1)[j])], At(2))
      [] a.valid[i] /\ t.id = "DICTIONARY" ->
            IF a.data[i] < 0 \/ a.data[i] >= Length(a.kids[1]) THEN Throws
            ELSE ToQore(t.dict[2], a.kids[1], a.data[i] + 1)
      [] a.valid[i] /\ t.id = "DENSE_UNION" ->
            ToQore(t.kids[a.data[i][1]].type, a.kids[a.data[i][1]], a.data[i][2] + 1)
      [] a.valid[i] /\ t.id = "SPARSE_UNION" -> ToQore(t.kids[a.data[i]].type, a.kids[a.data[i]], i)
      [] a.valid[i] /\ t.id \notin {"NA", "STRUCT", "MAP", "DICTIONARY"} \cup Lists \cup Unions ->
            ReadScalar(t, a.data[i])

\* The values of an array as a list, or an exception in its place
ArrayToList(t, a) ==
    LET values == [i \in 1..Length(a) |-> ToQore(t, a, i)] IN
    IF \E i \in 1..Len(values) : values[i] = Throws THEN Throws ELSE QList(values)

=============================================================================
