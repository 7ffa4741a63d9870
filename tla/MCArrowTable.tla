---------------------------- MODULE MCArrowTable ----------------------------
\* The tables for TLC.  One column of every type with one to three values, and a
\* few tables of two columns, for the orders of columns, rows and failures.
EXTENDS ArrowRoundTrips

Table(by, fields, data) == [by |-> by, fields |-> fields, data |-> data]

Full(base, unit, tz, precision, scale, size) ==
    [base |-> base, form |-> "full", unit |-> unit, tz |-> tz,
     precision |-> precision, scale |-> scale, size |-> size]
Short(base) == [Full(base, "", "", 0, 0, 0) EXCEPT !.form = "plain"]
TimedName(base, unit) == Full(base, unit, "", 0, 0, 0)

Hash(name, type, kids) ==
    [name |-> name, type |-> type, nullable |-> <<>>,
     metadata |-> << <<"unit", "m">> >>, children |-> kids]
Item(type) == << Hash("item", type, <<>>) >>

\* Hashes of fields, with the values to put into a column of each
Int8 == Hash("x", Short("int8"), <<>>)
Inner == Hash("x", Short("struct"), << Hash("a", Short("uint8"), <<>>), Hash("b", Short("utf8"), <<>>) >>)
Pairs == Hash("x", Short("list"), << [Inner EXCEPT !.name = "item"] >>)
Fixed == Hash("x", Full("fixed_size_list", "", "", 0, 0, 2), Item(Short("utf8")))
Deep == Hash("x", Short("struct"), << [Fixed EXCEPT !.name = "a"], [Pairs EXCEPT !.name = "b"] >>)
PairsMap == Hash("x", Short("map"), << Hash("key", Short("utf8"), <<>>), Hash("value", Short("int16"), <<>>) >>)

H(a, b) == QHash(<< <<"a", a>>, <<"b", b>> >>)
Noon == QDate(DayUs \div 2 + 3, 0)
Dates == {Nothing, Noon, QDate(-1, 0), QDate(DayUs + 1, -1), QDate(2 * DayUs - 1, 1)}
Numbers == {Nothing, QNumber(3 * DigitUnit(1)), QNumber(-DigitUnit(2)), QInt(1), QString("a")}

Cases ==
    {<<Hash("x", Short(n), <<>>), {Nothing, QInt(1), QInt(-1), QInt(2^W8 + 1), QBool(TRUE)}>> :
        n \in {"bool", "int8", "uint16"}}
    \cup {<<Hash("x", Short("uint64"), <<>>), {Nothing, QInt(5), QNumber((MaxInt64 + 2) * DigitUnit(0)), QInt(-1)}>>}
    \cup {<<Hash("x", Short(n), <<>>), {Nothing, QFloat(2), QInt(1)}>> : n \in {"float16", "float64"}}
    \cup {<<Hash("x", Short(n), <<>>), {Nothing, QString(""), QString("abc"), QInt(1)}>> : n \in {"utf8", "large_utf8", "null"}}
    \cup {<<Hash("x", n, <<>>), {Nothing, QBinary(<<>>), QBinary(<<1, 2>>), QString("abc")}>> :
             n \in {Short("binary"), Full("fixed_size_binary", "", "", 0, 0, 2), Short("fixed_size_binary")}}
    \cup {<<Hash("x", n, <<>>), Dates>> :
             n \in {Short("date32"), TimedName("date64", "ms"), TimedName("date64", "day"), Short("timestamp"), TimedName("timestamp", "ns"),
                    TimedName("timestamp", "ms"), Full("timestamp", "s", "UTC", 0, 0, 0),
                    Full("timestamp", "us", "Mars", 0, 0, 0), TimedName("time32", "ms"), TimedName("time32", "s"),
                    TimedName("time64", "ns")}}
    \cup {<<Hash("x", TimedName("duration", u), <<>>), {Nothing, DurationOf(5), DurationOf(-Kilo^2 - 1), TotalDuration(2 * Kilo^2 + 1)}>> :
             u \in {"s", "ms", "us"}}
    \cup {<<Hash("x", n, <<>>), Numbers>> :
             n \in {Full("decimal128", "", "", 3, 1, 0), Full("decimal256", "", "", 4, 2, 0),
                    [Full("decimal128", "", "", 2, 1, 0) EXCEPT !.form = "single"],
                    [Short("decimal128") EXCEPT !.form = "garbled"]}}
    \cup {<<Inner, {Nothing, H(QInt(1), QString("s")), QHash(<< <<"b", QString("t")>> >>), QInt(1)}>>}
    \cup {<<Pairs, {Nothing, QList(<<>>), QList(<<H(QInt(1), Nothing), Nothing>>), QInt(1)}>>}
    \cup {<<Hash("x", Short("large_list"), Item(Short("int8"))),
             {Nothing, QList(<<QInt(1)>>), QList(<<Nothing, QInt(2), QInt(3)>>)}>>}
    \cup {<<Fixed, {Nothing, QList(<<QString("s"), Nothing>>), QList(<<QString("s")>>)}>>}
    \cup {<<Deep, {Nothing, H(QList(<<QString("s"), QString("t")>>), QList(<<H(QInt(2), Nothing)>>)),
                   H(Nothing, QList(<<Nothing>>))}>>}
    \cup {<<PairsMap, {Nothing, QHash(<<>>), H(QInt(1), Nothing), QString("s")}>>}
    \cup {<<NoHash, {Nothing}>>}

\* Tables of one column
Values(S) == {<<>>} \cup {<<v>> : v \in S} \cup {<<v, w, Nothing, v>> : v, w \in S}
Single == UNION {{Table("columns", <<c[1]>>, QHash(<< <<"x", QList(l)>> >>)) : l \in Values(c[2])} : c \in Cases}

\* Tables of two columns; the second may be missing, shorter or of the same name.
Two(second, type, l) ==
    { Table("columns", <<[Fixed EXCEPT !.name = "y"], Hash(second, type, <<>>)>>,
            QHash(<< <<"y", QList(<<Nothing, QList(<<QString("s"), QString("t")>>)>>)>>, <<"x", QList(l)>> >>)) }
ByRows ==
    { Table("rows", <<[Inner EXCEPT !.name = "y"], Hash("x", type, <<>>)>>,
            <<QHash(<< <<"x", v>> >>), QHash(<< <<"y", H(QInt(1), QString("s"))>>, <<"x", w>> >>)>>) :
        type \in {Short("float64"), TimedName("timestamp", "us"), Short("uint8")},
        v \in {Nothing, QFloat(1)}, w \in {Noon, QFloat(1)} }
Pair ==
    UNION {Two("x", t, l) : t \in {Short("int8"), TimedName("duration", "us"), TimedName("timestamp", "ms"), TimedName("timestamp", "us"),
                                   Full("timestamp", "us", "UTC", 0, 0, 0)},
                            l \in {<<QInt(1)>>, <<QInt(1), Nothing>>, <<Noon, Noon>>}}
    \cup Two("z", Short("int8"), <<QInt(1), QInt(1)>>)
    \cup Two("y", Short("utf8"), <<>>)
    \cup { Table("columns", <<Int8, Hash("y", Full("timestamp", "ms", "Mars", 0, 0, 0), <<>>)>>,
                 QHash(<< <<"x", QList(<<QInt(1)>>)>>, <<"y", QList(<<Noon>>)>> >>)) }
    \cup {Table("rows", <<>>, <<QHash(<<>>), QHash(<<>>)>>), Table("columns", <<>>, QHash(<<>>))}

\* Batches of another implementation
Dictionaries == Dictionary(Type("INT32"), Type("STRING"))
Strings == Array(<<TRUE, FALSE>>, <<"s", "">>, <<>>)
Eights == Array(<<TRUE, TRUE>>, <<1, 2>>, <<>>)
UnionOf(id) == Nested(id, <<Field("a", Type("UINT8"), TRUE), Field("b", Type("STRING"), TRUE)>>)
Foreign ==
    { Table("foreign", <<Field("x", Dictionaries, TRUE)>>, <<Array(<<TRUE, FALSE>>, <<i, 0>>, <<Strings>>)>>) : i \in {0, 1, 2} }
    \cup { Table("foreign", <<Field("x", UnionOf("SPARSE_UNION"), TRUE), Field("y", Type("INT8"), FALSE)>>,
                 <<Array(<<TRUE, TRUE>>, <<1, 2>>, <<Eights, Strings>>), Eights>>),
           Table("foreign", <<Field("x", UnionOf("DENSE_UNION"), TRUE), Field("", Type("BOOL"), TRUE)>>,
                 <<Array(<<TRUE, TRUE>>, << <<2, 0>>, <<1, 1>> >>, <<Eights, Strings>>),
                   Array(<<FALSE, TRUE>>, <<FALSE, TRUE>>, <<>>)>>),
           Table("foreign", <<[Field("x", Type("LARGE_BINARY"), TRUE) EXCEPT !.metadata = << <<"k", "1">>, <<"k", "2">> >>]>>,
                 <<Array(<<TRUE, TRUE>>, << <<1>>, <<>> >>, <<>>)>>) }

\* Results of queries: the types a database gives, with values or dense buffers
Queried(kind, column, unit, precision, scale, size, kids) ==
    [name |-> "x", nullable |-> TRUE, kind |-> kind, column |-> column, buffer |-> "Invalid", unit |-> unit,
     tz |-> "", precision |-> precision, scale |-> scale, size |-> size, kids |-> kids]
Auto(column) == Queried("Auto", column, "", 0, 0, 0, <<>>)
Query ==
    { Table("query", <<>>, <<ListColumn("x", q[1], l), ListColumn("y", [Auto("String") EXCEPT !.name = ""], <<QString("s"), Nothing>>)>>) :
        q \in {Auto("Int"), Auto("Number"), Auto("Date"), Auto("Binary"), Queried("Number", "Auto", "", 3, 1, 0, <<>>),
               Queried("Decimal128", "Auto", "", 0, 2, 0, <<>>), Queried("Binary", "Auto", "", 0, 0, 2, <<>>),
               Queried("FixedSizeList", "Auto", "", 0, 0, 0, <<>>), Queried("Timestamp", "Auto", "nano", 0, 0, 0, <<>>),
               Queried("List", "Auto", "", 0, 0, 0, <<Auto("Bool")>>), Queried("Map", "Auto", "", 0, 0, 0, <<>>)} \X {0},
        l \in {<<QInt(1), Nothing>>, <<QNumber(DigitUnit(1)), QNumber(3 * DigitUnit(0))>>, <<Noon, Nothing>>, <<QList(<<QBool(TRUE)>>), QList(<<>>)>>} }
    \cup { Table("query", <<>>,
                 <<[DenseColumn("x", d, "Int64", TRUE, Type("INT64"), Array(<<TRUE, FALSE>>, <<1, 0>>, <<>>)) EXCEPT !.shifted = s],
                   [ListColumn("y", q, <<QFloat(1), Nothing>>) EXCEPT !.desc.name = "y"]>>) :
             s \in BOOLEAN,
             d \in {Auto("Int"), Queried("Int", "Auto", "", 0, 0, 0, <<>>), Queried("Timestamp", "Auto", "us", 0, 0, 0, <<>>),
                    Queried("Duration", "Auto", "milli", 0, 0, 0, <<>>)},
             q \in {Auto("Float"), Queried("LargeList", "Auto", "", 0, 0, 0, <<>>), Queried("Float", "Auto", "", 0, 0, 0, <<>>),
                    Queried("FixedSizeList", "Auto", "", 0, 0, 0, <<>>)} }

\* A second west of UTC
West == -1

AllInputs == Single \cup Pair \cup ByRows \cup Foreign \cup Query

=============================================================================
