--------------------------- MODULE ArrowRoundTrips ---------------------------
(***************************************************************************)
(* What becomes of the data of a table on its way: the schema, the values  *)
(* and the messages come out as they went in.                              *)
(***************************************************************************)
EXTENDS ArrowTable, ArrowBatches

-----------------------------------------------------------------------------
\* What a value of a type is, and how it reads: written for the properties, without
\* the units, offsets and slots of the arrays.

UnitUs(unit) == CASE unit = "s" -> Kilo^2 [] unit = "ms" -> Kilo [] OTHER -> 1

RECURSIVE Representable(_, _)
Representable(t, v) ==
    \/ v = Nothing
    \/ t.id = "BOOL" /\ v[1] = "bool"
    \/ t.id \in Ints /\ v[1] = "int" /\ Wrap(t.id, v[2]) = v[2]
    \/ t.id = "UINT64" /\ v[1] = "number" /\ v[2] \in {n * DigitUnit(0) : n \in MaxInt64..(2^W64 - 1)}
    \/ t.id \in Floats /\ v[1] = "float"
    \/ t.id \in {"STRING", "LARGE_STRING"} /\ v[1] = "string"
    \/ t.id \in {"BINARY", "LARGE_BINARY"} /\ v[1] = "binary"
    \/ t.id = "FIXED_SIZE_BINARY" /\ v[1] = "binary" /\ Len(v[2]) = t.size
    \/ t.id \in {"DATE32", "DATE64", "TIMESTAMP", "TIME32", "TIME64"} /\ v[1] = "date"
    \/ t.id = "DURATION" /\ v[1] = "duration" /\ (t.unit = "s" \/ v = DurationOf(v[2]))
    \/ t.id \in {"DECIMAL128", "DECIMAL256"} /\ Numeric(v) /\ NumberValue(v) % DigitUnit(t.scale) = 0
    \/ /\ t.id = "STRUCT" /\ v[1] = "hash"
       /\ \A i \in 1..Len(t.kids) : Representable(t.kids[i].type, Lookup(v, t.kids[i].name))
       /\ \A i, j \in 1..Len(t.kids) : t.kids[i].name = t.kids[j].name => i = j
    \/ /\ t.id \in Lists /\ v[1] = "list"
       /\ t.id = "FIXED_SIZE_LIST" => Len(v[2]) = t.size
       /\ \A i \in 1..Len(v[2]) : Representable(t.kids[1].type, v[2][i])
    \/ /\ t.id = "MAP" /\ v[1] = "hash" /\ KeyType(t).id = "STRING"
       /\ \A i \in 1..Len(v[2]) : Representable(ItemType(t), v[2][i][2])

\* r is how the value v of the type t reads; the time of a day as that time on the
\* epoch's day, in UTC.
RECURSIVE Reads(_, _, _)
Reads(t, v, r) ==
    CASE v = Nothing -> r = Nothing
      [] v # Nothing /\ r = Nothing -> FALSE
      [] OTHER ->
         CASE t.id \in {"DATE32", "DATE64"} -> LocalDay(r) = LocalDay(v)
           [] t.id = "TIMESTAMP" -> r[2] = v[2] - (v[2] % UnitUs(t.unit))
           [] t.id \in {"TIME32", "TIME64"} -> r[2] = TimeOfDay(v) - (TimeOfDay(v) % UnitUs(t.unit))
           [] t.id = "DURATION" -> r[2] = v[2] - Rem(v[2], UnitUs(t.unit))
           [] t.id \in Ints \cup {"DECIMAL128", "DECIMAL256"} -> NumberValue(r) = NumberValue(v)
           [] t.id = "STRUCT" ->
                /\ [i \in 1..Len(r[2]) |-> r[2][i][1]] = [i \in 1..Len(t.kids) |-> t.kids[i].name]
                /\ \A i \in 1..Len(t.kids) : Reads(t.kids[i].type, Lookup(v, t.kids[i].name), r[2][i][2])
           [] t.id \in Lists ->
                Len(r[2]) = Len(v[2]) /\ \A i \in 1..Len(v[2]) : Reads(t.kids[1].type, v[2][i], r[2][i])
           [] t.id = "MAP" ->
                /\ [i \in 1..Len(r[2]) |-> r[2][i][1]] = [i \in 1..Len(v[2]) |-> v[2][i][1]]
                /\ \A i \in 1..Len(v[2]) : Reads(ItemType(t), v[2][i][2], r[2][i][2])
           [] OTHER -> r = v

Distinct(fields) == \A i, j \in 1..Len(fields) : fields[i].name = fields[j].name => i = j

\* The types whose name and children say all there is, in a field and below it, with
\* metadata that has no key twice
RECURSIVE Plain(_)
Plain(f) ==
    /\ f.type.id \notin {"DICTIONARY"} \cup Unions
    /\ f.type.id = "MAP" => f.type = MapType(Type("STRING"), Type("STRING"))
    /\ \A i \in 1..Len(f.type.kids) : Plain(f.type.kids[i])
    /\ \A i, j \in 1..Len(f.metadata) : f.metadata[i][1] = f.metadata[j][1] => i = j

\* The types whose values a ColumnarResult has a type for
RECURSIVE Keeps(_)
Keeps(t) ==
    /\ t.id \notin {"UINT64"} \cup Unions
    /\ \A i \in 1..Len(t.kids) : Keeps(t.kids[i].type)
    /\ t.id = "DICTIONARY" => Keeps(t.dict[2])

\* A value is of the kind that the description of a query's column says.
Suits(desc, v) ==
    LET kind == IF desc.kind = "Auto" THEN desc.column ELSE desc.kind IN
    v[1] = CASE kind \in {"Number", "Decimal128"} -> "number"
             [] kind \in {"Date", "Timestamp"} -> "date"
             [] kind \in {"List", "LargeList", "FixedSizeList"} -> "list"
             [] kind = "Map" -> "hash"
             [] kind = "Int" -> "int"
             [] kind = "Float" -> "float"
             [] kind = "Binary" -> "binary"
             [] kind = "Duration" -> "duration"
             [] OTHER -> "string"

\* Arrow's own rules for an array
RECURSIVE WellFormed(_, _)
WellFormed(t, a) ==
    /\ Len(a.data) = Length(a)
    /\ Len(a.kids) = Len(ChildTypes(t))
    /\ \A i \in 1..Len(a.kids) : WellFormed(ChildTypes(t)[i], a.kids[i])
    /\ t.id \in {"STRUCT", "SPARSE_UNION"} => \A i \in 1..Len(a.kids) : Length(a.kids[i]) = Length(a)
    /\ t.id = "FIXED_SIZE_LIST" => Length(a.kids[1]) = t.size * Length(a)
    /\ HasOffsets(t) =>
         /\ \A i \in 1..Length(a) : Start(a, i) <= a.data[i] /\ a.data[i] <= Length(a.kids[1])
         /\ \A i \in 1..Length(a) : ~a.valid[i] => Start(a, i) = a.data[i]
    /\ t.id = "MAP" => Length(a.kids[1]) = Length(a.kids[2]) /\ \A i \in 1..Length(a.kids[1]) : a.kids[1].valid[i]

WellFormedBatch(b, rows) ==
    /\ Len(b.cols) = Len(b.fields)
    /\ \A i \in 1..Len(b.cols) : Length(b.cols[i]) = rows /\ WellFormed(b.fields[i].type, b.cols[i])

-----------------------------------------------------------------------------
\* Properties

\* A field that is shown as a hash, info(), and defined again from that hash is the
\* same field, with every parameter of its type and every child (maps of other than
\* strings, dictionaries and unions have no hash of their own).
SchemaSurvives ==
    \A i \in 1..Len(schema) : Plain(schema[i]) => HashToField(FieldToHash(schema[i])) = schema[i]

\* The arrays that are built or made of a ColumnarResult keep Arrow's rules, which
\* no step checks: as many slots as rows, the fields of a struct as long as the
\* struct, offsets that rise and end within the elements, no null key in a map.
WellFormedArrays ==
    /\ at \in {"built", "sent", "read"} => WellFormedBatch(SentBatch, RowCount)
    /\ at = "again" => WellFormedBatch(again, again.rows)

\* A value that the type of its column can hold reads back, at the peer, as the
\* value it was to the precision of the type: whatever the other rows hold, however
\* deeply it is nested, null or not.  A duration in a unit below the second is left out
\* where getRelativeMicroseconds() counts its whole seconds too: what is written is
\* then the seconds twice (appendToBuilder()'s secs * unit + us).
RowsSurvive ==
    (/\ at = "read" /\ input.by \in {"columns", "rows"} /\ Distinct(schema)
     /\ \A i \in 1..Len(schema) : schema[i].type.tz \in {"", "UTC"}) =>
    LET rows == ToRows(batch)
        Given(r, name) == IF input.by = "rows" THEN Lookup(input.data[r], name) ELSE Lookup(input.data, name)[2][r]
    IN  /\ rows # Throws
        /\ Len(rows[2]) = RowCount
        /\ \A r \in 1..RowCount, i \in 1..Len(schema) :
              Lookup(ToColumns(batch), schema[i].name)[2][r] = Lookup(rows[2][r], schema[i].name)
        /\ \A r \in 1..RowCount, i \in 1..Len(schema) :
              Representable(schema[i].type, Given(r, schema[i].name)) =>
                 Reads(schema[i].type, Given(r, schema[i].name), Lookup(rows[2][r], schema[i].name))

\* Every buffer's bytes are in the body where the header, which Arrow writes, says
\* that the buffer starts.
BodyMatchesHeader ==
    at = "sent" =>
    LET sizes == BatchBuffers(wire.batch) IN
    \A k \in 1..Len(sizes) : \A j \in 1..sizes[k] :
        /\ HeaderOffsets(sizes)[k] + j <= Len(wire.body)
        /\ wire.body[HeaderOffsets(sizes)[k] + j] = k

\* A batch that is made a ColumnarResult and a batch again has the same values,
\* over dense buffers and over lists.
ColumnsSurvive ==
    at = "again" /\ batch # NoBatch =>
    \A i \in 1..Len(batch.cols) : Keeps(batch.fields[i].type) =>
        ArrayToList(again.fields[i].type, again.cols[i]) = ArrayToList(batch.fields[i].type, batch.cols[i])

\* The result of a query that is made a batch has the values of the query: the type
\* made of a column's description can hold the values the description is for.
QueriesSurvive ==
    at = "again" /\ input.by = "query" =>
    \A i \in 1..Len(columns) : \A r \in 1..again.rows :
        LET t == again.fields[i].type
            v == ColumnValues(columns[i])[r]
        IN  Suits(columns[i].desc, v) => Representable(t, v) /\ Reads(t, v, ToQore(t, again.cols[i], r))

\* What comes in over the bridge can leave over the bridge: the types that one
\* function admits are described so that the other admits them.
BridgeSymmetric ==
    at = "bridged" /\ input.by # "query" =>
    \A i \in 1..Len(batch.fields) : DescriptorSupportsExport(ArrowFieldToDescriptor(batch.fields[i]), "Invalid")

\* The day that is put into a column of dates is the day that is read, wherever the
\* program runs.
DatesSurvive ==
    at = "read" /\ input.by = "columns" =>
    \A i \in 1..Len(schema) : schema[i].type.id \in {"DATE32", "DATE64"} =>
        LET given == Lookup(input.data, schema[i].name)[2]
            read == ArrayToList(batch.fields[i].type, batch.cols[i])[2]
        IN  \A r \in 1..Len(given) : given[r][1] = "date" => LocalDay(read[r]) = LocalDay(given[r])

=============================================================================
