----------------------------- MODULE ArrowBatches -----------------------------
(***************************************************************************)
(* Record batches as a whole: the body of their IPC message, and their     *)
(* rows and columns.  The layout of the message is Arrow's.                *)
(***************************************************************************)
EXTENDS ArrowValues

CONSTANT Alignment    \* of the buffers in an IPC message: 8

ASSUME AlignmentAssumption == Alignment \in Nat \ {0}

-----------------------------------------------------------------------------
\* The body of a message

\* The sizes in bytes of the buffers an array has in a message, as Arrow lays them
\* out: its validity bits, none where no slot is null, its offsets and its values.
Bits(n) == (n + 7) \div 8
ByteWidth(t) ==
    CASE t.id \in {"INT8", "UINT8"} -> 1
      [] t.id \in {"INT16", "UINT16", "HALF_FLOAT"} -> 2
      [] t.id \in {"INT32", "UINT32", "FLOAT", "DATE32", "TIME32", "DICTIONARY"} -> 4
      [] t.id = "DECIMAL128" -> 16
      [] t.id = "DECIMAL256" -> 32
      [] t.id = "FIXED_SIZE_BINARY" -> t.size
      [] OTHER -> 8
OffsetWidth(t) == IF t.id \in {"LARGE_STRING", "LARGE_BINARY", "LARGE_LIST"} THEN 8 ELSE 4

Sum(sizes) == FoldLeft(LAMBDA x, y : x + y, 0, sizes)
ValidityBytes(a) == IF \A i \in 1..Length(a) : a.valid[i] THEN 0 ELSE Bits(Length(a))
OffsetBytes(t, a) == IF Length(a) = 0 THEN 0 ELSE (Length(a) + 1) * OffsetWidth(t)
DataBytes(a) == Sum([i \in 1..Length(a) |-> IF a.valid[i] THEN Len(a.data[i]) ELSE 0])

RECURSIVE BufferSizes(_, _)
BufferSizes(t, a) ==
    LET below == FlattenSeq([i \in 1..Len(a.kids) |-> BufferSizes(ChildTypes(t)[i], a.kids[i])]) IN
    CASE t.id = "NA" -> <<>>
      [] t.id \in {"STRUCT", "FIXED_SIZE_LIST"} -> <<ValidityBytes(a)>> \o below
      [] t.id \in {"LIST", "LARGE_LIST", "MAP"} -> <<ValidityBytes(a), OffsetBytes(t, a)>> \o below
      [] t.id = "DENSE_UNION" -> <<Length(a), 4 * Length(a)>> \o below
      [] t.id = "SPARSE_UNION" -> <<Length(a)>> \o below
      [] t.id = "DICTIONARY" -> <<ValidityBytes(a), Length(a) * ByteWidth(t)>>
      [] t.id \in {"STRING", "LARGE_STRING", "BINARY", "LARGE_BINARY"} ->
            <<ValidityBytes(a), OffsetBytes(t, a), DataBytes(a)>>
      [] t.id = "BOOL" -> <<ValidityBytes(a), Bits(Length(a))>>
      [] OTHER -> <<ValidityBytes(a), Length(a) * ByteWidth(t)>>

Padding(size, alignment) == (-size) % alignment

\* All buffers of a batch, and where its header says they start in the body
BatchBuffers(b) == FlattenSeq([i \in 1..Len(b.cols) |-> BufferSizes(b.fields[i].type, b.cols[i])])
HeaderOffsets(sizes) ==
    [k \in 1..Len(sizes) |->
        Sum([j \in 1..(k - 1) |-> sizes[j] + Padding(sizes[j], Alignment)])]

\* Mutant of PaddedBody: a buffer that fills its last word is padded too.
PaddedBodyAlways(sizes) ==
    FoldLeft(LAMBDA body, k :
                body \o [i \in 1..sizes[k] |-> k] \o [i \in 1..(8 - (sizes[k] % 8)) |-> 0],
             <<>>, [k \in 1..Len(sizes) |-> k])

\* recordBatchToIpc(): the bytes of the body, each known by the buffer it is from;
\* an empty buffer leaves nothing, the others are padded.
PaddedBody(sizes) ==
    FoldLeft(LAMBDA body, k :
                IF sizes[k] = 0 THEN body
                ELSE body \o [i \in 1..sizes[k] |-> k] \o [i \in 1..Padding(sizes[k], 8) |-> 0],
             <<>>, [k \in 1..Len(sizes) |-> k])

MessageBody(b) == PaddedBody(BatchBuffers(b))

RECURSIVE HasDictionary(_)
HasDictionary(t) ==
    t.id = "DICTIONARY" \/ \E i \in 1..Len(t.kids) : HasDictionary(t.kids[i].type)

-----------------------------------------------------------------------------
\* Rows and columns

\* toRows(): a name that comes twice keeps the last column's value.
Row(lists, fields, r) ==
    QHash(FoldLeft(LAMBDA pairs, i : SetKey(pairs, fields[i].name, lists[i][2][r]), <<>>,
                   [i \in 1..Len(fields) |-> i]))
ToRows(b) ==
    LET lists == [i \in 1..Len(b.cols) |-> ArrayToList(b.fields[i].type, b.cols[i])] IN
    IF \E i \in 1..Len(lists) : lists[i] = Throws THEN Throws
    ELSE QList([r \in 1..b.rows |-> Row(lists, b.fields, r)])

\* toColumns()
ToColumns(b) ==
    Collect([i \in 1..Len(b.cols) |-> b.fields[i].name],
            [i \in 1..Len(b.cols) |-> ArrayToList(b.fields[i].type, b.cols[i])])

=============================================================================
