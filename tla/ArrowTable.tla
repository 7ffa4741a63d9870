------------------------------ MODULE ArrowTable ------------------------------
(***************************************************************************)
(* A table on its way through the Arrow binding.  A program defines a      *)
(* schema by hashes and builds a record batch from columns or from rows,   *)
(* or is handed a batch another Arrow implementation made.  The schema and *)
(* the batch go to a peer as IPC data; the peer turns the batch it reads   *)
(* into a ColumnarResult, and that, or the result of a query, into a       *)
(* record batch again.  The batch that is read keeps the memory of the     *)
(* binary it was read from, the dense buffers keep the memory of the       *)
(* batch, and so on; the program lets go of them in any order.             *)
(*                                                                         *)
(* Arrow (the layout of IPC messages, builders, the C Data bridge) and     *)
(* libqore (reference counts, ColumnarResult) are modelled as              *)
(* QoreArrowHelper uses them.  The conversions of types, values and        *)
(* batches are parameters: ArrowTypes, ArrowValues and ArrowBatches define *)
(* them.  The control and the memory are those of this module whatever the *)
(* conversions make of the data.                                           *)
(***************************************************************************)
EXTENDS ArrowData, ArrowReferences

CONSTANTS
    Inputs,        \* the tables that come in
    CancelEvery    \* a loop looks for a cancellation every so many rounds: 100 for columns,
                   \* 256 for the values of one

CONSTANTS
    FieldOfHash(_),           \* the field of an ArrowFieldInfo hash: HashToField
    ArrayOf(_, _),            \* an array of a type and a list's values: ListToArray
    ListOf(_, _),             \* the list of a type and an array: ArrayToList
    ValueOf(_, _, _),         \* the value in one slot of it: ToQore
    BodyOf(_),                \* the body of a batch's message: MessageBody
    NeedsDictionary(_),       \* of a type: HasDictionary
    ElementTypeOf(_),         \* of a type's dense buffer: ArrowTypeToBufferElementType
    DescriptorOf(_),          \* of a field: ArrowFieldToDescriptor
    FieldOf(_, _),            \* of a descriptor: DescriptorToField
    ImportsType(_),           \* over libqore's bridge: TypeSupportsImport
    ExportsDescriptor(_, _)   \* DescriptorSupportsExport

ASSUME TableAssumption == CancelEvery \in Nat \ {0}

\* A table comes in by "columns" or by "rows", with the schema as hashes; "foreign",
\* with the schema as fields and the columns as arrays; or from a "query", with the
\* columns of a ColumnarResult and no schema.  It is no wider than the bound.
ASSUME InputsAssumption ==
    \A t \in Inputs :
        /\ t.by \in {"columns", "rows", "foreign", "query"}
        /\ IsSequence(t.fields) /\ Len(t.fields) <= MaxColumns
        /\ t.by = "foreign" => IsSequence(t.data) /\ Len(t.data) = Len(t.fields)
        /\ t.by = "query" => IsSequence(t.data) /\ Len(t.data) <= MaxColumns

\* Nothing is sent of a batch without columns.
ASSUME BodyAssumption == BodyOf(NoBatch) = <<>>

VARIABLES
    input,     \* the table that comes in
    at,        \* where it is
    error,     \* the exception that ended its way, if any
    canceled,  \* has the thread been cancelled?
    schema,    \* the sender's fields
    built,     \* the columns of the batch made so far
    wire,      \* the messages to the peer
    batch,     \* the batch the peer has read
    columns,   \* the columns of the ColumnarResult made so far
    again      \* the batch made of the ColumnarResult

vars == <<input, at, error, canceled, schema, built, wire, batch, columns, again, refs, holds, held>>
memory == <<refs, holds, held>>

-----------------------------------------------------------------------------
\* Columns

\* A column of a ColumnarResult is dense, of an element type and with an array's
\* memory, or a list of values.  shifted: its bits do not start with a byte.
Column(name, desc, buffer, nullable, shifted, type, array, list) ==
    [name |-> name, desc |-> desc, buffer |-> buffer, nullable |-> nullable,
     shifted |-> shifted, type |-> type, array |-> array, list |-> list]
DenseColumn(name, desc, buffer, nullable, type, array) ==
    Column(name, desc, buffer, nullable, FALSE, type, array, <<>>)
ListColumn(name, desc, list) ==
    Column(name, desc, "Invalid", TRUE, FALSE, NoType, NoArray, list)

\* qoreBufferToArrowArray(): the array is the buffer's memory and keeps the buffer,
\* unless their elements differ or the bits do not start with a byte.
ZeroCopy(c, t) == c.buffer # "Invalid" /\ c.buffer = ElementTypeOf(t) /\ ~c.shifted

NoWire == [form |-> "none", fields |-> <<>>, batch |-> NoBatch, body |-> <<>>]

DenseBuffers == {Buffer(i) : i \in {j \in 1..Len(columns) : columns[j].buffer # "Invalid"}}

Init ==
    /\ input \in Inputs
    /\ at = CASE input.by = "foreign" -> "built" [] input.by = "query" -> "columns" [] OTHER -> "start"
    /\ error = "none"
    /\ canceled = FALSE
    /\ schema = IF input.by = "foreign" THEN input.fields ELSE <<>>
    /\ built = IF input.by = "foreign" THEN input.data ELSE <<>>
    /\ wire = NoWire
    /\ batch = NoBatch
    /\ columns = IF input.by = "query" THEN input.data ELSE <<>>
    /\ again = NoBatch
    /\ held = DenseBuffers
    /\ refs = [x \in Objects |-> IF x \in held THEN 1 ELSE 0]
    /\ holds = {}

\* Mutant of Fail: the exception is lost.
FailQuiet(what) == at' = "failed" /\ UNCHANGED error

\* An exception ends the way of the table.
Fail(what) == at' = "failed" /\ error' = what

\* qore_check_cancel() in round i of a loop, counted from 1
CancelSeen(i) == canceled /\ i > 1 /\ (i - 1) % CancelEvery = 0

\* Another thread cancels this one.
Cancel ==
    /\ ~canceled
    /\ canceled' = TRUE
    /\ UNCHANGED <<input, at, error, schema, built, wire, batch, columns, again, memory>>

-----------------------------------------------------------------------------
\* The sender

\* ArrowSchema(fields): hashToSchema()
DefineSchema ==
    LET fields == [i \in 1..Len(input.fields) |-> FieldOfHash(input.fields[i])] IN
    /\ at = "start"
    /\ IF \E i \in 1..Len(fields) : CancelSeen(i) \/ fields[i] = NoField
       THEN Fail("ARROW-SCHEMA-ERROR") /\ UNCHANGED schema
       ELSE at' = "build" /\ schema' = fields /\ UNCHANGED error
    /\ UNCHANGED <<input, canceled, built, wire, batch, columns, again, memory>>

\* The values for the next column, or Nothing where the data has no list for it
NextValues ==
    LET name == schema[Len(built) + 1].name IN
    IF input.by = "columns" THEN Lookup(input.data, name)
    ELSE QList([r \in 1..Len(input.data) |-> Lookup(input.data[r], name)])

\* ArrowRecordBatch(schema, columns) and ArrowRecordBatch(schema, rows), one round
BuildColumn ==
    LET n == Len(built) + 1
        values == NextValues
        array == ArrayOf(schema[n].type, values[2])
        Stop(what) == Fail(what) /\ UNCHANGED built
    IN
    /\ at = "build"
    /\ n <= Len(schema)
    /\ CASE CancelSeen(n) -> Stop("canceled")
         [] ~CancelSeen(n) /\ values = Nothing -> Stop("ARROW-SCHEMA-ERROR")
         [] OTHER ->
              IF n > 1 /\ Length(built[1]) # Len(values[2]) THEN Stop("ARROW-SCHEMA-ERROR")
              ELSE IF \E i \in 1..Len(values[2]) : CancelSeen(i) THEN Stop("canceled")
              ELSE IF array = FailedArray THEN Stop("ARROW-TYPE-ERROR")
              ELSE built' = Append(built, array) /\ UNCHANGED <<at, error>>
    /\ UNCHANGED <<input, canceled, schema, wire, batch, columns, again, memory>>

FinishBatch ==
    /\ at = "build"
    /\ Len(built) = Len(schema)
    /\ at' = "built"
    /\ UNCHANGED <<input, error, canceled, schema, built, wire, batch, columns, again, memory>>

RowCount ==
    IF input.by = "rows" THEN Len(input.data) ELSE IF built = <<>> THEN 0 ELSE Length(built[1])
SentBatch == Batch(schema, RowCount, built)

-----------------------------------------------------------------------------
\* IPC messages

\* A schema goes as a "stream", as SchemaResult.schema and FlightInfo.schema have
\* it: toIpc(); or as the "message" in FlightData.data_header: writeSchemaPayload().
Send(form) ==
    /\ at = "built"
    /\ at' = "sent"
    /\ wire' = [form |-> form, fields |-> schema, batch |-> SentBatch,
                body |-> BodyOf(SentBatch)]
    /\ Make(Body)
    /\ UNCHANGED <<input, error, canceled, schema, built, batch, columns, again>>

\* readSchema() or readSchemaPayload(), then readRecordBatch().  A reader knows
\* only its own form of the schema.  Dictionaries have messages of their own, which
\* nobody sends or reads: the memo of the batch's reader has none.  The buffers of
\* the batch that is read are the memory of the body.
Receive(form) ==
    /\ at = "sent" /\ Body \in held
    /\ IF form # wire.form \/ \E i \in 1..Len(wire.fields) : NeedsDictionary(wire.fields[i].type)
       THEN Fail("ARROW-IPC-ERROR") /\ UNCHANGED <<batch, memory>>
       ELSE /\ at' = "read"
            /\ batch' = wire.batch
            /\ IF wire.body = <<>> THEN Make(Read) ELSE Share(Read, Body)
            /\ UNCHANGED error
    /\ UNCHANGED <<input, canceled, schema, built, wire, columns, again>>

-----------------------------------------------------------------------------
\* The ColumnarResult

Importable == \A i \in 1..Len(batch.fields) : ImportsType(batch.fields[i].type)
Exportable ==
    \A i \in 1..Len(columns) : ExportsDescriptor(columns[i].desc, columns[i].buffer)

\* The bridge of libqore takes a batch, or a result, of its types as a whole, or
\* fails and leaves nothing; what it makes of it is not followed further.
Bridge ==
    /\ \/ at = "read" /\ Read \in held /\ Importable
       \/ at = "columns" /\ DenseBuffers \subseteq held /\ Exportable
    /\ \/ at' = "bridged" /\ UNCHANGED error
       \/ Fail("ARROW-COLUMNAR-ERROR")
    /\ UNCHANGED <<input, canceled, schema, built, wire, batch, columns, again, memory>>

\* Mutant of Abandon: the reference is forgotten, not given back.
AbandonLeaking(what, objects) == Fail(what) /\ held' = held \ objects /\ UNCHANGED <<refs, holds>>

\* The operation drops what it has made when it fails.
Abandon(what, objects) == Fail(what) /\ LetGo(objects)

StartImport ==
    /\ at = "read" /\ Read \in held /\ ~Importable
    /\ at' = "importing"
    /\ UNCHANGED <<input, error, canceled, schema, built, wire, batch, columns, again, memory>>

Dense(t) == ElementTypeOf(t) # "Invalid"

\* Mutant of ImportDense: the buffer does not keep the batch.
ImportDenseBare(i, a) == Make(Buffer(i))

\* arrowArrayToDenseBuffer(): the buffer is the array's memory and keeps the array,
\* but an empty one is made anew.
ImportDense(i, a) == IF Length(a) = 0 THEN Make(Buffer(i)) ELSE Share(Buffer(i), Read)

\* recordBatchToColumnarResult(), one round; addColumn() is libqore's and may refuse.
ImportColumn ==
    LET n == Len(columns) + 1
        f == batch.fields[n]
        a == batch.cols[n]
        desc == DescriptorOf(f)
        list == ListOf(f.type, a)
        nulls == \E i \in 1..Length(a) : ~a.valid[i]
        Stop(what) == Abandon(what, DenseBuffers) /\ UNCHANGED columns
    IN
    /\ at = "importing"
    /\ n <= Len(batch.fields)
    /\ CASE CancelSeen(n) -> Stop("canceled")
         [] ~CancelSeen(n) /\ Dense(f.type) ->
              \/ /\ columns' = Append(columns, DenseColumn(f.name, desc,
                                   ElementTypeOf(f.type), f.nullable \/ nulls, f.type, a))
                 /\ ImportDense(n, a)
                 /\ UNCHANGED <<at, error>>
              \/ Stop("addColumn")
         [] OTHER ->
              IF \E i \in 1..Length(a) : CancelSeen(i) THEN Stop("canceled")
              ELSE IF list = Throws THEN Stop("ARROW-TYPE-ERROR")
              ELSE \/ /\ columns' = Append(columns, ListColumn(f.name, desc, list[2]))
                      /\ UNCHANGED <<at, error, memory>>
                   \/ Stop("addColumn")
    /\ UNCHANGED <<input, canceled, schema, built, wire, batch, again>>

FinishImport ==
    /\ at = "importing"
    /\ Len(columns) = Len(batch.fields)
    /\ at' = "columns"
    /\ UNCHANGED <<input, error, canceled, schema, built, wire, batch, columns, again, memory>>

-----------------------------------------------------------------------------
\* A record batch of a ColumnarResult

StartExport ==
    /\ at = "columns" /\ DenseBuffers \subseteq held /\ ~Exportable
    /\ at' = "exporting"
    /\ UNCHANGED <<input, error, canceled, schema, built, wire, batch, columns, again, memory>>

\* The field of a column; the descriptor of a dense one may leave its buffer open.
ColumnField(c) ==
    LET named == [c.desc EXCEPT !.name = IF @ = "" THEN c.name ELSE @] IN
    FieldOf(IF c.desc.buffer = "Invalid" /\ c.buffer # "Invalid"
                      THEN [named EXCEPT !.buffer = c.buffer, !.nullable = c.nullable]
                      ELSE named,
                      c.name)

\* toList(): the elements of a dense column; a temporal one has integers.
BufferValue(c, i) ==
    IF ~c.array.valid[i] THEN Nothing
    ELSE IF c.buffer = "Int64" THEN QInt(c.array.data[i])
    ELSE ValueOf(c.type, c.array, i)
ColumnValues(c) ==
    IF c.buffer = "Invalid" THEN c.list ELSE [i \in 1..Length(c.array) |-> BufferValue(c, i)]

\* Mutant of ExportMemory: the batch does not keep the buffer.
ExportMemoryBare(i, shared) == Make(Again)

ExportMemory(i, shared) == IF shared THEN Share(Again, Buffer(i)) ELSE Make(Again)

\* ArrowRecordBatch(ColumnarResult): columnarResultToRecordBatch(), one round
ExportColumn ==
    LET n == Len(again.cols) + 1
        c == columns[n]
        f == ColumnField(c)
        values == ColumnValues(c)
        array == IF ZeroCopy(c, f.type) THEN c.array ELSE ArrayOf(f.type, values)
        Stop(what) == Abandon(what, {Again} \cap held) /\ UNCHANGED again
    IN
    /\ at = "exporting"
    /\ n <= Len(columns)
    /\ CASE CancelSeen(n) -> Stop("canceled")
         [] ~CancelSeen(n) /\ f = NoField -> Stop("ARROW-TYPE-ERROR")
         [] OTHER ->
              IF ~ZeroCopy(c, f.type) /\ \E i \in 1..Len(values) : CancelSeen(i) THEN Stop("canceled")
              ELSE IF array = FailedArray THEN Stop("ARROW-TYPE-ERROR")
              ELSE IF Length(array) # Len(ColumnValues(columns[1])) THEN Stop("ARROW-COLUMNAR-ERROR")
              ELSE /\ again' = Batch(Append(again.fields, f), Length(array), Append(again.cols, array))
                   /\ ExportMemory(n, ZeroCopy(c, f.type))
                   /\ UNCHANGED <<at, error>>
    /\ UNCHANGED <<input, canceled, schema, built, wire, batch, columns>>

FinishExport ==
    /\ at = "exporting"
    /\ Len(again.cols) = Len(columns)
    /\ at' = "again"
    /\ UNCHANGED <<input, error, canceled, schema, built, wire, batch, columns, again, memory>>

-----------------------------------------------------------------------------
\* The program lets go of something, while no operation runs.
Drop(x) ==
    /\ at \notin {"build", "importing", "exporting"}
    /\ x \in held
    /\ LetGo({x})
    /\ UNCHANGED <<input, at, error, canceled, schema, built, wire, batch, columns, again>>

Next ==
    \/ Cancel \/ DefineSchema \/ BuildColumn \/ FinishBatch
    \/ \E form \in {"stream", "message"} : Send(form) \/ Receive(form)
    \/ Bridge \/ StartImport \/ ImportColumn \/ FinishImport
    \/ StartExport \/ ExportColumn \/ FinishExport
    \/ \E x \in Objects : Drop(x)

Spec == Init /\ [][Next]_vars

-----------------------------------------------------------------------------
\* Properties

\* The way of a table through the binding and the counts of its memory stay within
\* their types.
TypeOK ==
    /\ at \in {"start", "build", "built", "sent", "read", "importing", "columns", "exporting",
               "again", "bridged", "failed"}
    /\ (error = "none") = (at # "failed")
    /\ canceled \in BOOLEAN
    /\ Len(built) <= MaxColumns /\ Len(columns) <= MaxColumns /\ Len(again.cols) <= MaxColumns
    /\ refs \in [Objects -> 0..(MaxColumns + 1)]
    /\ held \subseteq Objects

\* Whose data lies in whose memory, by the data: the batch that was read in the body,
\* the dense columns made of it in the batch, what a batch took over in the buffers.
DataIn ==
    (IF batch # NoBatch /\ wire.body # <<>> THEN {<<Read, Body>>} ELSE {})
    \cup {<<Buffer(i), Read>> : i \in {j \in 1..Len(columns) :
              input.by # "query" /\ columns[j].buffer # "Invalid" /\ Length(columns[j].array) # 0}}
    \cup {<<Again, Buffer(i)>> : i \in {j \in 1..Len(again.cols) :
              ZeroCopy(columns[j], again.fields[j].type)}}

Memory == INSTANCE ArrowMemory WITH reads <- DataIn

\* What is made shares the memory its data lies in, of what is alive at that time, and
\* every reference is given back once (arrowArrayToDenseBuffer(),
\* makeQoreOwnedArrowBuffer(), the holders of recordBatchToColumnarResult()).
SharesMemory == Memory!Spec

\* Memory that something alive reads is alive: the body under a batch, the batch
\* under a dense buffer, the buffer under another batch.
MemoryOutlives == Memory!MemoryOutlives

=============================================================================
