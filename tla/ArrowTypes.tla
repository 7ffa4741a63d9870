------------------------------ MODULE ArrowTypes ------------------------------
(***************************************************************************)
(* Arrow data types, and the three other forms QoreArrowHelper gives them: *)
(* the type name, the ArrowFieldInfo hash and the ColumnarResult           *)
(* descriptor.                                                             *)
(*                                                                         *)
(* A type name is kept parsed: its base, and how its parameters are        *)
(* written.  NoType and NoField stand for the null pointer that goes with  *)
(* a raised exception.                                                     *)
(***************************************************************************)
EXTENDS ArrowData, SequencesExt

CONSTANTS
    CDataTemporal    \* built with QORE_GRPC_HAVE_ARROW_C_DATA_TEMPORAL_BUFFERS?

ASSUME TemporalAssumption == CDataTemporal \in BOOLEAN

-----------------------------------------------------------------------------
\* Kinds of types

Timed(id, unit, tz) == [Type(id) EXCEPT !.unit = unit, !.tz = tz]
Decimal(id, precision, scale) == [Type(id) EXCEPT !.precision = precision, !.scale = scale]
Sized(id, size) == [Type(id) EXCEPT !.size = size]
Nested(id, kids) == [Type(id) EXCEPT !.kids = kids]
Dictionary(index, value) == [Type("DICTIONARY") EXCEPT !.dict = <<index, value>>]

\* A map is a list of entries: its one child field is a struct of key and value.
MapType(key, item) ==
    Nested("MAP", << Field("entries", Nested("STRUCT", << Field("key", key, FALSE),
                                                           Field("value", item, TRUE) >>), FALSE) >>)
KeyType(t) == t.kids[1].type.kids[1].type
ItemType(t) == t.kids[1].type.kids[2].type

Ints == {"INT8", "INT16", "INT32", "INT64", "UINT8", "UINT16", "UINT32", "UINT64"}
Floats == {"HALF_FLOAT", "FLOAT", "DOUBLE"}
Lists == {"LIST", "LARGE_LIST", "FIXED_SIZE_LIST"}
Unions == {"DENSE_UNION", "SPARSE_UNION"}

-----------------------------------------------------------------------------
\* Type names

\* The names that have no parameters, with the type each is parsed to.
PlainNames ==
    [bool |-> "BOOL", int8 |-> "INT8", int16 |-> "INT16", int32 |-> "INT32",
     int64 |-> "INT64", uint8 |-> "UINT8", uint16 |-> "UINT16", uint32 |-> "UINT32",
     uint64 |-> "UINT64", float16 |-> "HALF_FLOAT", halffloat |-> "HALF_FLOAT",
     half_float |-> "HALF_FLOAT", float |-> "FLOAT", float32 |-> "FLOAT", double |-> "DOUBLE", float64 |-> "DOUBLE",
     string |-> "STRING", utf8 |-> "STRING", large_string |-> "LARGE_STRING",
     large_utf8 |-> "LARGE_STRING", binary |-> "BINARY", large_binary |-> "LARGE_BINARY",
     date32 |-> "DATE32", date64 |-> "DATE64", null |-> "NA", struct |-> "STRUCT"]

\* A date may be named with its unit, which says nothing more.
DateUnit == [date32 |-> "day", date64 |-> "ms"]

\* The name typeName() gives a type.  "full" means that the parameters follow in
\* brackets; a dictionary's are its types' names, a union has Arrow's own name.
PlainNameOf ==
    [BOOL |-> "bool", INT8 |-> "int8", INT16 |-> "int16", INT32 |-> "int32",
     INT64 |-> "int64", UINT8 |-> "uint8", UINT16 |-> "uint16", UINT32 |-> "uint32",
     UINT64 |-> "uint64", HALF_FLOAT |-> "float16", FLOAT |-> "float32",
     DOUBLE |-> "float64", STRING |-> "utf8", LARGE_STRING |-> "large_utf8",
     BINARY |-> "binary", LARGE_BINARY |-> "large_binary", DATE32 |-> "date32",
     DATE64 |-> "date64", NA |-> "null", STRUCT |-> "struct", LIST |-> "list",
     LARGE_LIST |-> "large_list", MAP |-> "map"]

FullNameOf ==
    [TIMESTAMP |-> "timestamp", TIME32 |-> "time32", TIME64 |-> "time64",
     DURATION |-> "duration", DECIMAL128 |-> "decimal128", DECIMAL256 |-> "decimal256",
     FIXED_SIZE_BINARY |-> "fixed_size_binary", FIXED_SIZE_LIST |-> "fixed_size_list",
     DICTIONARY |-> "dictionary", DENSE_UNION |-> "dense_union",
     SPARSE_UNION |-> "sparse_union"]

Name(base, form, t) ==
    [base |-> base, form |-> form, unit |-> t.unit, tz |-> t.tz,
     precision |-> t.precision, scale |-> t.scale, size |-> t.size]

\* Mutant of TypeName: the parameters are left out.
TypeNameBare(t) ==
    Name(IF t.id \in DOMAIN PlainNameOf THEN PlainNameOf[t.id] ELSE FullNameOf[t.id], "plain", t)

TypeName(t) ==
    IF t.id \in DOMAIN PlainNameOf
    THEN Name(PlainNameOf[t.id], "plain", Type(t.id))
    ELSE Name(FullNameOf[t.id], "full", t)

\* What the unit between the brackets is taken for: a timestamp's by its first
\* letters, the others' whole, and anything else for the default.
TimestampUnit(u) == IF u \in {"ns", "us", "ms"} THEN u ELSE IF u \in {"s", "second"} THEN "s" ELSE "us"
Time32Unit(u) == IF u = "s" THEN "s" ELSE "ms"
Time64Unit(u) == IF u = "ns" THEN "ns" ELSE "us"
DurationUnit(u) == IF u \in {"s", "ms", "ns"} THEN u ELSE "us"

\* timestamp, time32, time64 and duration: "plain" has no bracket, "unclosed" no
\* closing one.
ParseTimed(id, n, unit, default, tz) ==
    IF n.form = "plain" THEN Timed(id, default, "")
    ELSE IF n.form = "unclosed" THEN NoType
    ELSE Timed(id, unit, tz)

\* decimal128 and decimal256.  Without a comma find() returns npos, npos + 1 is 0,
\* and the precision is parsed again as the scale.  A missing closing parenthesis
\* is not noticed.  "garbled" parameters are no numbers.
ParseDecimal(id, n, precision, scale) ==
    IF n.form = "plain" THEN Decimal(id, precision, scale)
    ELSE IF n.form = "garbled" THEN NoType
    ELSE Decimal(id, n.precision, IF n.form = "single" THEN n.precision ELSE n.scale)

\* fixed_size_binary and fixed_size_list: the size is required.
ParseSized(n, type) == IF n.form \in {"plain", "garbled"} THEN NoType ELSE type

Utf8Item == Field("item", Type("STRING"), TRUE)

ParseTypeName(n) ==
    CASE n.base \in DOMAIN PlainNames ->
            IF \/ n.form = "plain"
               \/ n.base \in DOMAIN DateUnit /\ n.form = "full" /\ n.unit = DateUnit[n.base]
            THEN Type(PlainNames[n.base]) ELSE NoType
      [] n.base = "timestamp" -> ParseTimed("TIMESTAMP", n, TimestampUnit(n.unit), "us", n.tz)
      [] n.base = "time32" -> ParseTimed("TIME32", n, Time32Unit(n.unit), "ms", "")
      [] n.base = "time64" -> ParseTimed("TIME64", n, Time64Unit(n.unit), "us", "")
      [] n.base = "duration" -> ParseTimed("DURATION", n, DurationUnit(n.unit), "us", "")
      [] n.base = "decimal128" -> ParseDecimal("DECIMAL128", n, 38, 10)
      [] n.base = "decimal256" -> ParseDecimal("DECIMAL256", n, 76, 20)
      [] n.base = "fixed_size_binary" -> ParseSized(n, Sized("FIXED_SIZE_BINARY", n.size))
      [] n.base = "list" /\ n.form = "plain" -> Nested("LIST", <<Utf8Item>>)
      [] n.base = "large_list" /\ n.form = "plain" -> Nested("LARGE_LIST", <<Utf8Item>>)
      [] n.base = "fixed_size_list" ->
            ParseSized(n, [Nested("FIXED_SIZE_LIST", <<Utf8Item>>) EXCEPT !.size = n.size])
      [] n.base = "map" /\ n.form = "plain" -> MapType(Type("STRING"), Type("STRING"))
      [] OTHER -> NoType

-----------------------------------------------------------------------------
\* Fields as ArrowFieldInfo hashes

\* Metadata is a sequence of key-value pairs; Arrow allows a key twice.  A hash
\* keeps a key at its first place with its last value.
MetadataToHash(metadata) ==
    FoldLeft(LAMBDA hash, kv :
                IF \E i \in 1..Len(hash) : hash[i][1] = kv[1]
                THEN [i \in 1..Len(hash) |-> IF hash[i][1] = kv[1] THEN kv ELSE hash[i]]
                ELSE Append(hash, kv),
             <<>>, metadata)

HashToMetadata(hash) == FoldLeft(Append, <<>>, hash)

RECURSIVE FieldToHash(_)
FieldToHash(f) ==
    [name |-> f.name, type |-> TypeName(f.type), nullable |-> <<f.nullable>>,
     metadata |-> MetadataToHash(f.metadata),
     children |-> [i \in 1..Len(f.type.kids) |-> FieldToHash(f.type.kids[i])]]

\* The hash of a program that leaves out "nullable" has <<>> there; NoHash is a
\* child that is not a hash, and a name or type that is missing is "nothing".
NoHash == [name |-> "nothing", type |-> Name("nothing", "plain", NoType),
           nullable |-> <<>>, metadata |-> <<>>, children |-> <<>>]

\* The type with the children of the hash in place of the default ones.  fields
\* are the converted children; only those that are used are looked at.  A map
\* takes its key and its item from two children.
WithChildren(type, fields) ==
    CASE Len(fields) = 0 -> type
      [] type.id = "STRUCT" ->
            IF NoField \in ToSet(fields) THEN NoType ELSE Nested("STRUCT", fields)
      [] type.id \in Lists ->
            IF fields[1] = NoField THEN NoType ELSE [type EXCEPT !.kids = <<fields[1]>>]
      [] type.id = "MAP" /\ Len(fields) >= 2 ->
            IF NoField \in {fields[1], fields[2]} THEN NoType
            ELSE MapType(fields[1].type, fields[2].type)
      [] OTHER -> type

RECURSIVE HashToField(_)
HashToField(h) ==
    LET parsed == ParseTypeName(h.type)
        type == IF parsed = NoType THEN NoType
                ELSE WithChildren(parsed, [i \in 1..Len(h.children) |-> HashToField(h.children[i])])
    IN  IF h.name = "nothing" \/ type = NoType THEN NoField
        ELSE [name |-> h.name, type |-> type,
              nullable |-> h.nullable = <<>> \/ h.nullable = <<TRUE>>,
              metadata |-> HashToMetadata(h.metadata)]

-----------------------------------------------------------------------------
\* Fields as descriptors of a ColumnarResult's columns

BufferOf ==
    [INT8 |-> "Int8", INT16 |-> "Int16", INT32 |-> "Int32", INT64 |-> "Int64",
     FLOAT |-> "Float32", DOUBLE |-> "Float64", BOOL |-> "Bool"]

MicrosecondTemporal(t) == t.id \in {"TIMESTAMP", "DURATION"} /\ t.unit = "us"

ArrowTypeToBufferElementType(t) ==
    IF t.id \in DOMAIN BufferOf THEN BufferOf[t.id]
    ELSE IF CDataTemporal /\ MicrosecondTemporal(t) THEN "Int64"
    ELSE "Invalid"

\* "none" where there is no dense Arrow type
BufferElementTypeToArrowType ==
    [Int8 |-> "INT8", Int16 |-> "INT16", Int32 |-> "INT32", Int64 |-> "INT64",
     Float32 |-> "FLOAT", Float64 |-> "DOUBLE", Bool |-> "BOOL", String |-> "STRING",
     Decimal128 |-> "none", Invalid |-> "none"]

KindOf(id) ==
    CASE id = "BOOL" -> "Bool"
      [] id \in Ints -> "Int"
      [] id \in Floats -> "Float"
      [] id \in {"STRING", "LARGE_STRING"} -> "String"
      [] id \in {"BINARY", "LARGE_BINARY", "FIXED_SIZE_BINARY"} -> "Binary"
      [] id \in {"DATE32", "DATE64", "TIME32", "TIME64"} -> "Date"
      [] id = "TIMESTAMP" -> "Timestamp"
      [] id = "DURATION" -> "Duration"
      [] id = "DECIMAL128" -> "Decimal128"
      [] id = "DECIMAL256" -> "Number"
      [] id = "LIST" -> "List"
      [] id = "LARGE_LIST" -> "LargeList"
      [] id = "FIXED_SIZE_LIST" -> "FixedSizeList"
      [] id = "STRUCT" -> "Struct"
      [] id = "MAP" -> "Map"
      [] id = "DICTIONARY" -> "Dictionary"
      [] OTHER -> "Auto"

\* The column type is looked at only where the kind is Auto, which an Arrow type
\* never has together with another column type: the descriptors that have come
\* from a database.
Descriptor(name, nullable, kind, column, buffer, t, kids) ==
    [name |-> name, nullable |-> nullable, kind |-> kind, column |-> column,
     buffer |-> buffer, unit |-> t.unit, tz |-> t.tz, precision |-> t.precision,
     scale |-> t.scale, size |-> t.size, kids |-> kids]

RECURSIVE ArrowTypeToDescriptor(_, _, _)
ArrowTypeToDescriptor(name, t, nullable) ==
    Descriptor(name, nullable, KindOf(t.id), "Auto", ArrowTypeToBufferElementType(t), t,
        CASE t.id = "MAP" -> << ArrowTypeToDescriptor("key", KeyType(t), FALSE),
                                ArrowTypeToDescriptor("item", ItemType(t), TRUE) >>
          [] t.id = "DICTIONARY" -> << ArrowTypeToDescriptor("dictionary", t.dict[2], TRUE) >>
          [] OTHER -> [i \in 1..Len(t.kids) |->
                          ArrowTypeToDescriptor(t.kids[i].name, t.kids[i].type, t.kids[i].nullable)])

ArrowFieldToDescriptor(f) == ArrowTypeToDescriptor(f.name, f.type, f.nullable)

\* Mutant of UnitFromName: the default is another unit.
UnitFromNameMilli(u) ==
    CASE u \in {"s", "second"} -> "s"
      [] u \in {"ns", "nano"} -> "ns"
      [] OTHER -> "ms"

UnitFromName(u) ==
    CASE u \in {"s", "second"} -> "s"
      [] u \in {"ms", "milli"} -> "ms"
      [] u \in {"ns", "nano"} -> "ns"
      [] OTHER -> "us"

DecimalOf(d, scale) ==
    Decimal("DECIMAL128", IF d.precision > 0 THEN d.precision ELSE 38, scale)

NumberOf(d) == DecimalOf(d, IF d.precision > 0 THEN d.scale ELSE 10)

\* The column type of a descriptor of kind Auto
AutoToArrowType(d) ==
    CASE d.column = "Bool" -> Type("BOOL")
      [] d.column = "Int" -> Type("INT64")
      [] d.column = "Float" -> Type("DOUBLE")
      [] d.column = "Number" -> NumberOf(d)
      [] d.column = "Date" -> Timed("TIMESTAMP", "us", "")
      [] d.column = "Binary" -> Type("BINARY")
      [] OTHER -> Type("STRING")

RECURSIVE DescriptorToArrowType(_)
\* columnarDescriptorToArrowField(): an empty name is replaced.
DescriptorToField(d, fallback) ==
    LET type == DescriptorToArrowType(d) IN
    IF type = NoType THEN NoField
    ELSE Field(IF d.name = "" THEN fallback ELSE d.name, type, d.nullable)

\* The element of a list, or of a dictionary's value where it has none
ElementOf(d) == IF d.kids = <<>> THEN Utf8Item ELSE DescriptorToField(d.kids[1], "item")

NestedOf(id, d) ==
    IF ElementOf(d) = NoField THEN NoType
    ELSE [Nested(id, <<ElementOf(d)>>) EXCEPT !.size = IF id = "FIXED_SIZE_LIST" THEN d.size ELSE 0]

\* A map's key or item
PartOf(d, i) == IF Len(d.kids) >= i THEN DescriptorToArrowType(d.kids[i]) ELSE Type("STRING")

\* The temporal kinds come first, whatever buffer holds them, then the buffer's
\* element type, then the kind.
DescriptorToArrowType(d) ==
    CASE d.kind \in {"Date", "Timestamp"} -> Timed("TIMESTAMP", UnitFromName(d.unit), d.tz)
      [] d.kind = "Duration" -> Timed("DURATION", UnitFromName(d.unit), "")
      [] BufferElementTypeToArrowType[d.buffer] # "none" -> Type(BufferElementTypeToArrowType[d.buffer])
      [] d.kind = "Bool" -> Type("BOOL")
      [] d.kind = "Int" -> Type("INT64")
      [] d.kind = "Float" -> Type("DOUBLE")
      [] d.kind = "Number" -> NumberOf(d)
      [] d.kind = "String" -> Type("STRING")
      [] d.kind = "Decimal128" -> DecimalOf(d, d.scale)
      [] d.kind = "Binary" -> IF d.size > 0 THEN Sized("FIXED_SIZE_BINARY", d.size) ELSE Type("BINARY")
      [] d.kind = "List" -> NestedOf("LIST", d)
      [] d.kind = "LargeList" -> NestedOf("LARGE_LIST", d)
      [] d.kind = "FixedSizeList" -> IF d.size <= 0 THEN NoType ELSE NestedOf("FIXED_SIZE_LIST", d)
      [] d.kind = "Struct" ->
            LET fields == [i \in 1..Len(d.kids) |-> DescriptorToField(d.kids[i], "item")] IN
            IF NoField \in ToSet(fields) THEN NoType ELSE Nested("STRUCT", fields)
      [] d.kind = "Map" ->
            IF NoType \in {PartOf(d, 1), PartOf(d, 2)} THEN NoType ELSE MapType(PartOf(d, 1), PartOf(d, 2))
      [] d.kind = "Dictionary" -> PartOf(d, 1)
      [] OTHER -> AutoToArrowType(d)

-----------------------------------------------------------------------------
\* What goes over libqore's Arrow C Data bridge instead

RECURSIVE TypeSupportsImport(_)
TypeSupportsImport(t) ==
    \/ t.id \in {"BOOL", "INT8", "INT16", "INT32", "INT64", "FLOAT", "DOUBLE", "STRING",
                 "LARGE_STRING", "DECIMAL128"}
    \/ CDataTemporal /\ MicrosecondTemporal(t)
    \/ /\ t.id \in {"LIST", "LARGE_LIST", "STRUCT"}
       /\ \A i \in 1..Len(t.kids) : TypeSupportsImport(t.kids[i].type)

BufferTypeSupportsExport ==
    {"Int8", "Int16", "Int32", "Int64", "Float32", "Float64", "Bool", "String", "Decimal128"}

\* Mutant of DescriptorSupportsExport: a temporal column in a dense buffer is
\* not exported.
DescriptorSupportsExportBuffers(d, dataBuffer) ==
    LET buffer == IF d.buffer # "Invalid" THEN d.buffer ELSE dataBuffer IN
    CASE d.kind \in {"Date", "Timestamp", "Duration"} -> CDataTemporal /\ buffer = "Invalid"
      [] buffer # "Invalid" -> buffer \in BufferTypeSupportsExport
      [] OTHER -> d.kind \in {"Bool", "Int", "Float", "String", "Decimal128", "List", "LargeList", "Struct"}

\* buffer is the element type of the column's data where the descriptor has none.
RECURSIVE DescriptorSupportsExport(_, _)
DescriptorSupportsExport(d, dataBuffer) ==
    LET buffer == IF d.buffer # "Invalid" THEN d.buffer ELSE dataBuffer IN
    CASE d.kind \in {"Date", "Timestamp", "Duration"} ->
            CDataTemporal /\ buffer \in {"Invalid", "Int64"}
      [] buffer # "Invalid" -> buffer \in BufferTypeSupportsExport
      [] d.kind \in {"List", "LargeList"} ->
            Len(d.kids) = 1 /\ DescriptorSupportsExport(d.kids[1], "Invalid")
      [] d.kind = "Struct" ->
            \A i \in 1..Len(d.kids) : DescriptorSupportsExport(d.kids[i], "Invalid")
      [] OTHER -> d.kind \in {"Bool", "Int", "Float", "String", "Decimal128"}

=============================================================================
