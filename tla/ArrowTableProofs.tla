--------------------------- MODULE ArrowTableProofs ---------------------------
(***************************************************************************)
(* The memory of a table on its way through the Arrow binding, for tables  *)
(* of any width, whatever they hold and whatever the conversions make of   *)
(* them: every step is one of ArrowMemory or leaves the memory alone.      *)
(***************************************************************************)
EXTENDS ArrowTable, ArrowReferencesProofs

-----------------------------------------------------------------------------
\* The invariant

Places == {"start", "build", "built", "sent", "read", "importing", "columns", "exporting",
           "again", "bridged", "failed"}

\* The way of a table, and the widths of what is made of it
TableType ==
    /\ input \in Inputs
    /\ at \in Places
    /\ (error = "none" <=> at # "failed")
    /\ canceled \in BOOLEAN
    /\ IsSequence(schema) /\ Len(schema) <= MaxColumns
    /\ IsSequence(built) /\ Len(built) <= Len(schema)
    /\ Len(wire.batch.fields) \in 0..MaxColumns
    /\ Len(batch.fields) \in 0..MaxColumns
    /\ IsSequence(columns) /\ Len(columns) <= MaxColumns
    /\ IsSequence(again.fields) /\ IsSequence(again.cols)
    /\ Len(again.fields) = Len(again.cols) /\ Len(again.cols) <= Len(columns)

\* What there is and what is in hand at each place
PlaceInv ==
    /\ wire.body = BodyOf(wire.batch)
    /\ at = "start" => built = <<>>
    /\ at \in {"start", "build", "built"} => Fresh(Body)
    /\ at \in {"start", "build", "built", "sent"} => batch = NoBatch /\ Fresh(Read)
    /\ at \in {"start", "build", "built", "sent", "read"} => columns = <<>>
    /\ at \in {"start", "build", "built", "sent", "read", "importing"} => input.by # "query"
    /\ at = "importing" => Read \in held /\ Len(columns) <= Len(batch.fields)
    /\ at \in {"importing", "exporting"} => DenseBuffers \subseteq held
    /\ at \notin {"exporting", "again", "failed"} => again = NoBatch
    /\ at = "exporting" /\ Len(again.cols) # 0 => Again \in held

\* What was not made yet: the buffers of the columns to come, and the batch of none
FreshInv ==
    /\ \A i \in 1..MaxColumns : i > Len(columns) => Fresh(Buffer(i))
    /\ Len(again.cols) = 0 => Fresh(Again)
    /\ \A i \in 1..MaxColumns : <<Again, Buffer(i)>> \in holds => i <= Len(again.cols)

\* The counts are exact, and the data lies in what is held for it.
MemoryInv == CountsInv /\ DataIn \subseteq holds

TableInv == TableType /\ PlaceInv /\ FreshInv /\ MemoryInv

-----------------------------------------------------------------------------
\* Sequences

LEMMA Sequence ==
    ASSUME NEW s, NEW S, IsSequence(s), \A i \in 1..Len(s) : s[i] \in S
    PROVE  s \in Seq(S)
BY DEF IsSequence

LEMMA Appended ==
    ASSUME NEW s, NEW e, IsSequence(s)
    PROVE  /\ IsSequence(Append(s, e)) /\ Len(Append(s, e)) = Len(s) + 1
           /\ Len(s) \in Nat
           /\ \A i \in 1..Len(s) : Append(s, e)[i] = s[i]
           /\ Append(s, e)[Len(s) + 1] = e
<1> DEFINE S == {s[i] : i \in 1..Len(s)} \cup {e}
<1>1. s \in Seq(S) /\ e \in S /\ Len(s) \in Nat
    BY Sequence DEF IsSequence
<1> HIDE DEF S
<1>2. Append(s, e) \in Seq(S) /\ Len(Append(s, e)) = Len(s) + 1
    BY <1>1
<1>3. \A i \in 1..Len(s) : Append(s, e)[i] = s[i]
    BY <1>1
<1>4. Append(s, e)[Len(s) + 1] = e
    BY <1>1
<1>5. IsSequence(Append(s, e))
    <2> DEFINE t == Append(s, e)
    <2>1. t \in Seq(S)
        BY <1>2
    <2> HIDE DEF t
    <2>2. IsSequence(t)
        BY <2>1 DEF IsSequence
    <2> QED BY <2>2 DEF t
<1> QED BY <1>1, <1>2, <1>3, <1>4, <1>5

LEMMA EmptySequence == IsSequence(<<>>) /\ Len(<<>>) = 0
BY DEF IsSequence

LEMMA EmptyBatch ==
    ASSUME again = NoBatch
    PROVE  again.fields = <<>> /\ again.cols = <<>> /\ Len(again.cols) = 0
BY DEF NoBatch, Batch

-----------------------------------------------------------------------------
\* The memory of a step

\* The data of a step lies in memory made or shared for it.
Refines ==
    \/ UNCHANGED memory /\ DataIn' = DataIn
    \/ \E x \in Objects : Fresh(x) /\ Make(x) /\ DataIn' = DataIn
    \/ \E x, y \in Objects :
          /\ <<x, y>> \in LiesIn /\ <<x, y>> \notin holds
          /\ Fresh(x) \/ x \in held
          /\ refs[y] > 0
          /\ Share(x, y)
          /\ DataIn' = DataIn \cup {<<x, y>>}
    \/ \E objects \in SUBSET held : LetGo(objects) /\ DataIn' = DataIn

LEMMA RefinesKeeps == MemoryInv /\ Refines => MemoryInv'
<1> SUFFICES ASSUME MemoryInv, Refines PROVE MemoryInv'
    OBVIOUS
<1> USE DEF MemoryInv
<1>1. CASE UNCHANGED memory /\ DataIn' = DataIn
    BY <1>1 DEF memory, CountsInv, CountsType, CountsExact, Owners, InHand
<1>2. ASSUME NEW x \in Objects, Fresh(x), Make(x), DataIn' = DataIn PROVE MemoryInv'
    BY <1>2, MakeKeeps DEF Make
<1>3. ASSUME NEW x \in Objects, NEW y \in Objects, <<x, y>> \in LiesIn, <<x, y>> \notin holds,
             Fresh(x) \/ x \in held, refs[y] > 0, Share(x, y),
             DataIn' = DataIn \cup {<<x, y>>}
      PROVE  MemoryInv'
    BY <1>3, ShareKeeps DEF Share
<1>4. ASSUME NEW objects \in SUBSET held, LetGo(objects), DataIn' = DataIn PROVE MemoryInv'
    <2>1. UNCHANGED holds
        BY <1>4 DEF LetGo
    <2> QED BY <1>4, <2>1, LetGoKeeps
<1> QED BY <1>1, <1>2, <1>3, <1>4 DEF Refines

LEMMA SameObjects == Memory!Objects = Objects /\ Memory!LiesIn = LiesIn /\ Memory!Buffers = Buffers
BY DEF Memory!Objects, Memory!LiesIn, Memory!Buffers, Memory!Body, Memory!Read, Memory!Again, Memory!Buffer,
       Objects, LiesIn, Buffers, Body, Read, Again, Buffer

LEMMA SameMemory ==
    ASSUME NEW x, NEW y
    PROVE  /\ Memory!Fresh(x) <=> Fresh(x)
           /\ Memory!Make(x) <=> Make(x)
           /\ Memory!Share(x, y) <=> Share(x, y)
           /\ Memory!LetGo(x) <=> LetGo(x)
<1>1. Memory!Fresh(x) <=> Fresh(x)
    BY SameObjects DEF Memory!Fresh, Fresh
<1>2. (Memory!Make(x) <=> Make(x)) /\ (Memory!Share(x, y) <=> Share(x, y))
    BY DEF Memory!Make, Make, Memory!Share, Share
<1>3. ASSUME NEW level, NEW counts PROVE Memory!Settle(level, counts) = Settle(level, counts)
    <2>1. ASSUME NEW S PROVE Memory!Cardinality(S) = Cardinality(S)
        BY DEF Memory!Cardinality, Cardinality
    <2> QED BY <2>1, SameObjects DEF Memory!Settle, Settle
<1>4. Memory!Less(x) = Less(x)
    BY SameObjects DEF Memory!Less, Less
<1>5. Memory!LetGo(x) <=> LetGo(x)
    BY <1>3, <1>4, SameObjects DEF Memory!LetGo, LetGo, Memory!Read, Memory!Again, Read, Again
<1> QED BY <1>1, <1>2, <1>5

LEMMA RefinesMemory == Refines => [Memory!Next]_(Memory!vars)
<1> SUFFICES ASSUME Refines PROVE [Memory!Next]_(Memory!vars)
    OBVIOUS
<1>1. CASE UNCHANGED memory /\ DataIn' = DataIn
    BY <1>1 DEF memory, Memory!vars
<1>2. ASSUME NEW x \in Objects, Fresh(x), Make(x), DataIn' = DataIn PROVE Memory!Next
    BY <1>2, SameObjects, SameMemory DEF Memory!Next, Memory!MakeObject
<1>3. ASSUME NEW x \in Objects, NEW y \in Objects, <<x, y>> \in LiesIn, <<x, y>> \notin holds,
             Fresh(x) \/ x \in held, refs[y] > 0, Share(x, y),
             DataIn' = DataIn \cup {<<x, y>>}
      PROVE  Memory!Next
    BY <1>3, SameObjects, SameMemory DEF Memory!Next, Memory!ShareMemory
<1>4. ASSUME NEW objects \in SUBSET held, LetGo(objects), DataIn' = DataIn PROVE Memory!Next
    BY <1>4, SameObjects, SameMemory DEF Memory!Next, Memory!GiveBack
<1> QED BY <1>1, <1>2, <1>3, <1>4 DEF Refines

-----------------------------------------------------------------------------
\* What is not made yet stays so.

LEMMA FreshMake ==
    ASSUME CountsInv, NEW x \in Objects, Make(x), NEW y \in Objects, y # x, Fresh(y)
    PROVE  Fresh(y)'
BY DEF Make, Fresh, CountsInv, CountsType

LEMMA FreshShare ==
    ASSUME CountsInv, NEW x \in Objects, NEW z \in Objects, refs[z] > 0, Share(x, z),
           NEW y \in Objects, y # x, Fresh(y)
    PROVE  Fresh(y)'
BY DEF Share, Fresh, CountsInv, CountsType

LEMMA FreshLetGo ==
    ASSUME CountsInv, NEW objects \in SUBSET held, LetGo(objects), NEW y \in Objects, Fresh(y)
    PROVE  Fresh(y)'
<1>1. refs'[y] <= refs[y] /\ refs'[y] \in Nat
    BY LetGoKeeps DEF CountsInv, CountsType
<1> QED BY <1>1 DEF LetGo, Fresh

LEMMA FreshSame ==
    ASSUME UNCHANGED memory, NEW y, Fresh(y)
    PROVE  Fresh(y)'
BY DEF memory, Fresh

LEMMA DataSame ==
    ASSUME UNCHANGED <<input, wire, batch, columns, again>>
    PROVE  DataIn' = DataIn /\ DenseBuffers' = DenseBuffers
BY DEF DataIn, ZeroCopy, Length, DenseBuffers

\* The places of the objects
LEMMA Levels ==
    /\ Body \in Objects /\ Read \in Objects /\ Again \in Objects
    /\ Body # Read /\ Body # Again /\ Read # Again
    /\ <<Read, Body>> \in LiesIn
    /\ \A i \in 1..MaxColumns :
          /\ Buffer(i) \in Objects /\ Buffer(i) \in Buffers
          /\ Buffer(i) # Body /\ Buffer(i) # Read /\ Buffer(i) # Again
          /\ <<Buffer(i), Read>> \in LiesIn /\ <<Again, Buffer(i)>> \in LiesIn
    /\ \A i, j : Buffer(i) = Buffer(j) => i = j
BY LevelsApart DEF LiesIn, Buffers, Buffer, Body, Read, Again, Objects

\* The data of what is on the way, before there is any
LEMMA NoData ==
    ASSUME batch = NoBatch, again = NoBatch, input.by = "query" \/ columns = <<>>
    PROVE  DataIn = {}
<1>1. 1..Len(again.cols) = {}
    BY EmptyBatch
<1>2. {i \in 1..Len(columns) :
          input.by # "query" /\ columns[i].buffer # "Invalid" /\ Length(columns[i].array) # 0} = {}
    OBVIOUS
<1> QED BY <1>1, <1>2 DEF DataIn

LEMMA TableInit == Init => TableInv /\ Memory!Init
<1> SUFFICES ASSUME Init PROVE TableInv /\ Memory!Init
    OBVIOUS
<1>1. /\ input \in Inputs /\ input.by \in {"columns", "rows", "foreign", "query"}
      /\ IsSequence(input.fields) /\ Len(input.fields) <= MaxColumns
      /\ input.by = "foreign" => IsSequence(input.data) /\ Len(input.data) = Len(input.fields)
      /\ input.by = "query" => IsSequence(input.data) /\ Len(input.data) <= MaxColumns
    BY InputsAssumption DEF Init
<1>2. /\ batch = NoBatch /\ again = NoBatch /\ wire = NoWire /\ error = "none" /\ canceled = FALSE
      /\ holds = {} /\ held = DenseBuffers /\ refs = [x \in Objects |-> IF x \in held THEN 1 ELSE 0]
    BY DEF Init
<1>3. /\ IsSequence(columns) /\ Len(columns) <= MaxColumns
      /\ input.by # "query" => columns = <<>>
    BY <1>1, EmptySequence, ColumnsAssumption DEF Init
<1>4. at = CASE input.by = "foreign" -> "built" [] input.by = "query" -> "columns" [] OTHER -> "start"
    BY DEF Init
<1>5. /\ IsSequence(schema) /\ Len(schema) <= MaxColumns
      /\ IsSequence(built) /\ Len(built) <= Len(schema)
      /\ at = "start" => built = <<>>
    <2>1. CASE input.by = "foreign"
        <3>1. schema = input.fields /\ built = input.data /\ at = "built"
            BY <1>4, <2>1 DEF Init
        <3> QED BY <1>1, <2>1, <3>1 DEF IsSequence
    <2>2. CASE input.by # "foreign"
        <3>1. schema = <<>> /\ built = <<>>
            BY <2>2 DEF Init
        <3> QED BY <3>1, EmptySequence, ColumnsAssumption
    <2> QED BY <2>1, <2>2
<1>6. held \subseteq {Buffer(i) : i \in 1..Len(columns)} /\ held \subseteq Buffers
    BY <1>2, <1>3, Levels, ColumnsAssumption DEF DenseBuffers, IsSequence, Buffers
<1>7. DataIn = {}
    BY <1>1, <1>2, <1>3, NoData
<1>8. CountsInv
    BY <1>2, <1>6, StartCounts
<1>9. Fresh(Body) /\ Fresh(Read) /\ Fresh(Again)
    BY <1>2, <1>6, LevelsApart DEF Fresh
<1>10. ASSUME NEW i \in 1..MaxColumns, i > Len(columns) PROVE Fresh(Buffer(i))
    <2>1. Buffer(i) \notin held
        BY <1>6, <1>10, Levels
    <2> QED BY <1>2, <2>1, Levels DEF Fresh
<1>11. TableType
    <2>1. Len(wire.batch.fields) = 0 /\ Len(batch.fields) = 0
        BY <1>2, EmptySequence DEF NoWire, NoBatch, Batch
    <2>2. again.fields = <<>> /\ again.cols = <<>>
        BY <1>2, EmptyBatch
    <2>3. at \in Places /\ at # "failed"
        BY <1>1, <1>4 DEF Places
    <2>4. Len(columns) \in Nat
        BY <1>3 DEF IsSequence
    <2>5. /\ IsSequence(again.fields) /\ IsSequence(again.cols)
          /\ Len(again.fields) = Len(again.cols) /\ Len(again.cols) <= Len(columns)
        BY <2>2, <2>4, EmptySequence
    <2>6. Len(wire.batch.fields) \in 0..MaxColumns /\ Len(batch.fields) \in 0..MaxColumns
        BY <2>1, ColumnsAssumption
    <2>7. (error = "none" <=> at # "failed") /\ canceled \in BOOLEAN
        BY <1>2, <2>3
    <2> QED BY <1>1, <1>3, <1>5, <2>3, <2>5, <2>6, <2>7 DEF TableType
<1>12. PlaceInv
    BY <1>1, <1>2, <1>3, <1>4, <1>5, <1>9, BodyAssumption DEF PlaceInv, NoWire
<1>13. FreshInv
    BY <1>2, <1>9, <1>10 DEF FreshInv
<1>14. Memory!Init
    BY <1>2, <1>6, <1>7, SameObjects DEF Memory!Init
<1> QED BY <1>2, <1>7, <1>8, <1>11, <1>12, <1>13, <1>14 DEF TableInv, MemoryInv

-----------------------------------------------------------------------------
\* What is not made yet, over a step

LEMMA FreshUnmoved ==
    ASSUME FreshInv, UNCHANGED <<columns, again, refs, holds, held>>
    PROVE  FreshInv'
BY FreshSame DEF FreshInv, memory, Fresh

LEMMA FreshGivenBack ==
    ASSUME CountsInv, FreshInv, UNCHANGED <<columns, again>>,
           NEW objects \in SUBSET held, LetGo(objects)
    PROVE  FreshInv'
BY FreshLetGo, Levels DEF FreshInv, LetGo

-----------------------------------------------------------------------------
\* The sender's steps

\* A step that has no part in the memory
LEMMA Aside ==
    ASSUME TableInv, UNCHANGED <<input, wire, batch, columns, again, refs, holds, held>>,
           TableType', PlaceInv'
    PROVE  TableType' /\ PlaceInv' /\ FreshInv' /\ Refines
BY FreshUnmoved, DataSame DEF TableInv, Refines, memory

LEMMA CancelKeeps == TableInv /\ Cancel => TableType' /\ PlaceInv' /\ FreshInv' /\ Refines
<1> SUFFICES ASSUME TableInv, Cancel PROVE TableType' /\ PlaceInv' /\ FreshInv' /\ Refines
    OBVIOUS
<1>1. TableType'
    BY DEF Cancel, TableInv, TableType, memory
<1>2. PlaceInv'
    BY DEF Cancel, TableInv, PlaceInv, memory, DenseBuffers, Fresh
<1> QED BY <1>1, <1>2, Aside DEF Cancel, memory

LEMMA DefineSchemaKeeps == TableInv /\ DefineSchema => TableType' /\ PlaceInv' /\ FreshInv' /\ Refines
<1> SUFFICES ASSUME TableInv, DefineSchema PROVE TableType' /\ PlaceInv' /\ FreshInv' /\ Refines
    OBVIOUS
<1> DEFINE fields == [i \in 1..Len(input.fields) |-> FieldOfHash(input.fields[i])]
<1>1. /\ at = "start" /\ UNCHANGED <<input, canceled, built, wire, batch, columns, again, refs, holds, held>>
      /\ \/ at' = "failed" /\ error' = "ARROW-SCHEMA-ERROR" /\ schema' = schema
         \/ at' = "build" /\ schema' = fields /\ error' = error
    BY DEF DefineSchema, Fail, memory
<1>2. IsSequence(input.fields) /\ Len(input.fields) <= MaxColumns
    BY InputsAssumption DEF TableInv, TableType
<1>3. IsSequence(fields) /\ Len(fields) = Len(input.fields)
    BY <1>2 DEF IsSequence
<1>4. built = <<>> /\ Len(built) = 0
    BY <1>1, EmptySequence DEF TableInv, PlaceInv
<1>5. TableType'
    <2>1. IsSequence(schema') /\ Len(schema') <= MaxColumns /\ Len(built') <= Len(schema')
        <3>1. CASE schema' = schema
            BY <1>1, <3>1 DEF TableInv, TableType
        <3>2. CASE schema' = fields
            <4>1. Len(fields) \in Nat
                BY <1>3 DEF IsSequence
            <4> HIDE DEF fields
            <4> QED BY <1>1, <1>2, <1>3, <1>4, <3>2, <4>1
        <3> QED BY <1>1, <3>1, <3>2
    <2> HIDE DEF fields
    <2> QED BY <1>1, <2>1 DEF TableInv, TableType, Places
<1>6. PlaceInv'
    BY <1>1 DEF TableInv, PlaceInv, Fresh
<1> QED BY <1>1, <1>5, <1>6, Aside

LEMMA BuildColumnKeeps == TableInv /\ BuildColumn => TableType' /\ PlaceInv' /\ FreshInv' /\ Refines
<1> SUFFICES ASSUME TableInv, BuildColumn PROVE TableType' /\ PlaceInv' /\ FreshInv' /\ Refines
    OBVIOUS
<1>1. /\ at = "build" /\ UNCHANGED <<input, canceled, schema, wire, batch, columns, again, refs, holds, held>>
      /\ Len(built) + 1 <= Len(schema)
      /\ \/ at' = "failed" /\ error' # "none" /\ built' = built
         \/ (\E array : built' = Append(built, array)) /\ at' = at /\ error' = error
    BY DEF BuildColumn, Fail, memory
<1>2. IsSequence(built') /\ Len(built') <= Len(schema')
    <2>1. IsSequence(built) /\ Len(built) <= Len(schema)
        BY DEF TableInv, TableType
    <2>2. CASE built' = built
        BY <1>1, <2>1, <2>2
    <2>3. ASSUME NEW array, built' = Append(built, array)
          PROVE  IsSequence(built') /\ Len(built') <= Len(schema')
        <3>1. IsSequence(built') /\ Len(built') = Len(built) + 1
            BY <2>1, <2>3, Appended
        <3> QED BY <1>1, <3>1
    <2> QED BY <1>1, <2>2, <2>3
<1>3. TableType'
    BY <1>1, <1>2 DEF TableInv, TableType, Places
<1>4. PlaceInv'
    BY <1>1 DEF TableInv, PlaceInv, Fresh
<1> QED BY <1>1, <1>3, <1>4, Aside

LEMMA FinishBatchKeeps == TableInv /\ FinishBatch => TableType' /\ PlaceInv' /\ FreshInv' /\ Refines
<1> SUFFICES ASSUME TableInv, FinishBatch PROVE TableType' /\ PlaceInv' /\ FreshInv' /\ Refines
    OBVIOUS
<1>1. TableType'
    BY DEF FinishBatch, TableInv, TableType, Places
<1>2. PlaceInv'
    BY DEF FinishBatch, TableInv, PlaceInv, memory, Fresh
<1> QED BY <1>1, <1>2, Aside DEF FinishBatch, memory

LEMMA SendKeeps ==
    ASSUME TableInv, NEW form, Send(form)
    PROVE  TableType' /\ PlaceInv' /\ FreshInv' /\ Refines
<1>1. /\ at = "built" /\ at' = "sent" /\ wire'.batch = SentBatch /\ wire'.body = BodyOf(SentBatch)
      /\ Make(Body) /\ UNCHANGED <<input, error, canceled, schema, built, batch, columns, again>>
    BY DEF Send
<1>2. CountsInv /\ Fresh(Body) /\ Body \in Objects /\ batch = NoBatch
    BY <1>1, Levels DEF TableInv, MemoryInv, PlaceInv
<1>3. TableType'
    <2>1. SentBatch.fields = schema
        BY DEF SentBatch, Batch
    <2>2. Len(schema) \in 0..MaxColumns
        BY ColumnsAssumption DEF TableInv, TableType, IsSequence
    <2> QED BY <1>1, <2>1, <2>2 DEF TableInv, TableType, Places
<1>4. Fresh(Read)'
    BY <1>1, <1>2, FreshMake, Levels DEF TableInv, PlaceInv
<1>5. PlaceInv'
    BY <1>1, <1>4 DEF TableInv, PlaceInv
<1>6. FreshInv'
    BY <1>1, <1>2, FreshMake, Levels DEF TableInv, FreshInv, Make
<1>7. DataIn' = DataIn
    BY <1>1, <1>2 DEF DataIn, ZeroCopy, Length
<1> QED BY <1>1, <1>2, <1>3, <1>5, <1>6, <1>7 DEF Refines

-----------------------------------------------------------------------------
\* The receiver's steps

LEMMA ReceiveKeeps ==
    ASSUME TableInv, NEW form, Receive(form)
    PROVE  TableType' /\ PlaceInv' /\ FreshInv' /\ Refines
<1>1. /\ at = "sent" /\ Body \in held
      /\ UNCHANGED <<input, canceled, schema, built, wire, columns, again>>
      /\ \/ /\ at' = "failed" /\ error' # "none"
            /\ UNCHANGED <<batch, refs, holds, held>>
         \/ /\ at' = "read" /\ batch' = wire.batch /\ UNCHANGED error
            /\ IF wire.body = <<>> THEN Make(Read) ELSE Share(Read, Body)
    BY DEF Receive, Fail, memory
<1>2. /\ batch = NoBatch /\ columns = <<>> /\ again = NoBatch /\ input.by # "query"
      /\ Fresh(Read) /\ CountsInv /\ wire.body = BodyOf(wire.batch) /\ DataIn = {}
    BY <1>1, NoData DEF TableInv, PlaceInv, MemoryInv
<1>3. /\ Body \in Objects /\ refs[Body] > 0
      /\ Read \in Objects /\ <<Read, Body>> \in LiesIn /\ <<Read, Body>> \notin holds
    BY <1>1, <1>2, HeldAlive, Levels DEF Fresh
<1>4. TableType'
    BY <1>1 DEF TableInv, TableType, Places
<1>5. PlaceInv'
    BY <1>1, <1>2 DEF TableInv, PlaceInv
<1>6. FreshInv'
    <2>1. CASE UNCHANGED <<refs, holds, held>>
        BY <1>1, <2>1, FreshUnmoved DEF TableInv
    <2>2. CASE Make(Read)
        BY <1>1, <1>2, <2>2, FreshMake, Levels DEF TableInv, FreshInv, Make
    <2>3. CASE Share(Read, Body)
        BY <1>1, <1>2, <1>3, <2>3, FreshShare, Levels DEF TableInv, FreshInv, Share
    <2> QED BY <1>1, <2>1, <2>2, <2>3
<1>7. Refines
    <2>1. CASE at' = "failed"
        <3>1. DataIn' = DataIn
            BY <1>1, <2>1, DataSame
        <3> QED BY <1>1, <2>1, <3>1 DEF Refines, memory
    <2>2. CASE at' = "read" /\ wire.body = <<>>
        <3>1. DataIn' = {}
            BY <1>1, <1>2, <2>2, EmptyBatch DEF DataIn
        <3> QED BY <1>1, <1>2, <1>3, <2>2, <3>1 DEF Refines
    <2>3. CASE at' = "read" /\ wire.body # <<>>
        <3>1. batch' # NoBatch
            BY <1>1, <1>2, <2>3, BodyAssumption
        <3>2. DataIn' = {<<Read, Body>>}
            <4>1. Len(columns') = 0 /\ Len(again.cols') = 0
                BY <1>1, <1>2, EmptyBatch, EmptySequence
            <4> QED BY <1>1, <2>3, <3>1, <4>1 DEF DataIn
        <3>3. Share(Read, Body) /\ DataIn' = DataIn \cup {<<Read, Body>>}
            BY <1>1, <1>2, <2>3, <3>2
        <3> QED BY <1>2, <1>3, <3>3 DEF Refines
    <2> QED BY <1>1, <2>1, <2>2, <2>3
<1> QED BY <1>4, <1>5, <1>6, <1>7

\* A step to another place, and no more
LEMMA MovesKeep ==
    TableInv /\ (Bridge \/ StartImport \/ FinishImport \/ StartExport \/ FinishExport) =>
        TableType' /\ PlaceInv' /\ FreshInv' /\ Refines
<1> SUFFICES ASSUME TableInv, Bridge \/ StartImport \/ FinishImport \/ StartExport \/ FinishExport
             PROVE  TableType' /\ PlaceInv' /\ FreshInv' /\ Refines
    OBVIOUS
<1>1. /\ UNCHANGED <<input, canceled, schema, built, wire, batch, columns, again, refs, holds, held>>
      /\ IF at' = "failed" THEN error' = "ARROW-COLUMNAR-ERROR" ELSE error' = error
      /\ \/ at \in {"read", "columns"} /\ at' \in {"bridged", "failed"}
         \/ at = "read" /\ Read \in held /\ at' = "importing"
         \/ at = "importing" /\ at' = "columns"
         \/ at = "columns" /\ DenseBuffers \subseteq held /\ at' = "exporting"
         \/ at = "exporting" /\ at' = "again"
    BY DEF Bridge, Fail, StartImport, FinishImport, StartExport, FinishExport, memory
<1>2. TableType'
    BY <1>1 DEF TableInv, TableType, Places
<1>3. PlaceInv'
    <2>1. DenseBuffers' = DenseBuffers
        BY <1>1 DEF DenseBuffers
    <2>2. ASSUME at = "read" PROVE Len(columns) = 0 /\ DenseBuffers = {}
        BY <2>2, EmptySequence DEF TableInv, PlaceInv, DenseBuffers
    <2>3. Len(batch.fields) \in Nat
        BY DEF TableInv, TableType
    <2>4. at' = "exporting" => Len(again.cols) = 0
        BY <1>1, EmptyBatch DEF TableInv, PlaceInv
    <2> QED BY <1>1, <2>1, <2>2, <2>3, <2>4 DEF TableInv, PlaceInv
<1> QED BY <1>1, <1>2, <1>3, Aside

LEMMA DropKeeps ==
    ASSUME TableInv, NEW x \in Objects, Drop(x)
    PROVE  TableType' /\ PlaceInv' /\ FreshInv' /\ Refines
<1>1. /\ at \notin {"build", "importing", "exporting"} /\ x \in held /\ LetGo({x})
      /\ UNCHANGED <<input, at, error, canceled, schema, built, wire, batch, columns, again>>
    BY DEF Drop
<1>2. CountsInv /\ {x} \in SUBSET held
    BY <1>1 DEF TableInv, MemoryInv
<1>3. TableType'
    BY <1>1 DEF TableInv, TableType
<1>4. PlaceInv'
    <2>1. (Fresh(Body) => Fresh(Body)') /\ (Fresh(Read) => Fresh(Read)')
        BY <1>1, <1>2, FreshLetGo, Levels
    <2> QED BY <1>1, <2>1 DEF TableInv, PlaceInv
<1>5. FreshInv'
    BY <1>1, <1>2, FreshGivenBack DEF TableInv
<1>6. DataIn' = DataIn
    BY <1>1, DataSame
<1> QED BY <1>1, <1>2, <1>3, <1>4, <1>5, <1>6 DEF Refines

\* An operation that fails gives back what it has made.
LEMMA AbandonKeeps ==
    ASSUME TableInv, NEW what, what # "none", NEW objects \in SUBSET held, Abandon(what, objects),
           UNCHANGED <<input, canceled, schema, built, wire, batch, columns, again>>
    PROVE  TableType' /\ PlaceInv' /\ FreshInv' /\ Refines
<1>1. at' = "failed" /\ error' = what /\ LetGo(objects)
    BY DEF Abandon, Fail
<1>2. TableType'
    BY <1>1 DEF TableInv, TableType, Places
<1>3. PlaceInv'
    BY <1>1 DEF TableInv, PlaceInv
<1>4. FreshInv'
    BY <1>1, FreshGivenBack DEF TableInv, MemoryInv
<1>5. DataIn' = DataIn
    BY DataSame
<1> QED BY <1>1, <1>2, <1>3, <1>4, <1>5 DEF Refines

-----------------------------------------------------------------------------
\* One column of a ColumnarResult

LEMMA ImportColumnSteps ==
    ASSUME ImportColumn
    PROVE  /\ at = "importing" /\ Len(columns) + 1 <= Len(batch.fields)
           /\ UNCHANGED <<input, canceled, schema, built, wire, batch, again>>
           /\ \/ \E what \in {"canceled", "ARROW-TYPE-ERROR", "addColumn"} :
                    Abandon(what, DenseBuffers) /\ UNCHANGED columns
              \/ \E c : /\ columns' = Append(columns, c) /\ UNCHANGED <<at, error>>
                        /\ c.buffer # "Invalid" /\ ImportDense(Len(columns) + 1, c.array)
              \/ \E c : /\ columns' = Append(columns, c) /\ UNCHANGED <<at, error, refs, holds, held>>
                        /\ c.buffer = "Invalid"
<1> DEFINE n == Len(columns) + 1
           f == batch.fields[n]
           a == batch.cols[n]
           desc == DescriptorOf(f)
           list == ListOf(f.type, a)
           nulls == \E i \in 1..Length(a) : ~a.valid[i]
           dense == DenseColumn(f.name, desc, ElementTypeOf(f.type), f.nullable \/ nulls, f.type, a)
           plain == ListColumn(f.name, desc, list[2])
<1>1. /\ at = "importing" /\ n <= Len(batch.fields)
      /\ UNCHANGED <<input, canceled, schema, built, wire, batch, again>>
    BY DEF ImportColumn
<1>2. dense.buffer = ElementTypeOf(f.type) /\ dense.array = a /\ plain.buffer = "Invalid"
    BY DEF DenseColumn, ListColumn, Column
<1>3. \/ Abandon("canceled", DenseBuffers) /\ UNCHANGED columns
      \/ Abandon("ARROW-TYPE-ERROR", DenseBuffers) /\ UNCHANGED columns
      \/ Abandon("addColumn", DenseBuffers) /\ UNCHANGED columns
      \/ /\ columns' = Append(columns, dense) /\ UNCHANGED <<at, error>>
         /\ Dense(f.type) /\ ImportDense(n, a)
      \/ columns' = Append(columns, plain) /\ UNCHANGED <<at, error, memory>>
    BY DEF ImportColumn
<1> HIDE DEF dense, plain
<1>4. CASE Abandon("canceled", DenseBuffers) /\ UNCHANGED columns
    BY <1>1, <1>4
<1>5. CASE \/ Abandon("ARROW-TYPE-ERROR", DenseBuffers) /\ UNCHANGED columns
           \/ Abandon("addColumn", DenseBuffers) /\ UNCHANGED columns
    BY <1>1, <1>5
<1>6. CASE /\ columns' = Append(columns, dense) /\ UNCHANGED <<at, error>>
           /\ Dense(f.type) /\ ImportDense(n, a)
    <2>1. dense.buffer # "Invalid" /\ ImportDense(n, dense.array)
        BY <1>2, <1>6 DEF Dense
    <2> QED BY <1>1, <1>6, <2>1
<1>7. CASE columns' = Append(columns, plain) /\ UNCHANGED <<at, error, memory>>
    BY <1>1, <1>2, <1>7 DEF memory
<1> QED BY <1>3, <1>4, <1>5, <1>6, <1>7

\* The type and the places when a column was made
LEMMA ColumnMade ==
    ASSUME TableInv, NEW c, at = "importing", Len(columns) + 1 <= Len(batch.fields),
           UNCHANGED <<input, at, error, canceled, schema, built, wire, batch, again>>,
           columns' = Append(columns, c), held \subseteq held',
           c.buffer # "Invalid" => Buffer(Len(columns) + 1) \in held'
    PROVE  /\ TableType' /\ PlaceInv'
           /\ Len(columns) \in Nat /\ Len(columns') = Len(columns) + 1
           /\ Len(columns) + 1 \in 1..MaxColumns
           /\ \A i \in 1..Len(columns) : columns'[i] = columns[i]
           /\ columns'[Len(columns) + 1] = c
<1>1. /\ IsSequence(columns') /\ Len(columns') = Len(columns) + 1 /\ Len(columns) \in Nat
      /\ \A i \in 1..Len(columns) : columns'[i] = columns[i]
      /\ columns'[Len(columns) + 1] = c
    BY Appended DEF TableInv, TableType
<1>2. Len(columns) + 1 <= MaxColumns
    <2>1. Len(batch.fields) \in 0..MaxColumns
        BY DEF TableInv, TableType
    <2> QED BY <1>1, <2>1, ColumnsAssumption
<1>3. TableType'
    <2>1. Len(again'.cols) <= Len(columns')
        <3>1. Len(again.cols) = 0
            BY EmptyBatch DEF TableInv, PlaceInv
        <3> QED BY <1>1, <3>1
    <2> QED BY <1>1, <1>2, <2>1 DEF TableInv, TableType
<1>4. DenseBuffers' \subseteq held'
    <2>1. ASSUME NEW i \in 1..Len(columns'), columns'[i].buffer # "Invalid"
          PROVE  Buffer(i) \in held'
        <3>1. CASE i \in 1..Len(columns)
            BY <1>1, <2>1, <3>1 DEF TableInv, PlaceInv, DenseBuffers
        <3>2. CASE i = Len(columns) + 1
            BY <1>1, <2>1, <3>2
        <3> QED BY <1>1, <3>1, <3>2
    <2> QED BY <2>1 DEF DenseBuffers
<1>5. PlaceInv'
    BY <1>1, <1>4 DEF TableInv, PlaceInv
<1> QED BY <1>1, <1>2, <1>3, <1>5, ColumnsAssumption

\* The data of one more column
LEMMA ColumnData ==
    ASSUME again = NoBatch, input.by # "query", NEW c, Len(columns) \in Nat,
           UNCHANGED <<input, wire, batch, again>>,
           Len(columns') = Len(columns) + 1,
           \A i \in 1..Len(columns) : columns'[i] = columns[i],
           columns'[Len(columns) + 1] = c
    PROVE  DataIn' = IF c.buffer # "Invalid" /\ Length(c.array) # 0
                     THEN DataIn \cup {<<Buffer(Len(columns) + 1), Read>>} ELSE DataIn
<1> DEFINE Made(cols) == {i \in 1..Len(cols) :
               input.by # "query" /\ cols[i].buffer # "Invalid" /\ Length(cols[i].array) # 0}
           Wired == IF batch # NoBatch /\ wire.body # <<>> THEN {<<Read, Body>>} ELSE {}
           Reads(S) == {<<Buffer(i), Read>> : i \in S}
<1>1. Len(again.cols) = 0
    BY EmptyBatch
<1>2. DataIn = Wired \cup Reads(Made(columns)) /\ DataIn' = Wired \cup Reads(Made(columns'))
    BY <1>1 DEF DataIn
<1>3. Made(columns') = IF c.buffer # "Invalid" /\ Length(c.array) # 0
                       THEN Made(columns) \cup {Len(columns) + 1} ELSE Made(columns)
    OBVIOUS
<1> HIDE DEF Made, Wired
<1> QED BY <1>2, <1>3

LEMMA ImportColumnKeeps ==
    ASSUME TableInv, ImportColumn
    PROVE  TableType' /\ PlaceInv' /\ FreshInv' /\ Refines
<1> DEFINE n == Len(columns) + 1
<1>1. /\ at = "importing" /\ n <= Len(batch.fields)
      /\ UNCHANGED <<input, canceled, schema, built, wire, batch, again>>
    BY ImportColumnSteps
<1>2. /\ again = NoBatch /\ input.by # "query" /\ Read \in held /\ DenseBuffers \subseteq held
      /\ CountsInv /\ refs[Read] > 0 /\ Read \in Objects
    BY <1>1, HeldAlive DEF TableInv, PlaceInv, MemoryInv
<1>3. ASSUME NEW what \in {"canceled", "ARROW-TYPE-ERROR", "addColumn"}, Abandon(what, DenseBuffers), UNCHANGED columns
      PROVE  TableType' /\ PlaceInv' /\ FreshInv' /\ Refines
    BY <1>1, <1>2, <1>3, AbandonKeeps
<1>4. ASSUME NEW c, columns' = Append(columns, c), UNCHANGED <<at, error>>,
             c.buffer # "Invalid", ImportDense(n, c.array)
      PROVE  TableType' /\ PlaceInv' /\ FreshInv' /\ Refines
    <2>1. \/ Length(c.array) = 0 /\ Make(Buffer(n))
          \/ Length(c.array) # 0 /\ Share(Buffer(n), Read)
        BY <1>4 DEF ImportDense
    <2>2. held' = held \cup {Buffer(n)}
        BY <2>1 DEF Make, Share
    <2>3. /\ TableType' /\ PlaceInv'
          /\ Len(columns) \in Nat /\ Len(columns') = n /\ n \in 1..MaxColumns
          /\ \A i \in 1..Len(columns) : columns'[i] = columns[i]
          /\ columns'[n] = c
        BY <1>1, <1>4, <2>2, ColumnMade
    <2>4. Fresh(Buffer(n))
        BY <2>3 DEF TableInv, FreshInv
    <2>5. /\ Buffer(n) \in Objects /\ <<Buffer(n), Read>> \in LiesIn
          /\ Buffer(n) # Again /\ \A i \in 1..MaxColumns : i # n => Buffer(i) \in Objects /\ Buffer(i) # Buffer(n)
        BY <2>3, Levels
    <2>6. FreshInv'
        <3>1. ASSUME NEW y \in Objects, y # Buffer(n), Fresh(y) PROVE Fresh(y)'
            BY <1>2, <2>1, <2>5, <3>1, FreshMake, FreshShare
        <3>2. ASSUME NEW i \in 1..MaxColumns, i > Len(columns') PROVE Fresh(Buffer(i))'
            <4>1. i > Len(columns) /\ i # n
                BY <2>3, <3>2
            <4> QED BY <2>5, <3>1, <4>1 DEF TableInv, FreshInv
        <3>3. Len(again'.cols) = 0 => Fresh(Again)'
            BY <1>1, <2>5, <3>1, Levels DEF TableInv, FreshInv
        <3>4. \A i \in 1..MaxColumns : <<Again, Buffer(i)>> \in holds' => <<Again, Buffer(i)>> \in holds
            BY <2>1, <2>5 DEF Make, Share
        <3> QED BY <1>1, <3>2, <3>3, <3>4 DEF TableInv, FreshInv
    <2>7. DataIn' = IF Length(c.array) # 0 THEN DataIn \cup {<<Buffer(n), Read>>} ELSE DataIn
        BY <1>1, <1>2, <1>4, <2>3, ColumnData
    <2>8. <<Buffer(n), Read>> \notin holds
        BY <1>2, <2>4 DEF Fresh
    <2>9. Refines
        BY <1>2, <2>1, <2>4, <2>5, <2>7, <2>8 DEF Refines
    <2> QED BY <2>3, <2>6, <2>9
<1>5. ASSUME NEW c, columns' = Append(columns, c), UNCHANGED <<at, error, refs, holds, held>>,
             c.buffer = "Invalid"
      PROVE  TableType' /\ PlaceInv' /\ FreshInv' /\ Refines
    <2>1. /\ TableType' /\ PlaceInv'
          /\ Len(columns) \in Nat /\ Len(columns') = n /\ n \in 1..MaxColumns
          /\ \A i \in 1..Len(columns) : columns'[i] = columns[i]
          /\ columns'[n] = c
        BY <1>1, <1>5, ColumnMade
    <2>2. FreshInv'
        BY <1>1, <1>5, <2>1 DEF TableInv, FreshInv, Fresh
    <2>3. DataIn' = DataIn
        BY <1>1, <1>2, <1>5, <2>1, ColumnData
    <2> QED BY <1>5, <2>1, <2>2, <2>3 DEF Refines, memory
<1> QED BY <1>3, <1>4, <1>5, ImportColumnSteps

-----------------------------------------------------------------------------
\* One column of the batch made of a ColumnarResult

LEMMA ExportColumnSteps ==
    ASSUME ExportColumn
    PROVE  /\ at = "exporting" /\ Len(again.cols) + 1 <= Len(columns)
           /\ UNCHANGED <<input, canceled, schema, built, wire, batch, columns>>
           /\ \/ \E what \in {"canceled", "ARROW-TYPE-ERROR", "ARROW-COLUMNAR-ERROR"} :
                    Abandon(what, {Again} \cap held) /\ UNCHANGED again
              \/ \E f, array :
                    /\ again' = Batch(Append(again.fields, f), Length(array), Append(again.cols, array))
                    /\ ExportMemory(Len(again.cols) + 1, ZeroCopy(columns[Len(again.cols) + 1], f.type))
                    /\ UNCHANGED <<at, error>>
<1> DEFINE n == Len(again.cols) + 1
           c == columns[n]
           f == ColumnField(c)
           array == IF ZeroCopy(c, f.type) THEN c.array ELSE ArrayOf(f.type, ColumnValues(c))
<1>1. /\ at = "exporting" /\ n <= Len(columns)
      /\ UNCHANGED <<input, canceled, schema, built, wire, batch, columns>>
    BY DEF ExportColumn
<1>2. \/ Abandon("canceled", {Again} \cap held) /\ UNCHANGED again
      \/ Abandon("ARROW-TYPE-ERROR", {Again} \cap held) /\ UNCHANGED again
      \/ Abandon("ARROW-COLUMNAR-ERROR", {Again} \cap held) /\ UNCHANGED again
      \/ /\ again' = Batch(Append(again.fields, f), Length(array), Append(again.cols, array))
         /\ ExportMemory(n, ZeroCopy(c, f.type))
         /\ UNCHANGED <<at, error>>
    BY DEF ExportColumn
<1> HIDE DEF f, array
<1> QED BY <1>1, <1>2

\* The data of one more column
LEMMA AgainData ==
    ASSUME NEW f, Len(again.cols) \in Nat,
           UNCHANGED <<input, wire, batch, columns>>,
           Len(again'.cols) = Len(again.cols) + 1,
           \A i \in 1..Len(again.cols) : again'.fields[i] = again.fields[i],
           again'.fields[Len(again.cols) + 1] = f
    PROVE  DataIn' = IF ZeroCopy(columns[Len(again.cols) + 1], f.type)
                     THEN DataIn \cup {<<Again, Buffer(Len(again.cols) + 1)>>} ELSE DataIn
<1> DEFINE Shared(b) == {i \in 1..Len(b.cols) : ZeroCopy(columns[i], b.fields[i].type)}
           Before == (IF batch # NoBatch /\ wire.body # <<>> THEN {<<Read, Body>>} ELSE {})
               \cup {<<Buffer(i), Read>> : i \in {j \in 1..Len(columns) :
                  input.by # "query" /\ columns[j].buffer # "Invalid" /\ Length(columns[j].array) # 0}}
           Reads(S) == {<<Again, Buffer(i)>> : i \in S}
<1>1. DataIn = Before \cup Reads(Shared(again)) /\ DataIn' = Before \cup Reads(Shared(again'))
    BY DEF DataIn, ZeroCopy, Length
<1>2. Shared(again') = IF ZeroCopy(columns[Len(again.cols) + 1], f.type)
                       THEN Shared(again) \cup {Len(again.cols) + 1} ELSE Shared(again)
    OBVIOUS
<1> HIDE DEF Shared, Before
<1> QED BY <1>1, <1>2

LEMMA ExportColumnKeeps ==
    ASSUME TableInv, ExportColumn
    PROVE  TableType' /\ PlaceInv' /\ FreshInv' /\ Refines
<1> DEFINE n == Len(again.cols) + 1
<1>1. /\ at = "exporting" /\ n <= Len(columns)
      /\ UNCHANGED <<input, canceled, schema, built, wire, batch, columns>>
    BY ExportColumnSteps
<1>2. CountsInv /\ DenseBuffers \subseteq held
    BY <1>1 DEF TableInv, PlaceInv, MemoryInv
<1>3. ASSUME NEW what \in {"canceled", "ARROW-TYPE-ERROR", "ARROW-COLUMNAR-ERROR"},
             Abandon(what, {Again} \cap held), UNCHANGED again
      PROVE  TableType' /\ PlaceInv' /\ FreshInv' /\ Refines
    BY <1>1, <1>3, AbandonKeeps
<1>4. ASSUME NEW f, NEW array,
             again' = Batch(Append(again.fields, f), Length(array), Append(again.cols, array)),
             ExportMemory(n, ZeroCopy(columns[n], f.type)), UNCHANGED <<at, error>>
      PROVE  TableType' /\ PlaceInv' /\ FreshInv' /\ Refines
    <2>1. again'.fields = Append(again.fields, f) /\ again'.cols = Append(again.cols, array)
        BY <1>4 DEF Batch
    <2>2. /\ IsSequence(again'.fields) /\ IsSequence(again'.cols)
          /\ Len(again.cols) \in Nat /\ Len(again'.cols) = n /\ Len(again'.fields) = n
          /\ \A i \in 1..Len(again.cols) : again'.fields[i] = again.fields[i]
          /\ again'.fields[n] = f
        BY <2>1, Appended DEF TableInv, TableType
    <2>3. n \in 1..MaxColumns /\ n # 0
        <3>1. Len(columns) <= MaxColumns /\ Len(columns) \in Nat
            BY DEF TableInv, TableType, IsSequence
        <3> QED BY <1>1, <2>2, <3>1, ColumnsAssumption
    <2>4. \/ ~ZeroCopy(columns[n], f.type) /\ Make(Again)
          \/ ZeroCopy(columns[n], f.type) /\ Share(Again, Buffer(n))
        BY <1>4 DEF ExportMemory
    <2>5. held' = held \cup {Again}
        BY <2>4 DEF Make, Share
    <2>6. Again \in Objects /\ Buffer(n) \in Objects /\ <<Again, Buffer(n)>> \in LiesIn
        BY <2>3, Levels
    <2>7. ZeroCopy(columns[n], f.type) => Buffer(n) \in held /\ refs[Buffer(n)] > 0
        <3>1. SUFFICES ASSUME ZeroCopy(columns[n], f.type) PROVE Buffer(n) \in DenseBuffers
            BY <1>2, HeldAlive
        <3> QED BY <1>1, <2>2, <2>3, <3>1 DEF ZeroCopy, DenseBuffers
    <2>8. Fresh(Again) \/ Again \in held
        BY <1>1, <2>2 DEF TableInv, PlaceInv, FreshInv
    <2>9. TableType'
        BY <1>1, <1>4, <2>2 DEF TableInv, TableType
    <2>10. PlaceInv'
        <3>1. DenseBuffers' = DenseBuffers
            BY <1>1 DEF DenseBuffers
        <3> QED BY <1>1, <1>4, <2>5, <3>1 DEF TableInv, PlaceInv
    <2>11. FreshInv'
        <3>1. ASSUME NEW y \in Objects, y # Again, Fresh(y) PROVE Fresh(y)'
            BY <1>2, <2>4, <2>6, <2>7, <3>1, FreshMake, FreshShare
        <3>2. \A i \in 1..MaxColumns : i > Len(columns') => Fresh(Buffer(i))'
            BY <1>1, <3>1, Levels DEF TableInv, FreshInv
        <3>3. \A i \in 1..MaxColumns : <<Again, Buffer(i)>> \in holds' => i <= Len(again'.cols)
            <4>1. ASSUME NEW i \in 1..MaxColumns, <<Again, Buffer(i)>> \in holds'
                  PROVE  i <= n
                <5>1. <<Again, Buffer(i)>> \in holds \/ i = n
                    BY <2>3, <2>4, <4>1, Levels DEF Make, Share
                <5> QED BY <2>2, <5>1 DEF TableInv, FreshInv
            <4> QED BY <2>2, <4>1
        <3> QED BY <2>2, <2>3, <3>2, <3>3 DEF FreshInv
    <2>12. DataIn' = IF ZeroCopy(columns[n], f.type) THEN DataIn \cup {<<Again, Buffer(n)>>} ELSE DataIn
        BY <1>1, <2>2, AgainData
    <2>13. <<Again, Buffer(n)>> \notin holds
        BY <2>2, <2>3 DEF TableInv, FreshInv
    <2>14. Refines
        <3>1. CASE ZeroCopy(columns[n], f.type)
            BY <2>4, <2>6, <2>7, <2>8, <2>12, <2>13, <3>1 DEF Refines
        <3>2. CASE ~ZeroCopy(columns[n], f.type) /\ Fresh(Again)
            BY <2>4, <2>6, <2>12, <3>2 DEF Refines
        <3>3. CASE ~ZeroCopy(columns[n], f.type) /\ Again \in held
            <4>1. refs[Again] > 0 /\ refs \in [Objects -> Nat]
                BY <1>2, <3>3, HeldAlive DEF CountsInv, CountsType
            <4>2. UNCHANGED memory
                BY <2>4, <2>5, <3>3, <4>1 DEF Make, memory
            <4> QED BY <2>12, <3>3, <4>2 DEF Refines
        <3> QED BY <2>8, <3>1, <3>2, <3>3
    <2> QED BY <2>9, <2>10, <2>11, <2>14
<1> QED BY <1>3, <1>4, ExportColumnSteps

-----------------------------------------------------------------------------
\* Every step

LEMMA TableStep == TableInv /\ [Next]_vars => TableInv' /\ [Memory!Next]_(Memory!vars)
<1> SUFFICES ASSUME TableInv, [Next]_vars PROVE TableInv' /\ [Memory!Next]_(Memory!vars)
    OBVIOUS
<1>1. TableType' /\ PlaceInv' /\ FreshInv' /\ Refines
    <2>1. CASE UNCHANGED vars
        <3>1. TableType' /\ PlaceInv'
            BY <2>1 DEF vars, TableInv, TableType, PlaceInv, Fresh, DenseBuffers
        <3> QED BY <2>1, <3>1, Aside DEF vars
    <2>2. CASE Next
        BY <2>2, CancelKeeps, DefineSchemaKeeps, BuildColumnKeeps, FinishBatchKeeps, SendKeeps,
           ReceiveKeeps, MovesKeep, ImportColumnKeeps, ExportColumnKeeps, DropKeeps DEF Next
    <2> QED BY <2>1, <2>2
<1>2. MemoryInv'
    BY <1>1, RefinesKeeps DEF TableInv
<1>3. [Memory!Next]_(Memory!vars)
    BY <1>1, RefinesMemory
<1> QED BY <1>1, <1>2, <1>3 DEF TableInv

LEMMA TableAlways == Spec => []TableInv
<1>1. Init => TableInv
    BY TableInit
<1>2. TableInv /\ [Next]_vars => TableInv'
    BY TableStep
<1> QED BY <1>1, <1>2, PTL DEF Spec

-----------------------------------------------------------------------------
\* The theorems

\* Among the owners of something are at most those of the level above it.
LEMMA FewOwners ==
    ASSUME CountsInv, NEW x \in Objects
    PROVE  refs[x] \in 0..(MaxColumns + 1)
<1>1. IsFiniteSet(Owners(x)) /\ Cardinality(Owners(x)) \in Nat
    BY Counted DEF Owners
<1>2. Cardinality(Owners(x)) <= MaxColumns
    <2>1. CASE x = Read
        <3>1. Owners(x) \subseteq Buffers
            BY <2>1, Downward, LevelsApart DEF Owners, CountsInv, CountsType
        <3> DEFINE buffer == [i \in 1..MaxColumns |-> Buffer(i)]
        <3>2. buffer \in Surjection(1..MaxColumns, Buffers)
            BY DEF Surjection, Buffers
        <3>3. IsFiniteSet(1..MaxColumns) /\ Cardinality(1..MaxColumns) = MaxColumns
            BY FS_Interval, ColumnsAssumption
        <3>4. IsFiniteSet(Buffers) /\ Cardinality(Buffers) <= MaxColumns
            BY <3>2, <3>3, FS_Surjection
        <3>5. Cardinality(Owners(x)) <= Cardinality(Buffers) /\ Cardinality(Buffers) \in Nat
            BY <3>1, <3>4, FS_Subset, FS_CardinalityType
        <3> QED BY <1>1, <3>4, <3>5, ColumnsAssumption
    <2>2. ASSUME NEW y, Owners(x) \subseteq {y} PROVE Cardinality(Owners(x)) <= MaxColumns
        <3>1. IsFiniteSet({y}) /\ Cardinality({y}) = 1
            BY FS_Singleton
        <3>2. Cardinality(Owners(x)) <= 1
            BY <2>2, <3>1, FS_Subset
        <3> QED BY <1>1, <3>2, ColumnsAssumption
    <2>3. CASE x # Read
        <3>1. Owners(x) \subseteq {Again} \/ Owners(x) \subseteq {Read}
            BY <2>3, Downward, LevelsApart DEF Owners, CountsInv, CountsType
        <3> QED BY <2>2, <3>1
    <2> QED BY <2>1, <2>3
<1>3. InHand(x) \in 0..1
    BY DEF InHand
<1>4. refs[x] = Cardinality(Owners(x)) + InHand(x)
    BY DEF CountsInv, CountsExact
<1> HIDE DEF CountsInv
<1> QED BY <1>1, <1>2, <1>3, <1>4, ColumnsAssumption

\* The way of a table and the counts of its memory stay within their types, whatever
\* the tables are and whatever the conversions make of them.
THEOREM TableTypeCorrect == Spec => []TypeOK
<1>1. TableInv => TypeOK
    <2> SUFFICES ASSUME TableInv PROVE TypeOK
        OBVIOUS
    <2>1. /\ at \in Places /\ (error = "none" <=> at # "failed") /\ canceled \in BOOLEAN
          /\ Len(built) <= MaxColumns /\ Len(columns) <= MaxColumns /\ Len(again.cols) <= MaxColumns
        <3>1. /\ Len(built) \in Nat /\ Len(schema) \in Nat /\ Len(columns) \in Nat /\ Len(again.cols) \in Nat
              /\ Len(built) <= Len(schema) /\ Len(schema) <= MaxColumns
              /\ Len(columns) <= MaxColumns /\ Len(again.cols) <= Len(columns)
            BY DEF TableInv, TableType, IsSequence
        <3> QED BY <3>1, ColumnsAssumption DEF TableInv, TableType
    <2>2. refs \in [Objects -> 0..(MaxColumns + 1)]
        BY FewOwners DEF TableInv, MemoryInv, CountsInv, CountsType
    <2>3. held \subseteq Objects
        BY DEF TableInv, MemoryInv, CountsInv, CountsType
    <2>4. (error = "none") = (at # "failed")
        BY <2>1
    <2> QED BY <2>1, <2>2, <2>3, <2>4 DEF TypeOK, Places
<1> QED BY <1>1, TableAlways, PTL

\* A table of any width, on any way through the binding and whatever fails, is
\* cancelled or let go, shares the memory its data lies in, of what is alive at that
\* time, and gives every reference back once: it implements ArrowMemory.
THEOREM TableSharesMemory == Spec => SharesMemory
<1>1. Init => Memory!Init
    BY TableInit
<1>2. TableInv /\ [Next]_vars => [Memory!Next]_(Memory!vars)
    BY TableStep
<1> QED BY <1>1, <1>2, TableAlways, PTL DEF Spec, SharesMemory, Memory!Spec

\* The memory that the data of something alive lies in is alive.
THEOREM TableMemoryOutlives == Spec => []MemoryOutlives
<1>1. TableInv => MemoryOutlives
    <2> SUFFICES ASSUME TableInv, NEW x \in Objects, NEW y \in Objects, <<x, y>> \in DataIn, refs[x] > 0
                 PROVE  refs[y] > 0
        BY SameObjects DEF MemoryOutlives, Memory!MemoryOutlives
    <2>1. x \in Owners(y) /\ CountsInv
        BY DEF TableInv, MemoryInv, Owners
    <2> QED BY <2>1, OwnerCounts
<1> QED BY <1>1, TableAlways, PTL

\* Once every reference in hand was given back, nothing of a table is left alive.
THEOREM TableReclaimed == Spec => []Reclaimed
<1>1. TableInv => Reclaimed
    BY AllReclaimed DEF TableInv, MemoryInv
<1> QED BY <1>1, TableAlways, PTL

=============================================================================
