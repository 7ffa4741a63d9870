------------------------------- MODULE ArrowData -------------------------------
(***************************************************************************)
(* The data of the Arrow binding: types and fields, Qore values, arrays,   *)
(* record batches.                                                         *)
(*                                                                         *)
(* A type is a record with the parameters of every kind of type; those a   *)
(* kind does not have keep their default.  A Qore value is a pair of its   *)
(* kind and what it holds: an integer, the microseconds since the epoch    *)
(* and the zone's offset of a date, the microseconds of a duration and     *)
(* those that getRelativeMicroseconds() answers for it, the elements of a  *)
(* list, the key-value pairs of a hash.  NoType, NoField, Throws and       *)
(* FailedArray stand in the place of what a raised exception leaves out.   *)
(***************************************************************************)
EXTENDS Integers, Sequences

IsSequence(s) == Len(s) \in Nat /\ s = [i \in 1..Len(s) |-> s[i]]

-----------------------------------------------------------------------------
\* Types and fields

\* kids are the type's child fields, num_fields() of them; dict holds the index
\* and the value type of a dictionary, which has no child fields.
Type(id) == [id |-> id, unit |-> "", tz |-> "", precision |-> 0, scale |-> 0,
             size |-> 0, kids |-> <<>>, dict |-> <<>>]

Field(name, type, nullable) ==
    [name |-> name, type |-> type, nullable |-> nullable, metadata |-> <<>>]

NoType == Type("none")
NoField == Field("none", NoType, TRUE)

-----------------------------------------------------------------------------
\* Qore values

Nothing == <<"nothing", 0>>
Throws == <<"throws", 0>>       \* a raised exception in the place of a value
QBool(b) == <<"bool", b>>
QInt(n) == <<"int", n>>
QNumber(n) == <<"number", n>>   \* in units of the last of MaxScale digits
QFloat(n) == <<"float", n>>
QString(s) == <<"string", s>>
QBinary(bytes) == <<"binary", bytes>>
QDate(us, offset) == <<"date", us, offset>>
QDuration(us, micros) == <<"duration", us, micros>>
QList(elements) == <<"list", elements>>
QHash(pairs) == <<"hash", pairs>>

Lookup(hash, key) ==
    IF \E i \in 1..Len(hash[2]) : hash[2][i][1] = key
    THEN hash[2][CHOOSE i \in 1..Len(hash[2]) : hash[2][i][1] = key][2]
    ELSE Nothing

-----------------------------------------------------------------------------
\* Arrays and batches

\* A slot of an array is valid or null.  data holds a value for every slot; that of
\* a list or a map is the offset where its elements end, which begin where the
\* slot before it ends.  A map keeps its keys and its items in two arrays of
\* values, a dictionary array its dictionary; a union's data is the child, and in a
\* dense one the place in it.
Array(valid, data, kids) == [valid |-> valid, data |-> data, kids |-> kids]
Length(a) == Len(a.valid)
NoArray == Array(<<>>, <<>>, <<>>)
FailedArray == Array(<<FALSE>>, <<>>, <<>>)      \* the builder after an exception

Batch(fields, rows, cols) == [fields |-> fields, rows |-> rows, cols |-> cols]
NoBatch == Batch(<<>>, 0, <<>>)

=============================================================================
