--------------------------- MODULE ArrowReferences ---------------------------
(***************************************************************************)
(* The reference counts of what shares memory in the Arrow binding.  A     *)
(* record batch that is read lies in the binary with the message's body, a *)
(* dense buffer in the batch, and a batch made of buffers lies in them.    *)
(* Each has a reference to what it lies in, and the program, or the        *)
(* operation that runs, to what it has in hand.  The last reference to an  *)
(* object that is given back takes with it the references the object has.  *)
(***************************************************************************)
EXTENDS Integers, FiniteSets

CONSTANT MaxColumns   \* bound on the columns of a table

ASSUME ColumnsAssumption == MaxColumns \in Nat \ {0}

VARIABLES
    refs,    \* reference counts
    holds,   \* <<x, y>>: x has, or had while it lived, a reference to y
    held     \* what the program or its operation has a reference to

\* The binary with a message's body, the batch read from it, the dense buffer of
\* each column, and the batch made of the buffers: each level lies in the next.
Body == <<"body", 0>>
Read == <<"batch", 0>>
Buffer(i) == <<"buffer", i>>
Again == <<"again", 0>>
Buffers == {Buffer(i) : i \in 1..MaxColumns}
Objects == {Body, Read, Again} \cup Buffers
LiesIn == ({Again} \X Buffers) \cup (Buffers \X {Read}) \cup {<<Read, Body>>}

-----------------------------------------------------------------------------
\* An object that was not made yet
Fresh(x) == refs[x] = 0 /\ \A y \in Objects : <<x, y>> \notin holds

\* An object with memory of its own
Make(x) ==
    /\ refs' = [refs EXCEPT ![x] = IF @ = 0 THEN 1 ELSE @]
    /\ held' = held \cup {x}
    /\ UNCHANGED holds

\* x, new or in hand, takes a share of the memory of y.
Share(x, y) ==
    /\ refs' = [refs EXCEPT ![y] = @ + 1, ![x] = IF @ = 0 THEN 1 ELSE @]
    /\ holds' = holds \cup {<<x, y>>}
    /\ held' = held \cup {x}

\* The counts when the objects of a level that have none left take their references
\* with them.
Settle(level, counts) ==
    LET died == {x \in level : refs[x] > 0 /\ counts[x] = 0} IN
    [y \in Objects |-> counts[y] - Cardinality({x \in died : <<x, y>> \in holds})]

\* The references to the objects are given back.
Less(objects) == [x \in Objects |-> refs[x] - IF x \in objects THEN 1 ELSE 0]
LetGo(objects) ==
    /\ refs' = Settle({Read}, Settle(Buffers, Settle({Again}, Less(objects))))
    /\ held' = held \ objects
    /\ UNCHANGED holds

-----------------------------------------------------------------------------
\* When every reference in hand was given back, nothing is left alive: no count was
\* forgotten, in whatever order they went (the ReferenceHolders, closed when an
\* operation fails).
Reclaimed == held = {} => \A x \in Objects : refs[x] = 0

=============================================================================
