-------------------------- MODULE ArrowMemoryProofs --------------------------
(***************************************************************************)
(* Memory is kept as long as it is read and no longer, for tables of any   *)
(* number of columns: its counts are exact.                                *)
(***************************************************************************)
EXTENDS ArrowMemory, ArrowReferencesProofs

\* The counts are exact, and what is read is held.
MemoryInv == CountsInv /\ reads \subseteq holds

LEMMA MemoryStep == MemoryInv /\ [Next]_vars => MemoryInv'
<1> SUFFICES ASSUME MemoryInv, [Next]_vars PROVE MemoryInv'
    OBVIOUS
<1> USE DEF MemoryInv
<1>1. ASSUME NEW x \in Objects, MakeObject(x) PROVE MemoryInv'
    BY <1>1, MakeKeeps DEF MakeObject, Make
<1>2. ASSUME NEW x \in Objects, NEW y \in Objects, <<x, y>> \in LiesIn, ShareMemory(x, y)
      PROVE  MemoryInv'
    BY <1>2, ShareKeeps DEF ShareMemory, Share
<1>3. ASSUME NEW objects \in SUBSET held, GiveBack(objects) PROVE MemoryInv'
    <2>1. UNCHANGED <<holds, reads>>
        BY <1>3 DEF GiveBack, LetGo
    <2> QED BY <1>3, <2>1, LetGoKeeps DEF GiveBack
<1>4. CASE UNCHANGED vars
    BY <1>4 DEF vars, CountsInv, CountsType, CountsExact, Owners, InHand
<1> QED BY <1>1, <1>2, <1>3, <1>4 DEF Next

LEMMA MemoryAlways == Spec => []MemoryInv
<1>1. Init => MemoryInv
    BY StartCounts DEF Init, MemoryInv
<1>2. MemoryInv /\ [Next]_vars => MemoryInv'
    BY MemoryStep
<1> QED BY <1>1, <1>2, PTL DEF Spec

\* With any number of columns, and whatever fails or is let go in whatever order, the
\* memory that something alive reads is alive (QoreBufferArrowOwner and the
\* other owners of wrapped storage).
THEOREM MemoryKept == Spec => []MemoryOutlives
<1>1. MemoryInv => MemoryOutlives
    <2> SUFFICES ASSUME MemoryInv, NEW x \in Objects, NEW y \in Objects,
                        <<x, y>> \in reads, refs[x] > 0
                 PROVE  refs[y] > 0
        BY DEF MemoryOutlives
    <2>1. x \in Owners(y)
        BY DEF MemoryInv, Owners
    <2> QED BY <2>1, OwnerCounts DEF MemoryInv
<1> QED BY <1>1, MemoryAlways, PTL

\* Once every reference in hand was given back, nothing is left alive: what nothing
\* holds and nothing owns goes, from the top level down.
THEOREM MemoryReclaimed == Spec => []Reclaimed
<1>1. MemoryInv => Reclaimed
    BY AllReclaimed DEF MemoryInv
<1> QED BY <1>1, MemoryAlways, PTL

=============================================================================
