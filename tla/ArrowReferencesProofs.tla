------------------------ MODULE ArrowReferencesProofs ------------------------
(***************************************************************************)
(* The counts of the binding's memory are exact, for tables of any number  *)
(* of columns: making, sharing and giving back keep every count that of    *)
(* the references there are.                                               *)
(***************************************************************************)
EXTENDS ArrowReferences, FiniteSetTheorems, TLAPS

-----------------------------------------------------------------------------
\* The invariant

CountsType ==
    /\ refs \in [Objects -> Nat]
    /\ holds \in SUBSET LiesIn
    /\ held \in SUBSET Objects

\* What is alive and has a reference to x, and the reference in hand
Owners(x) == {y \in Objects : <<y, x>> \in holds /\ refs[y] > 0}
InHand(x) == IF x \in held THEN 1 ELSE 0

\* Every count is that of the references there are.
CountsExact == \A x \in Objects : refs[x] = Cardinality(Owners(x)) + InHand(x)

CountsInv == CountsType /\ CountsExact

-----------------------------------------------------------------------------
\* The levels

LEMMA LevelsApart ==
    /\ Body \in Objects /\ Read \in Objects /\ Again \in Objects /\ Buffers \subseteq Objects
    /\ Body # Read /\ Body # Again /\ Read # Again
    /\ Body \notin Buffers /\ Read \notin Buffers /\ Again \notin Buffers
BY DEF Objects, Buffers, Body, Read, Again, Buffer

\* Nothing lies in what is above it.
LEMMA Downward ==
    ASSUME NEW x, NEW y, <<x, y>> \in LiesIn
    PROVE  /\ x \in Objects /\ y \in Objects /\ x # y
           /\ \/ x = Again /\ y \in Buffers
              \/ x \in Buffers /\ y = Read
              \/ x = Read /\ y = Body
<1>1. \/ x = Again /\ y \in Buffers
      \/ x \in Buffers /\ y = Read
      \/ x = Read /\ y = Body
    BY DEF LiesIn
<1> QED BY <1>1, LevelsApart

LEMMA ObjectsFinite == IsFiniteSet(Objects)
<1> DEFINE buffer == [i \in 1..MaxColumns |-> Buffer(i)]
<1>1. buffer \in Surjection(1..MaxColumns, Buffers)
    BY DEF Surjection, Buffers
<1>2. IsFiniteSet(Buffers)
    <2>1. IsFiniteSet(1..MaxColumns)
        BY FS_Interval, ColumnsAssumption
    <2> QED BY <1>1, <2>1, FS_Surjection
<1>3. IsFiniteSet({Body, Read, Again})
    <2>1. IsFiniteSet({} \cup {Body})
        BY FS_EmptySet, FS_AddElement
    <2>2. IsFiniteSet(({} \cup {Body}) \cup {Read})
        BY <2>1, FS_AddElement
    <2>3. IsFiniteSet((({} \cup {Body}) \cup {Read}) \cup {Again})
        BY <2>2, FS_AddElement
    <2>4. (({} \cup {Body}) \cup {Read}) \cup {Again} = {Body, Read, Again}
        OBVIOUS
    <2> QED BY <2>3, <2>4
<1> QED BY <1>2, <1>3, FS_Union DEF Objects

\* Every set of objects has a number of members.
LEMMA Counted ==
    ASSUME NEW S \in SUBSET Objects
    PROVE  IsFiniteSet(S) /\ Cardinality(S) \in Nat
BY ObjectsFinite, FS_Subset, FS_CardinalityType

-----------------------------------------------------------------------------
\* Making and sharing

LEMMA StartCounts ==
    ASSUME held \subseteq Buffers, holds = {},
           refs = [x \in Objects |-> IF x \in held THEN 1 ELSE 0]
    PROVE  CountsInv
<1>1. CountsType
    BY LevelsApart DEF CountsType
<1>2. ASSUME NEW x \in Objects PROVE refs[x] = Cardinality(Owners(x)) + InHand(x)
    <2>1. Owners(x) = {}
        BY DEF Owners
    <2>2. Cardinality(Owners(x)) = 0
        BY <2>1, FS_EmptySet
    <2>3. refs[x] = InHand(x) /\ InHand(x) \in Nat
        BY DEF InHand
    <2> QED BY <2>2, <2>3
<1> QED BY <1>1, <1>2 DEF CountsInv, CountsExact

\* What is new has no owner and is not in hand.
LEMMA FreshUnowned ==
    ASSUME CountsInv, NEW x \in Objects, Fresh(x)
    PROVE  Cardinality(Owners(x)) = 0 /\ x \notin held
<1>1. Cardinality(Owners(x)) \in Nat
    BY Counted DEF Owners
<1>2. refs[x] = 0 /\ refs[x] = Cardinality(Owners(x)) + InHand(x)
    BY DEF CountsInv, CountsExact, Fresh
<1> QED BY <1>1, <1>2 DEF InHand

LEMMA MakeKeeps ==
    ASSUME CountsInv, NEW x \in Objects, Fresh(x), Make(x)
    PROVE  CountsInv'
<1>1. /\ refs[x] = 0 /\ refs' = [refs EXCEPT ![x] = 1] /\ held' = held \cup {x}
      /\ UNCHANGED holds
      /\ \A y \in Objects : <<x, y>> \notin holds
    BY DEF Fresh, Make, CountsInv, CountsType
<1>2. CountsType'
    BY <1>1 DEF CountsInv, CountsType
<1>3. ASSUME NEW y \in Objects PROVE (refs[y] = Cardinality(Owners(y)) + InHand(y))'
    <2>1. Owners(y)' = Owners(y)
        BY <1>1 DEF Owners, CountsInv, CountsType
    <2>2. CASE y = x
        <3>1. Cardinality(Owners(x)) = 0
            BY FreshUnowned
        <3> QED BY <1>1, <2>1, <2>2, <3>1 DEF InHand, CountsInv, CountsType
    <2>3. CASE y # x
        <3>1. refs'[y] = refs[y] /\ InHand(y)' = InHand(y)
            BY <1>1, <2>3 DEF InHand, CountsInv, CountsType
        <3> QED BY <2>1, <3>1 DEF CountsInv, CountsExact
    <2> QED BY <2>2, <2>3
<1> QED BY <1>2, <1>3 DEF CountsInv, CountsExact

LEMMA ShareKeeps ==
    ASSUME CountsInv,
           NEW x \in Objects, NEW y \in Objects, <<x, y>> \in LiesIn, <<x, y>> \notin holds,
           Fresh(x) \/ x \in held, refs[y] > 0, Share(x, y)
    PROVE  CountsInv'
<1>1. x # y
    BY Downward
<1>2. /\ refs[y] > 0
      /\ refs' = [refs EXCEPT ![y] = @ + 1, ![x] = IF @ = 0 THEN 1 ELSE @]
      /\ <<x, y>> \notin holds
      /\ holds' = holds \cup {<<x, y>>}
      /\ held' = held \cup {x}
    BY DEF Share
<1>3. CountsType'
    BY <1>1, <1>2 DEF CountsInv, CountsType
<1>4. refs[x] > 0 \/ Fresh(x)
    <2>1. CASE x \in held
        <3>1. Cardinality(Owners(x)) \in Nat
            BY Counted DEF Owners
        <3> QED BY <2>1, <3>1 DEF CountsInv, CountsExact, InHand
    <2> QED BY <2>1
<1>5. \/ refs[x] > 0 /\ refs'[x] = refs[x] /\ x \in held
      \/ refs[x] = 0 /\ refs'[x] = 1 /\ Fresh(x)
    BY <1>1, <1>2, <1>4 DEF Fresh, CountsInv, CountsType
<1>6. \A z \in Objects \ {x, y} : refs'[z] = refs[z]
    BY <1>2 DEF CountsInv, CountsType
<1>7. refs'[y] = refs[y] + 1
    BY <1>1, <1>2 DEF CountsInv, CountsType
<1>8. ASSUME NEW z \in Objects PROVE (refs[z] = Cardinality(Owners(z)) + InHand(z))'
    <2>0. Cardinality(Owners(z)) \in Nat /\ IsFiniteSet(Owners(z))
        BY Counted DEF Owners
    <2>1. CASE z = y
        <3>1. Owners(y)' = Owners(y) \cup {x} /\ x \notin Owners(y)
            <4>1. ASSUME NEW w \in Objects
                  PROVE  w \in Owners(y)' <=> w \in Owners(y) \/ w = x
                <5>1. CASE w = x
                    BY <1>2, <1>5, <5>1 DEF Owners
                <5>2. CASE w = y
                    BY <1>1, <1>2, Downward, <5>2 DEF Owners, CountsInv, CountsType
                <5>3. CASE w # x /\ w # y
                    BY <1>2, <1>6, <5>3 DEF Owners
                <5> QED BY <5>1, <5>2, <5>3
            <4> QED BY <1>2, <4>1 DEF Owners
        <3>2. Cardinality(Owners(y))' = Cardinality(Owners(y)) + 1
            BY <2>0, <2>1, <3>1, FS_AddElement
        <3>3. InHand(y)' = InHand(y)
            BY <1>1, <1>2 DEF InHand
        <3>4. InHand(y) \in Nat
            BY DEF InHand
        <3> QED BY <1>7, <2>0, <2>1, <3>2, <3>3, <3>4 DEF CountsInv, CountsExact
    <2>2. CASE z # y
        <3>1. Owners(z)' = Owners(z)
            <4>1. ASSUME NEW w \in Objects, <<w, z>> \in holds
                  PROVE  refs'[w] > 0 <=> refs[w] > 0
                <5>1. CASE w = x
                    BY <1>5, <4>1, <5>1 DEF Fresh
                <5>2. CASE w = y
                    BY <1>2, <1>7, <5>2 DEF CountsInv, CountsType
                <5>3. CASE w # x /\ w # y
                    BY <1>6, <5>3
                <5> QED BY <5>1, <5>2, <5>3
            <4>2. \A w \in Objects : <<w, z>> \in holds' <=> <<w, z>> \in holds
                BY <1>2, <2>2
            <4> QED BY <4>1, <4>2 DEF Owners
        <3>2. CASE z = x /\ Fresh(x)
            <4>1. Cardinality(Owners(x)) = 0
                BY <3>2, FreshUnowned
            <4>2. refs'[x] = 1 /\ InHand(x)' = 1
                BY <1>2, <1>5, <3>2 DEF Fresh, InHand
            <4> QED BY <3>1, <3>2, <4>1, <4>2
        <3>3. CASE ~(z = x /\ Fresh(x))
            <4>1. refs'[z] = refs[z] /\ InHand(z)' = InHand(z)
                BY <1>2, <1>5, <1>6, <2>2, <3>3 DEF InHand
            <4> QED BY <3>1, <4>1 DEF CountsInv, CountsExact
        <3> QED BY <3>2, <3>3
    <2> QED BY <2>1, <2>2
<1> QED BY <1>3, <1>8 DEF CountsInv, CountsExact

-----------------------------------------------------------------------------
\* Giving back

\* A level that settles has no effect but on what its objects lie in.
LEMMA Settled ==
    ASSUME CountsType, NEW level \in SUBSET Objects,
           NEW counts \in [Objects -> Int]
    PROVE  /\ Settle(level, counts) \in [Objects -> Int]
           /\ \A y \in Objects : Settle(level, counts)[y] = counts[y] -
                 Cardinality({x \in level : refs[x] > 0 /\ counts[x] = 0 /\ <<x, y>> \in holds})
           /\ \A y \in Objects : (\A x \in level : <<x, y>> \notin LiesIn) =>
                 Settle(level, counts)[y] = counts[y]
<1> DEFINE died == {x \in level : refs[x] > 0 /\ counts[x] = 0}
           Lost(y) == {x \in died : <<x, y>> \in holds}
<1>1. \A y : Lost(y) = {x \in level : refs[x] > 0 /\ counts[x] = 0 /\ <<x, y>> \in holds}
    OBVIOUS
<1>2. \A y : Cardinality(Lost(y)) \in Nat
    BY Counted
<1>3. Settle(level, counts) = [y \in Objects |-> counts[y] - Cardinality(Lost(y))]
    BY DEF Settle
<1>4. ASSUME NEW y \in Objects, \A x \in level : <<x, y>> \notin LiesIn
      PROVE  Cardinality(Lost(y)) = 0
    <2>1. Lost(y) = {}
        BY <1>4 DEF CountsType
    <2> QED BY <2>1, FS_EmptySet
<1> HIDE DEF Lost, died
<1>5. Settle(level, counts) \in [Objects -> Int]
    BY <1>2, <1>3
<1>6. \A y \in Objects : Settle(level, counts)[y] = counts[y] - Cardinality(Lost(y))
    BY <1>3
<1>7. \A y \in Objects : Settle(level, counts)[y] = counts[y] -
          Cardinality({x \in level : refs[x] > 0 /\ counts[x] = 0 /\ <<x, y>> \in holds})
    BY <1>1, <1>6
<1>8. \A y \in Objects : (\A x \in level : <<x, y>> \notin LiesIn) =>
          Settle(level, counts)[y] = counts[y]
    BY <1>2, <1>4, <1>6
<1> QED BY <1>5, <1>7, <1>8

\* What dies when references are given back, of those that lie in y
Dies(y) == {x \in Objects : refs[x] > 0 /\ refs'[x] = 0 /\ <<x, y>> \in holds}

\* Each count loses the reference in hand and those of what dies.
LEMMA LetGoCounts ==
    ASSUME CountsType, NEW objects \in SUBSET held, LetGo(objects)
    PROVE  /\ refs' \in [Objects -> Int]
           /\ \A y \in Objects : refs'[y] = Less(objects)[y] - Cardinality(Dies(y))
<1> DEFINE c0 == Less(objects)
           c1 == Settle({Again}, c0)
           c2 == Settle(Buffers, c1)
           c3 == Settle({Read}, c2)
<1>1. c0 \in [Objects -> Int]
    BY DEF Less, CountsType
<1>2. {Again} \in SUBSET Objects /\ Buffers \in SUBSET Objects /\ {Read} \in SUBSET Objects
    BY LevelsApart
<1>3. refs' = c3
    BY DEF LetGo
<1> HIDE DEF c0
<1>4. c1 \in [Objects -> Int]
    BY <1>1, <1>2, Settled
<1>5. \A y \in Objects \ Buffers : c1[y] = c0[y]
    <2>1. \A y \in Objects \ Buffers, x \in {Again} : <<x, y>> \notin LiesIn
        BY Downward, LevelsApart
    <2> QED BY <1>1, <1>2, <2>1, Settled
<1>6. \A y \in Objects : c1[y] = c0[y] -
          Cardinality({x \in {Again} : refs[x] > 0 /\ c0[x] = 0 /\ <<x, y>> \in holds})
    BY <1>1, <1>2, Settled
<1> HIDE DEF c1
<1>7. c2 \in [Objects -> Int]
    BY <1>2, <1>4, Settled
<1>8. \A y \in Objects \ {Read} : c2[y] = c1[y]
    <2>1. \A y \in Objects \ {Read}, x \in Buffers : <<x, y>> \notin LiesIn
        BY Downward, LevelsApart
    <2>2. \A y \in Objects : (\A x \in Buffers : <<x, y>> \notin LiesIn) => c2[y] = c1[y]
        BY <1>2, <1>4, Settled
    <2> HIDE DEF c2
    <2> QED BY <2>1, <2>2
<1>9. c2[Read] = c1[Read] -
          Cardinality({x \in Buffers : refs[x] > 0 /\ c1[x] = 0 /\ <<x, Read>> \in holds})
    BY <1>2, <1>4, Settled, LevelsApart
<1> HIDE DEF c2
<1>10. c3 \in [Objects -> Int]
    BY <1>2, <1>7, Settled
<1>11. \A y \in Objects \ {Body} : c3[y] = c2[y]
    <2>1. \A y \in Objects \ {Body}, x \in {Read} : <<x, y>> \notin LiesIn
        BY Downward, LevelsApart
    <2>2. \A y \in Objects : (\A x \in {Read} : <<x, y>> \notin LiesIn) => c3[y] = c2[y]
        BY <1>2, <1>7, Settled
    <2> HIDE DEF c3
    <2> QED BY <2>1, <2>2
<1>12. c3[Body] = c2[Body] -
          Cardinality({x \in {Read} : refs[x] > 0 /\ c2[x] = 0 /\ <<x, Body>> \in holds})
    BY <1>2, <1>7, Settled, LevelsApart
<1> HIDE DEF c3
<1>13. holds \subseteq LiesIn
    BY DEF CountsType
<1>14. ASSUME NEW y \in Objects PROVE refs'[y] = c0[y] - Cardinality(Dies(y))
    <2>1. CASE y = Again
        <3>1. Dies(y) = {}
            BY <1>13, <2>1, Downward, LevelsApart DEF Dies
        <3>2. Cardinality(Dies(y)) = 0
            BY <3>1, FS_EmptySet
        <3> QED BY <1>1, <1>3, <1>5, <1>8, <1>11, <2>1, <3>2, LevelsApart
    <2>2. CASE y \in Buffers
        <3>1. refs'[Again] = c0[Again]
            BY <1>3, <1>5, <1>8, <1>11, LevelsApart
        <3>2. Dies(y) = {x \in {Again} : refs[x] > 0 /\ c0[x] = 0 /\ <<x, y>> \in holds}
            BY <1>13, <2>2, <3>1, Downward, LevelsApart DEF Dies
        <3> QED BY <1>3, <1>6, <1>8, <1>11, <2>2, <3>2, LevelsApart
    <2>3. CASE y = Read
        <3>1. \A x \in Buffers : refs'[x] = c1[x]
            BY <1>3, <1>8, <1>11, LevelsApart
        <3>2. Dies(y) = {x \in Buffers : refs[x] > 0 /\ c1[x] = 0 /\ <<x, Read>> \in holds}
            BY <1>13, <2>3, <3>1, Downward, LevelsApart DEF Dies
        <3> QED BY <1>3, <1>5, <1>9, <1>11, <2>3, <3>2, LevelsApart
    <2>4. CASE y = Body
        <3>1. refs'[Read] = c2[Read]
            BY <1>3, <1>11, LevelsApart
        <3>2. Dies(y) = {x \in {Read} : refs[x] > 0 /\ c2[x] = 0 /\ <<x, Body>> \in holds}
            BY <1>13, <2>4, <3>1, Downward, LevelsApart DEF Dies
        <3> QED BY <1>3, <1>5, <1>8, <1>12, <2>4, <3>2, LevelsApart
    <2> QED BY <2>1, <2>2, <2>3, <2>4 DEF Objects
<1> QED BY <1>3, <1>10, <1>14 DEF c0

LEMMA LetGoKeeps ==
    ASSUME CountsInv, NEW objects \in SUBSET held, LetGo(objects)
    PROVE  CountsInv' /\ \A y \in Objects : refs'[y] <= refs[y]
<1> USE DEF CountsInv
<1>1. /\ LetGo(objects) /\ held' = held \ objects
      /\ UNCHANGED holds
    BY DEF LetGo
<1>2. /\ refs' \in [Objects -> Int]
      /\ \A y \in Objects : refs'[y] = Less(objects)[y] - Cardinality(Dies(y))
    BY <1>1, LetGoCounts
<1>3. ASSUME NEW y \in Objects
      PROVE  /\ Dies(y) \in SUBSET Owners(y)
             /\ IsFiniteSet(Owners(y)) /\ Cardinality(Owners(y)) \in Nat
             /\ Cardinality(Dies(y)) \in Nat /\ Cardinality(Dies(y)) <= Cardinality(Owners(y))
             /\ Cardinality(Owners(y) \ Dies(y)) = Cardinality(Owners(y)) - Cardinality(Dies(y))
    <2>1. Dies(y) \in SUBSET Owners(y)
        BY DEF Dies, Owners
    <2>2. IsFiniteSet(Owners(y)) /\ Cardinality(Owners(y)) \in Nat /\ Cardinality(Dies(y)) \in Nat
        BY Counted DEF Dies, Owners
    <2>3. Cardinality(Dies(y)) <= Cardinality(Owners(y))
        BY <2>1, <2>2, FS_Subset
    <2>4. Owners(y) \cap Dies(y) = Dies(y)
        BY <2>1
    <2>5. Cardinality(Owners(y) \ Dies(y)) = Cardinality(Owners(y)) - Cardinality(Dies(y))
        BY <2>2, <2>4, FS_Difference
    <2> QED BY <2>1, <2>2, <2>3, <2>5
<1>4. ASSUME NEW y \in Objects
      PROVE  /\ refs'[y] = Cardinality(Owners(y) \ Dies(y)) + InHand(y)'
             /\ refs'[y] \in Nat /\ refs'[y] <= refs[y]
    <2> DEFINE given == IF y \in objects THEN 1 ELSE 0
    <2>1. refs[y] = Cardinality(Owners(y)) + InHand(y)
        BY DEF CountsExact
    <2>2. Less(objects)[y] = refs[y] - given
        BY DEF Less
    <2>3. InHand(y) \in Nat /\ given \in Nat /\ InHand(y)' = InHand(y) - given /\ given <= InHand(y)
        BY <1>1 DEF InHand
    <2>4. refs'[y] = Less(objects)[y] - Cardinality(Dies(y))
        BY <1>2
    <2>5. \A o, d, h, g \in Nat : d <= o /\ g <= h =>
              /\ ((o + h) - g) - d = (o - d) + (h - g)
              /\ (o - d) + (h - g) \in Nat /\ (o - d) + (h - g) <= o + h
        OBVIOUS
    <2> HIDE DEF given
    <2>6. refs'[y] = (refs[y] - given) - Cardinality(Dies(y))
        BY <2>2, <2>4
    <2>7. refs'[y] = ((Cardinality(Owners(y)) + InHand(y)) - given) - Cardinality(Dies(y))
        BY <2>1, <2>6
    <2>8. LET o == Cardinality(Owners(y))
              d == Cardinality(Dies(y))
              h == InHand(y)
          IN  /\ ((o + h) - given) - d = (o - d) + (h - given)
              /\ (o - d) + (h - given) \in Nat /\ (o - d) + (h - given) <= o + h
        BY <1>3, <2>3, <2>5
    <2>9. refs'[y] = (Cardinality(Owners(y)) - Cardinality(Dies(y))) + (InHand(y) - given)
        BY <2>7, <2>8
    <2>10. refs'[y] \in Nat /\ refs'[y] <= refs[y]
        BY <2>1, <2>8, <2>9
    <2> QED BY <1>3, <2>3, <2>9, <2>10
<1>5. CountsType'
    BY <1>1, <1>2, <1>4 DEF CountsType
<1>6. ASSUME NEW y \in Objects PROVE Owners(y)' = Owners(y) \ Dies(y)
    <2>1. ASSUME NEW x \in Objects PROVE refs'[x] > 0 <=> refs[x] > 0 /\ refs'[x] # 0
        <3>1. refs[x] \in Nat
            BY DEF CountsType
        <3>2. refs'[x] \in Nat /\ refs'[x] <= refs[x]
            BY <1>4
        <3> QED BY <3>1, <3>2
    <2> QED BY <1>1, <2>1 DEF Owners, Dies
<1> QED BY <1>4, <1>5, <1>6 DEF CountsExact

-----------------------------------------------------------------------------
\* What exact counts mean

\* An owner that is alive is counted.
LEMMA OwnerCounts ==
    ASSUME CountsInv, NEW x \in Objects, NEW y \in Owners(x)
    PROVE  refs[x] > 0
<1>1. IsFiniteSet(Owners(x)) /\ Cardinality(Owners(x)) \in Nat
    BY Counted DEF Owners
<1>2. Cardinality(Owners(x)) # 0
    BY <1>1, FS_EmptySet
<1>3. refs[x] = Cardinality(Owners(x)) + InHand(x)
    BY DEF CountsInv, CountsExact
<1> QED BY <1>1, <1>2, <1>3 DEF InHand

LEMMA HeldAlive ==
    ASSUME CountsInv, NEW x \in held
    PROVE  x \in Objects /\ refs[x] > 0
<1>1. x \in Objects
    BY DEF CountsInv, CountsType
<1>2. Cardinality(Owners(x)) \in Nat
    BY <1>1, Counted DEF Owners
<1> QED BY <1>1, <1>2 DEF CountsInv, CountsExact, InHand

\* What nothing holds and nothing owns goes, from the top level down.
LEMMA AllReclaimed == CountsInv => Reclaimed
<1> SUFFICES ASSUME CountsInv, held = {} PROVE \A x \in Objects : refs[x] = 0
    BY DEF Reclaimed
<1>1. ASSUME NEW x \in Objects, \A y \in Objects : <<y, x>> \in LiesIn => refs[y] = 0
      PROVE  refs[x] = 0
    <2>1. Owners(x) = {}
        BY <1>1 DEF Owners, CountsInv, CountsType
    <2>2. Cardinality(Owners(x)) = 0
        BY <2>1, FS_EmptySet
    <2> QED BY <2>2 DEF CountsInv, CountsExact, InHand
<1>2. refs[Again] = 0
    BY <1>1, Downward, LevelsApart
<1>3. \A x \in Buffers : refs[x] = 0
    BY <1>1, <1>2, Downward, LevelsApart
<1>4. refs[Read] = 0
    BY <1>1, <1>3, Downward, LevelsApart
<1>5. refs[Body] = 0
    BY <1>1, <1>4, Downward, LevelsApart
<1> QED BY <1>2, <1>3, <1>4, <1>5 DEF Objects

=============================================================================
