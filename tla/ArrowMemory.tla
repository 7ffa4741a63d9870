----------------------------- MODULE ArrowMemory -----------------------------
(***************************************************************************)
(* The memory of the Arrow binding as a system of its own: an object is    *)
(* made once, of what is alive, and references in hand are given back in   *)
(* any order.                                                              *)
(***************************************************************************)
EXTENDS ArrowReferences

VARIABLE reads   \* <<x, y>>: the data of x lies in the memory of y

vars == <<refs, holds, held, reads>>

MakeObject(x) == Fresh(x) /\ Make(x) /\ UNCHANGED reads

ShareMemory(x, y) ==
    /\ Fresh(x) \/ x \in held
    /\ refs[y] > 0
    /\ <<x, y>> \notin holds
    /\ Share(x, y)
    /\ reads' = reads \cup {<<x, y>>}

GiveBack(objects) == LetGo(objects) /\ UNCHANGED reads

Init ==
    /\ held \subseteq Buffers
    /\ refs = [x \in Objects |-> IF x \in held THEN 1 ELSE 0]
    /\ holds = {} /\ reads = {}

Next ==
    \/ \E x \in Objects : MakeObject(x)
    \/ \E x, y \in Objects : <<x, y>> \in LiesIn /\ ShareMemory(x, y)
    \/ \E objects \in SUBSET held : GiveBack(objects)

Spec == Init /\ [][Next]_vars

-----------------------------------------------------------------------------
\* Memory in which the data of something alive lies is alive: the body under a
\* batch, the batch under a dense buffer, the buffers under another batch
\* (arrowArrayToDenseBuffer(), makeQoreOwnedArrowBuffer()).
MemoryOutlives ==
    \A x, y \in Objects : <<x, y>> \in reads /\ refs[x] > 0 => refs[y] > 0

=============================================================================
