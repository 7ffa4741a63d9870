------------------------- MODULE MCPubSubSubscription -------------------------
(* Instances of PubSubSubscription for TLC; the configurations give the values. *)
EXTENDS PubSubSubscription, TLC, SequencesExt

\* Streams, reconnect threads and delays are identities, used in any order.
Identities == Permutations(Streams) \cup Permutations(Openers) \cup Permutations(Delays)

\* The same by hand for streams, where liveness rules a SYMMETRY out: each is opened once,
\* and those that are opened come first in some fixed order of the identities.
InOrder ==
    LET order == SetToSeq(Streams) IN
    \A i, j \in DOMAIN order :
        i < j /\ life[order[j]] # "unused" => life[order[i]] # "unused"

\* The subscription as its options default to; and one that neither reconnects nor
\* replenishes by itself, on a stream that may end before its first request.
Default == [reconnect |-> TRUE, autoReplenish |-> TRUE, earlyEnd |-> FALSE, replenishes |-> 0]
Manual == [reconnect |-> FALSE, autoReplenish |-> FALSE, earlyEnd |-> TRUE, replenishes |-> 1]

DefaultMode == {Default}
BothModes == {Default, Manual}
AbruptMode == {[Default EXCEPT !.earlyEnd = TRUE]}

=============================================================================
