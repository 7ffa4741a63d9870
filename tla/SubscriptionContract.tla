------------------------- MODULE SubscriptionContract -------------------------
(***************************************************************************)
(* What a Pub/Sub subscription promises its consumer, with no word of the  *)
(* streams it takes: events come one at a time, each right behind the one  *)
(* before; an event is behind the replay position only after the consumer  *)
(* had it; the position goes back only when the server says that it is     *)
(* corrupted; and a subscription that gave up delivers nothing more, and   *)
(* says so once.  After stop() what has arrived may still come, with gaps. *)
(***************************************************************************)
EXTENDS Integers

CONSTANTS
    MaxEvents,     \* bound: events published on the topic
    Preset,        \* replay_preset: "latest" or "earliest"
    Corruptible    \* may the server call the replay position corrupted?

VARIABLES
    published,     \* events on the topic so far
    base,          \* where the server began when given no position
    position,      \* the replay position, 0 for none
    given,         \* the event the consumer was given and the position is yet to pass
    stopping,      \* stop() was called
    finished,      \* the subscription gave up
    told           \* on_failure was called

vars == <<published, base, position, given, stopping, finished, told>>

Beginning == IF Preset = "latest" THEN published ELSE 0
Here == IF position # 0 THEN position ELSE base

Init ==
    /\ published \in 0..MaxEvents /\ base = Beginning
    /\ position = 0 /\ given = {}
    /\ stopping = FALSE /\ finished = FALSE /\ told = FALSE

Publish ==
    /\ published < MaxEvents
    /\ published' = published + 1
    /\ UNCHANGED <<base, position, given, stopping, finished, told>>

\* The server is asked without a position.
Begin ==
    /\ position = 0 /\ given = {} /\ ~finished
    /\ base' = Beginning
    /\ UNCHANGED <<published, position, given, stopping, finished, told>>

Give(e) ==
    /\ given = {} /\ ~finished
    /\ Here < e /\ e <= published
    /\ stopping \/ e = Here + 1
    /\ given' = {e}
    /\ UNCHANGED <<published, base, position, stopping, finished, told>>

Pass(e) ==
    /\ given = {e}
    /\ position' = e /\ given' = {}
    /\ UNCHANGED <<published, base, stopping, finished, told>>

\* The server names the position, with no event.
Adopt(n) ==
    /\ given = {} /\ ~finished
    /\ n # 0 /\ Here <= n /\ n <= published
    /\ stopping \/ n = Here
    /\ position' = n
    /\ UNCHANGED <<published, base, given, stopping, finished, told>>

\* The subscription loses its stream for another try, or gives up; with the position,
\* if that is what was wrong.
Lose ==
    /\ given = {} /\ ~finished
    /\ \/ UNCHANGED position
       \/ Corruptible /\ ~stopping /\ position' = 0
    /\ finished' \in BOOLEAN
    /\ UNCHANGED <<published, base, given, stopping, told>>

Tell ==
    /\ finished /\ ~told
    /\ told' = TRUE
    /\ UNCHANGED <<published, base, position, given, stopping, finished>>

Stop ==
    /\ ~stopping
    /\ stopping' = TRUE
    /\ UNCHANGED <<published, base, position, given, finished, told>>

Next ==
    \/ Publish \/ Begin
    \/ \E e \in 1..MaxEvents : Give(e) \/ Pass(e) \/ Adopt(e)
    \/ Lose \/ Tell \/ Stop

Spec == Init /\ [][Next]_vars

=============================================================================
