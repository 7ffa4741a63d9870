----------------------------- MODULE CallContract -----------------------------
(***************************************************************************)
(* What a client stream promises the application that opened it: messages  *)
(* arrive in the order sent and stop at the end of the call; the call ends *)
(* exactly once; a cancel requested before the end is the end; the         *)
(* server's own status is reported only after everything it sent has been  *)
(* delivered; and a cancelled call does end.                               *)
(***************************************************************************)
EXTENDS Integers

CONSTANT Verdicts   \* the ways a call can end, "CANCELLED" and "OK" among them, "none" not

VARIABLES
    sent,        \* messages the server has sent
    closed,      \* the server has ended its side
    delivered,   \* messages the application has received
    cancelled,   \* the application asked for a cancel
    verdict      \* how the call ended, "none" before

vars == <<sent, closed, delivered, cancelled, verdict>>

Init ==
    /\ sent = 0 /\ closed = FALSE
    /\ delivered = 0
    /\ cancelled = FALSE /\ verdict = "none"

ServerSends ==
    /\ ~closed
    /\ \E k \in 1..2 : sent' = sent + k
    /\ UNCHANGED <<closed, delivered, cancelled, verdict>>

ServerEnds ==
    /\ ~closed /\ closed' = TRUE
    /\ UNCHANGED <<sent, delivered, cancelled, verdict>>

Deliver ==
    /\ verdict = "none" /\ delivered < sent
    /\ delivered' = delivered + 1
    /\ UNCHANGED <<sent, closed, cancelled, verdict>>

Cancel ==
    /\ verdict = "none" /\ ~cancelled
    /\ cancelled' = TRUE
    /\ UNCHANGED <<sent, closed, delivered, verdict>>

End(v) ==
    /\ verdict = "none" /\ verdict' = v
    /\ cancelled => v = "CANCELLED"
    /\ v = "OK" => closed /\ delivered = sent
    /\ UNCHANGED <<sent, closed, delivered, cancelled>>

Next ==
    \/ ServerSends \/ ServerEnds
    \/ Deliver \/ Cancel
    \/ \E v \in Verdicts : End(v)

CancelEnds == cancelled ~> verdict # "none"

Safety == Init /\ [][Next]_vars
Spec == Safety /\ CancelEnds

=============================================================================
