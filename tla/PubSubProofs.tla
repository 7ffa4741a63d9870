------------------------------ MODULE PubSubProofs ------------------------------
(***************************************************************************)
(* Theorems about PubSubSubscription, for any number of streams, reconnect *)
(* threads, delays and events and any faults: it never runs two streams,   *)
(* and has none left when it gives up.  Where the subscription reconnects, *)
(* its streams do not end before their first request, and no user grants   *)
(* credit while a stream is being opened.                                  *)
(*                                                                         *)
(* The argument is that of a token.  The right to run a stream is held by  *)
(* the start() to come, by a thread that opens, by the stream, by a thread *)
(* that handles its end, by the delay submitted, and by the thread the     *)
(* delay starts; each hands it to the next, and giving up spends it.       *)
(***************************************************************************)
EXTENDS PubSubSubscription, TLAPS

\* Where a stream is reopened, streams do not end before their first request, and no
\* user grants credit.
Orderly == \A m \in Modes : m.reconnect => ~m.earlyEnd /\ m.replenishes = 0

Launchers == Openers \cup {Starter}
Opens == {"intern", "open", "bidi"}
Alive == {"opened", "asked", "closed"}

Kinds == {"start", "open", "stream", "end", "delay"}
Holders == Threads \cup Delays

\* Thread, stream or delay i holds the token, as a k.  What a stopped subscription
\* still does at the end of a stream does not count.
Has(k, i) ==
    \/ k = "start" /\ i = Starter /\ ~started
    \/ k = "open" /\ i \in Threads /\ pc[i] \in Opens
    \/ k = "stream" /\ i \in Streams /\ life[i] \in Alive
    \/ k = "end" /\ i \in Threads /\ pc[i] = "submit"
    \/ k = "end" /\ i \in Threads /\ pc[i] \in {"terminal", "schedule"} /\ ~stopping
    \/ k = "delay" /\ i \in Delays /\ delays[i] \in {"waiting", "due"}

TokenInv ==
    /\ \A k, l \in Kinds, i, j \in Holders : Has(k, i) /\ Has(l, j) => k = l /\ i = j
    /\ finished => \A k \in Kinds, i \in Holders : ~Has(k, i)

Working == {"event", "advance", "keepalive", "flow", "arm", "replenish", "fetch", "write", "book"}
Ends == {"terminal", "schedule", "submit", "give_up"}
Launching == {"publish", "fetch", "write"}
Labels == {"idle", "wait", "cancel", "undo", "stopping"} \cup Opens \cup Launching
             \cup Working \cup Ends

\* A stream may get lost to the thread that opens it only if none will follow.
LastOne == stopping \/ ~Reconnect

\* No request was written to stream s yet, unless that no longer matters.
Unasked(s) == s \in Streams /\ life[s] # "unused" /\ (life[s] = "opened" \/ LastOne)

\* A thread that opens a stream has it to itself until its opening request, which goes
\* to this stream.
LaunchInv ==
    /\ \A o \in Launchers :
          /\ pc[o] \in {"idle", "intern", "open", "bidi", "book", "cancel", "undo"}
                          \cup Launching \cup Ends
          /\ pc[o] \in {"fetch", "write", "book"} => call[o] = "open"
          /\ pc[o] \in {"publish", "fetch"} => Unasked(own[o])
          /\ pc[o] = "write" => Unasked(ref[o])
          /\ pc[o] \in {"cancel", "undo"} => LastOne
    /\ \A o, p \in Launchers :
          pc[o] \in Launching /\ pc[p] \in Launching /\ ~LastOne => o = p

\* The worker of a stream works while it lives, and for this stream.
WorkInv ==
    \A s \in Streams :
        /\ pc[s] \in {"wait"} \cup Working \cup Ends
        /\ pc[s] \in Working => life[s] \in {"asked", "closed"}
        /\ call[s] # "open"
        /\ pc[s] \in {"write", "arm"} => ref[s] = s \/ stopping
        /\ timer[s] # "off" => life[s] \in {"asked", "closed"} \/ stopping
        /\ cancelled[s] => LastOne

UserInv ==
    /\ \/ pc[User] = "idle"
       \/ pc[User] = "stopping" /\ stopping
       \/ pc[User] \in {"replenish", "fetch", "write", "book"} /\ ~Reconnect
    /\ pc[User] \in {"fetch", "write"} => call[User] = "user"

\* The stream of a connected subscription is the one that has the token.
LinkInv ==
    connected /\ ~LastOne =>
        current \in Streams /\ (life[current] \in Alive \/ pc[current] = "terminal")

\* A subscription that does not reconnect has one stream.
SoloInv ==
    ~Reconnect =>
        /\ \A o \in Openers : pc[o] = "idle"
        /\ \A t \in Threads : pc[t] \notin {"schedule", "submit"}
        /\ \A d \in Delays : delays[d] = "unused"
        /\ \A s, q \in Streams : life[s] # "unused" /\ life[q] # "unused" => s = q
        /\ ~started \/ pc[Starter] \in Opens => \A s \in Streams : life[s] = "unused"
        /\ connected => current \in Streams /\ life[current] # "unused"

ShapeInv ==
    /\ mode \in Modes
    /\ {started, stopping, finished, connected} \subseteq BOOLEAN
    /\ replenishes \in Nat
    /\ pc \in [Threads -> Labels]
    /\ call \in [Threads -> {"none", "open", "top_up", "backstop", "user"}]
    /\ ref \in [Threads -> Streams \cup Delays \cup {None}]
    /\ own \in [Threads -> Streams \cup {None}]
    /\ current \in Streams \cup {None}
    /\ life \in [Streams -> {"unused", "opened", "asked", "closed", "ended"}]
    /\ cancelled \in [Streams -> BOOLEAN]
    /\ timer \in [Streams -> {"off", "armed", "due"}]
    /\ delays \in [Delays -> {"unused", "new", "waiting", "cancelled", "due", "aborted"}]

RolesInv == LaunchInv /\ WorkInv /\ UserInv /\ LinkInv /\ SoloInv
HoldInv == ShapeInv /\ RolesInv /\ TokenInv

LEMMA Apart ==
    /\ \A s \in Streams : s \in Threads /\ s \notin Launchers /\ s # User
    /\ \A o \in Launchers : o \in Threads /\ o \notin Streams /\ o # User
    /\ User \in Threads /\ Starter \in Launchers
    /\ \A t \in Threads : t \in Streams \/ t \in Launchers \/ t = User
    /\ None \notin Streams /\ \A d \in Delays : d \in Holders
    /\ \A t \in Threads : t \in Holders
  BY IdentitiesAssumption DEF Threads, Launchers, Holders, Starter, User, None

\* Only start() holds the token at first.
LEMMA InitHold == Init => HoldInv
<1> SUFFICES ASSUME Init PROVE HoldInv
  OBVIOUS
<1>1. /\ \A t \in Threads : pc[t] = IF t \in Streams THEN "wait" ELSE "idle"
      /\ \A s \in Streams : life[s] = "unused" /\ timer[s] = "off" /\ ~cancelled[s]
      /\ \A d \in Delays : delays[d] = "unused"
      /\ \A t \in Threads : call[t] = "none" /\ ref[t] = None
      /\ ~started /\ ~stopping /\ ~finished /\ ~connected
  BY DEF Init, Home
<1>2. ShapeInv
  <2>1. pc \in [Threads -> Labels]
    BY DEF Init, Home, Labels
  <2>2. /\ call \in [Threads -> {"none", "open", "top_up", "backstop", "user"}]
        /\ ref \in [Threads -> Streams \cup Delays \cup {None}]
        /\ own \in [Threads -> Streams \cup {None}]
    BY DEF Init
  <2>3. /\ life \in [Streams -> {"unused", "opened", "asked", "closed", "ended"}]
        /\ cancelled \in [Streams -> BOOLEAN]
        /\ timer \in [Streams -> {"off", "armed", "due"}]
        /\ delays \in [Delays -> {"unused", "new", "waiting", "cancelled", "due", "aborted"}]
    BY DEF Init
  <2> QED BY <1>1, <2>1, <2>2, <2>3 DEF Init, ShapeInv
<1>3. LaunchInv /\ WorkInv /\ UserInv /\ LinkInv
  BY <1>1, Apart DEF LaunchInv, Unasked, WorkInv, UserInv, LinkInv, Launching, Working, Ends
<1>6. SoloInv
  BY <1>1, Apart DEF SoloInv, Launchers
<1>4. \A k, i : Has(k, i) => k = "start" /\ i = Starter
  BY <1>1 DEF Has, Opens, Alive
<1>5. TokenInv
  BY <1>1, <1>4 DEF TokenInv
<1> QED BY <1>2, <1>3, <1>5, <1>6 DEF HoldInv, RolesInv

-----------------------------------------------------------------------------
\* The ways of the token

\* It stays where it is, or is lost.
LEMMA TokenStays ==
    ASSUME TokenInv, \A k \in Kinds, i \in Holders : Has(k, i)' => Has(k, i), finished' => finished
    PROVE  TokenInv'
  BY DEF TokenInv

\* It goes from one holder to another.
LEMMA TokenPasses ==
    ASSUME TokenInv, NEW a \in Kinds, NEW x \in Holders, Has(a, x),
           NEW b, NEW y, finished' => finished,
           \A k \in Kinds, i \in Holders : Has(k, i)' =>
               (k = b /\ i = y) \/ (Has(k, i) /\ ~(k = a /\ i = x))
    PROVE  TokenInv'
  BY DEF TokenInv

\* It is spent.
LEMMA TokenSpent ==
    ASSUME TokenInv, NEW a \in Kinds, NEW x \in Holders, Has(a, x),
           \A k \in Kinds, i \in Holders : Has(k, i)' => Has(k, i) /\ ~(k = a /\ i = x)
    PROVE  TokenInv'
  BY DEF TokenInv

-----------------------------------------------------------------------------
\* What threads do in general

\* The worker of a stream that handles a response moves on.
LEMMA StreamMoves ==
    ASSUME HoldInv, NEW s \in Streams, NEW l \in {"wait"} \cup Working,
           UNCHANGED <<mode, started, stopping, finished, connected, current, life, cancelled, delays>>,
           \A t \in Threads : pc'[t] = IF t = s THEN l ELSE pc[t],
           \A t \in Threads \ {s} : call'[t] = call[t] /\ ref'[t] = ref[t] /\ own'[t] = own[t],
           \A x \in Streams : timer'[x] # "off" =>
               timer[x] # "off" \/ life[x] \in {"asked", "closed"} \/ stopping,
           call'[s] # "open",
           pc[s] \in {"wait", "give_up"} \cup Working,
           l \in Working => life[s] \in {"asked", "closed"},
           l \in {"write", "arm"} => ref'[s] = s \/ stopping
    PROVE  RolesInv' /\ TokenInv'
<1>1. LaunchInv'
  BY Apart DEF HoldInv, RolesInv, LaunchInv, Unasked, LastOne, Reconnect
<1>2. WorkInv'
  BY Apart DEF HoldInv, RolesInv, WorkInv, LastOne, Reconnect
<1>3. UserInv' /\ LinkInv' /\ SoloInv'
  BY Apart DEF HoldInv, RolesInv, UserInv, LinkInv, SoloInv, Working, Launchers, LastOne, Reconnect
<1>4. \A k \in Kinds, i \in Holders : Has(k, i)' => Has(k, i)
  BY Apart DEF Has, Opens, Working
<1> QED BY <1>1, <1>2, <1>3, <1>4, TokenStays DEF HoldInv, RolesInv

\* The stream ends, and its worker goes on to handle that.
LEMMA StreamEnds ==
    ASSUME HoldInv, NEW s \in Streams, Collapse(s), life[s] \in Alive,
           life[s] = "opened" => LastOne,
           UNCHANGED <<mode, started, stopping, finished, connected, current, delays>>
    PROVE  RolesInv' /\ TokenInv'
<1>1. /\ \A t \in Threads : pc'[t] = IF t = s THEN "terminal" ELSE pc[t]
      /\ \A x \in Streams : /\ life'[x] = IF x = s THEN "ended" ELSE life[x]
                            /\ timer'[x] = IF x = s THEN "off" ELSE timer[x]
      /\ UNCHANGED <<call, ref, own, cancelled>>
  BY Apart DEF Collapse, Goto, HoldInv, ShapeInv
<1>2. LaunchInv'
  BY <1>1, Apart DEF HoldInv, RolesInv, LaunchInv, Unasked, LastOne, Reconnect
<1>3. WorkInv'
  BY <1>1, Apart DEF HoldInv, RolesInv, WorkInv, Working, Ends, LastOne, Reconnect
<1>4. UserInv' /\ LinkInv' /\ SoloInv'
  BY <1>1, Apart DEF HoldInv, RolesInv, UserInv, LinkInv, SoloInv, Launchers, Alive, LastOne, Reconnect
<1>5. Has("stream", s)
  BY DEF Has, Opens
<1>6. \A k \in Kinds, i \in Holders :
         Has(k, i)' => (k = "end" /\ i = s) \/ (Has(k, i) /\ ~(k = "stream" /\ i = s))
  BY <1>1, Apart DEF Has, Opens, Alive
<1>7. TokenInv'
  BY <1>5, <1>6, Apart, TokenPasses DEF HoldInv, Kinds
<1> QED BY <1>2, <1>3, <1>4, <1>7 DEF RolesInv

\* A thread that opens moves on, and neither takes nor hands on the token.
LEMMA LauncherMoves ==
    ASSUME HoldInv, NEW o \in Launchers, pc[o] # "idle",
           NEW l \in {"idle", "open", "bidi", "book", "cancel", "undo", "fetch", "write",
                      "terminal"},
           UNCHANGED <<mode, started, stopping, finished, life, delays>>,
           \A s \in Streams : cancelled'[s] => cancelled[s] \/ LastOne,
           \A s \in Streams : timer'[s] # "off" => timer[s] # "off",
           \A t \in Threads : pc'[t] = IF t = o THEN l ELSE pc[t],
           \A t \in Threads \ {o} : call'[t] = call[t] /\ ref'[t] = ref[t] /\ own'[t] = own[t],
           l \in {"fetch", "write", "book"} => call'[o] = "open",
           l = "fetch" => pc[o] = "publish" /\ own'[o] = own[o],
           l = "write" => pc[o] = "fetch" /\ Unasked(ref'[o]),
           l \in {"cancel", "undo"} => LastOne, l = "terminal" => stopping,
           l \in Opens => pc[o] \in Opens,
           LinkInv',
           connected' => \/ connected /\ current' = current
                         \/ current' \in Streams /\ life[current'] # "unused"
    PROVE  RolesInv' /\ TokenInv'
<1>1. LaunchInv'
  BY Apart DEF HoldInv, RolesInv, LaunchInv, Unasked, Launching, Ends, LastOne, Reconnect
<1>2. WorkInv'
  BY Apart DEF HoldInv, RolesInv, WorkInv, LastOne, Reconnect
<1>3. UserInv' /\ SoloInv'
  BY Apart DEF HoldInv, RolesInv, UserInv, SoloInv, Launchers, LastOne, Reconnect
<1>4. \A k \in Kinds, i \in Holders : Has(k, i)' => Has(k, i)
  BY Apart DEF Has, Opens
<1> QED BY <1>1, <1>2, <1>3, <1>4, TokenStays DEF HoldInv, RolesInv

\* What the subscription is connected to lasts while no stream changes.
LEMMA LinkStays ==
    ASSUME HoldInv, UNCHANGED <<mode, stopping, connected, current, life>>,
           \A s \in Streams : pc[s] = "terminal" => pc'[s] = "terminal"
    PROVE  LinkInv'
  BY DEF HoldInv, RolesInv, LinkInv, LastOne, Reconnect

\* While it works, the worker's stream is the current one.
LEMMA WorksForCurrent ==
    ASSUME HoldInv, NEW s \in Streams, pc[s] \in Working, connected, ~stopping
    PROVE  current = s
<1>1. life[s] \in Alive
  BY DEF HoldInv, RolesInv, WorkInv, Alive, LastOne, Reconnect
<1>2. CASE Reconnect
  <2>1. current \in Streams
    BY <1>2 DEF HoldInv, RolesInv, LinkInv, LastOne, Reconnect
  <2>2. Has("stream", s)
    BY <1>1 DEF Has, Opens
  <2>3. Has("stream", current) \/ Has("end", current)
    BY <1>2, <2>1, Apart DEF HoldInv, RolesInv, LinkInv, Has, Opens, LastOne, Reconnect
  <2> QED BY <2>1, <2>2, <2>3, Apart DEF HoldInv, TokenInv, Kinds
<1>3. CASE ~Reconnect
  BY <1>1, <1>3 DEF HoldInv, RolesInv, SoloInv, Alive, LastOne, Reconnect
<1> QED BY <1>2, <1>3

\* The stream that is current at the opening request is one that had no request, as is
\* the one the thread opened.
LEMMA OpensCurrent ==
    ASSUME HoldInv, NEW o \in Launchers, pc[o] = "fetch", connected, ~stopping
    PROVE  Unasked(current)
<1>1. Unasked(own[o])
  BY DEF HoldInv, RolesInv, LaunchInv
<1>2. CASE Reconnect
  <2>1. current \in Streams /\ own[o] \in Streams /\ life[own[o]] = "opened"
    BY <1>1, <1>2 DEF HoldInv, RolesInv, LinkInv, Unasked, LastOne
  <2>2. Has("stream", own[o])
    BY <2>1 DEF Has, Alive
  <2>3. Has("stream", current) \/ Has("end", current)
    BY <1>2, <2>1, Apart DEF HoldInv, RolesInv, LinkInv, Has, LastOne
  <2>4. current = own[o]
    BY <2>1, <2>2, <2>3, Apart DEF HoldInv, TokenInv, Kinds
  <2> QED BY <1>1, <2>4
<1>3. CASE ~Reconnect
  BY <1>3 DEF HoldInv, RolesInv, SoloInv, Unasked, LastOne
<1> QED BY <1>2, <1>3

\* The thread that handles the end of a stream moves on.
LEMMA EndMoves ==
    ASSUME HoldInv, NEW t \in Threads, NEW l \in {Home(t)} \cup Ends, pc[t] \in Ends,
           UNCHANGED <<mode, started, stopping, life, cancelled, timer>>,
           \A x \in Threads : pc'[x] = IF x = t THEN l ELSE pc[x],
           \A x \in Threads \ {t} : call'[x] = call[x] /\ ref'[x] = ref[x] /\ own'[x] = own[x],
           call'[t] # "open" \/ t \in Launchers,
           LinkInv', l \in {"schedule", "submit"} => Reconnect,
           Reconnect \/ UNCHANGED delays, connected' => connected /\ current' = current
    PROVE  RolesInv'
<1>1. LaunchInv'
  BY Apart DEF HoldInv, RolesInv, LaunchInv, Unasked, Launching, Ends, Home, LastOne, Reconnect
<1>2. WorkInv'
  BY Apart DEF HoldInv, RolesInv, WorkInv, Working, Ends, Home, LastOne, Reconnect
<1>3. UserInv' /\ SoloInv'
  BY Apart DEF HoldInv, RolesInv, UserInv, SoloInv, Launchers, Ends, Home, Opens, LastOne, Reconnect
<1> QED BY <1>1, <1>2, <1>3 DEF RolesInv

\* What Goto, Request and Return do to the locals of the threads.
LEMMA Going ==
    ASSUME ShapeInv, NEW t \in Threads, NEW l, Goto(t, l)
    PROVE  /\ \A x \in Threads : pc'[x] = IF x = t THEN l ELSE pc[x]
           /\ UNCHANGED <<call, ref, own>>
  BY DEF Goto, ShapeInv

LEMMA Requesting ==
    ASSUME ShapeInv, NEW t \in Threads, NEW n, NEW why, Request(t, n, why)
    PROVE  /\ \A x \in Threads : /\ pc'[x] = IF x = t THEN "fetch" ELSE pc[x]
                                 /\ call'[x] = IF x = t THEN why ELSE call[x]
           /\ UNCHANGED <<ref, own>>
  BY DEF Request, ShapeInv

LEMMA Returning ==
    ASSUME ShapeInv, NEW t \in Threads, Return(t)
    PROVE  \A x \in Threads : /\ pc'[x] = IF x = t THEN Home(t) ELSE pc[x]
                              /\ call'[x] = IF x = t THEN "none" ELSE call[x]
                              /\ ref'[x] = IF x = t THEN None ELSE ref[x]
                              /\ own'[x] = IF x = t THEN None ELSE own[x]
  BY DEF Return, ShapeInv

\* Who is where.
LEMMA Whereabouts ==
    ASSUME HoldInv, NEW t \in Threads
    PROVE  /\ t \in Launchers => t \notin Streams /\ Home(t) = "idle"
           /\ t \in Streams => t \notin Launchers /\ Home(t) = "wait"
           /\ t \in Launchers \/ t \in Streams \/ t = User
           /\ t = User => t \notin Launchers /\ t \notin Streams /\ Home(t) = "idle"
           /\ pc[t] \in {"event", "advance", "keepalive", "flow", "arm", "wait"} => t \in Streams
           /\ pc[t] = "replenish" => t \in Streams \/ t = User
           /\ pc[t] \in Ends => t \in Launchers \cup Streams
           /\ pc[t] \in {"publish", "cancel", "undo"} \cup Opens => t \in Launchers
  BY Apart DEF HoldInv, RolesInv, LaunchInv, Unasked, WorkInv, UserInv, Launching, Working, Ends, Opens, Home, LastOne, Reconnect

\* The user sends a request on.
LEMMA UserMoves ==
    ASSUME HoldInv, NEW l \in {"idle", "fetch", "write", "book"},
           UNCHANGED <<mode, started, stopping, finished, connected, current, life, cancelled, delays>>,
           \A s \in Streams : timer'[s] # "off" => timer[s] # "off",
           \A t \in Threads : pc'[t] = IF t = User THEN l ELSE pc[t],
           \A t \in Threads \ {User} : call'[t] = call[t] /\ ref'[t] = ref[t] /\ own'[t] = own[t],
           l # "idle" => ~Reconnect, l \in {"fetch", "write"} => call'[User] = "user"
    PROVE  RolesInv' /\ TokenInv'
<1>1. LaunchInv'
  BY Apart DEF HoldInv, RolesInv, LaunchInv, Unasked, LastOne, Reconnect
<1>2. WorkInv'
  BY Apart DEF HoldInv, RolesInv, WorkInv, LastOne, Reconnect
<1>3. UserInv' /\ LinkInv'
  BY Apart DEF HoldInv, RolesInv, UserInv, LinkInv, LastOne, Reconnect
<1>4. SoloInv'
  BY Apart DEF HoldInv, RolesInv, SoloInv, Launchers, LastOne, Reconnect
<1>5. \A k \in Kinds, i \in Holders : Has(k, i)' => Has(k, i)
  BY Apart DEF Has, Opens
<1> QED BY <1>1, <1>2, <1>3, <1>4, <1>5, TokenStays DEF HoldInv, RolesInv

-----------------------------------------------------------------------------
\* Opening a stream

LEMMA StartHolds == ASSUME HoldInv, Start PROVE RolesInv' /\ TokenInv'
<1>1. /\ \A x \in Threads : pc'[x] = IF x = Starter THEN "open" ELSE pc[x]
      /\ UNCHANGED <<call, ref, own>>
  BY Going, Apart DEF Start, HoldInv
<1>2. UNCHANGED <<mode, stopping, finished, connected, current, life, cancelled, timer, delays>>
  BY DEF Start, link, retry, server, wire, history
<1>3. LinkInv'
  BY <1>1, <1>2, LinkStays, Apart
<1>4. LaunchInv'
  BY <1>1, <1>2, Apart DEF HoldInv, RolesInv, LaunchInv, Unasked, Launching, LastOne, Reconnect
<1>5. WorkInv' /\ UserInv'
  BY <1>1, <1>2, Apart DEF HoldInv, RolesInv, WorkInv, UserInv, LastOne, Reconnect
<1>9. SoloInv'
  <2>1. \A o \in Openers : o \in Threads /\ o # Starter
    BY IdentitiesAssumption DEF Threads
  <2>2. Starter \in Threads
    BY DEF Threads
  <2> QED BY <1>1, <1>2, <2>1, <2>2 DEF HoldInv, RolesInv, SoloInv, Start, Reconnect
<1>6. Has("start", Starter)
  BY DEF Has, Start
<1>7. \A k \in Kinds, i \in Holders :
         Has(k, i)' => (k = "open" /\ i = Starter) \/ (Has(k, i) /\ ~(k = "start" /\ i = Starter))
  BY <1>1, <1>2, Apart DEF Has, Opens, Start
<1>8. TokenInv'
  BY <1>2, <1>6, <1>7, Apart, TokenPasses DEF HoldInv, Kinds
<1> QED BY <1>3, <1>4, <1>5, <1>8, <1>9 DEF RolesInv

LEMMA ReconnectInternHolds ==
    ASSUME HoldInv, NEW o \in Threads, ReconnectIntern(o) PROVE RolesInv' /\ TokenInv'
<1>1. o \in Launchers /\ Home(o) = "idle" /\ pc[o] \in Opens
  BY Apart, Whereabouts DEF ReconnectIntern, Launchers, Opens
<1>2. UNCHANGED <<mode, started, stopping, finished, connected, current, life, cancelled, timer, delays>>
  BY DEF ReconnectIntern, history, flags, link, retry, server, wire
<1>3. PICK l \in {"idle", "open"} :
        /\ \A x \in Threads : pc'[x] = IF x = o THEN l ELSE pc[x]
        /\ \A x \in Threads \ {o} : call'[x] = call[x] /\ ref'[x] = ref[x] /\ own'[x] = own[x]
  BY <1>1, Going, Returning DEF ReconnectIntern, HoldInv
<1>4. LinkInv'
  BY <1>1, <1>2, <1>3, LinkStays, Apart
<1> QED BY <1>1, <1>2, <1>3, <1>4, LauncherMoves DEF Launching, Opens

LEMMA OpenStreamHolds ==
    ASSUME HoldInv, NEW o \in Threads, OpenStream(o) PROVE RolesInv' /\ TokenInv'
<1>1. o \in Launchers /\ Home(o) = "idle" /\ pc[o] \in Opens
  BY Whereabouts DEF OpenStream, Opens
<1>2. UNCHANGED <<mode, started, stopping, finished, connected, current, life, cancelled, timer, delays>>
  BY DEF OpenStream, history, flags, link, retry, server, wire
<1>3. PICK l \in {"idle", "bidi"} :
        /\ \A x \in Threads : pc'[x] = IF x = o THEN l ELSE pc[x]
        /\ \A x \in Threads \ {o} : call'[x] = call[x] /\ ref'[x] = ref[x] /\ own'[x] = own[x]
  BY <1>1, Going, Returning DEF OpenStream, HoldInv
<1>4. LinkInv'
  BY <1>1, <1>2, <1>3, LinkStays, Apart
<1> QED BY <1>1, <1>2, <1>3, <1>4, LauncherMoves DEF Launching, Opens

LEMMA BidiStreamHolds ==
    ASSUME HoldInv, NEW o \in Threads, BidiStream(o) PROVE RolesInv' /\ TokenInv'
<1>1. o \in Launchers /\ Home(o) = "idle" /\ pc[o] = "bidi"
  BY Whereabouts DEF BidiStream, Opens
<1>2. UNCHANGED <<mode, started, stopping, finished, connected, current, cancelled, timer, delays>>
  BY DEF BidiStream, history, flags, link, retry, wire
<1>3. Has("open", o)
  BY <1>1 DEF Has, Opens
<1>4. CASE \E s \in Streams :
              /\ life[s] = "unused"
              /\ life' = [life EXCEPT ![s] = "opened"]
              /\ own' = [own EXCEPT ![o] = s]
              /\ pc' = [pc EXCEPT ![o] = "publish"]
              /\ UNCHANGED <<resp, req, ref, call, at, fails>>
  <2>1. PICK s \in Streams :
          /\ life[s] = "unused"
          /\ \A x \in Streams : life'[x] = IF x = s THEN "opened" ELSE life[x]
          /\ \A x \in Threads : /\ own'[x] = IF x = o THEN s ELSE own[x]
                                /\ pc'[x] = IF x = o THEN "publish" ELSE pc[x]
          /\ UNCHANGED <<call, ref>>
    BY <1>4 DEF HoldInv, ShapeInv
  <2>2. \A p \in Launchers : pc[p] \in Launching /\ ~LastOne => FALSE
    <3> SUFFICES ASSUME NEW p \in Launchers, pc[p] \in Launching, ~LastOne PROVE FALSE
      OBVIOUS
    <3>1. PICK q \in Streams : life[q] \in Alive
      BY DEF HoldInv, RolesInv, LaunchInv, Unasked, Launching, Alive
    <3>2. Has("stream", q)
      BY <3>1 DEF Has
    <3> QED BY <1>3, <3>1, <3>2, Apart DEF HoldInv, TokenInv, Kinds
  <2>3. LaunchInv'
    BY <1>1, <1>2, <2>1, <2>2, Apart DEF HoldInv, RolesInv, LaunchInv, Unasked, Launching, LastOne, Reconnect
  <2>4. WorkInv' /\ UserInv'
    BY <1>1, <1>2, <2>1, Apart DEF HoldInv, RolesInv, WorkInv, UserInv, LastOne, Reconnect
  <2>5. LinkInv'
    BY <1>1, <1>2, <2>1, Apart DEF HoldInv, RolesInv, LinkInv, Alive, LastOne, Reconnect
  <2>6. \A k \in Kinds, i \in Holders :
          Has(k, i)' => (k = "stream" /\ i = s) \/ (Has(k, i) /\ ~(k = "open" /\ i = o))
    BY <1>2, <2>1, Apart DEF Has, Opens, Alive
  <2>7. TokenInv'
    BY <1>1, <1>2, <1>3, <2>6, Apart, TokenPasses DEF HoldInv, Kinds
  <2>8. SoloInv'
    <3>1. started
      BY <1>1, <1>3, Apart DEF HoldInv, TokenInv, Kinds, Has
    <3>2. ~Reconnect => o = Starter
      BY <1>1 DEF HoldInv, RolesInv, SoloInv, Launchers, LastOne, Reconnect
    <3> QED BY <1>1, <1>2, <2>1, <3>1, <3>2, Apart
            DEF HoldInv, RolesInv, SoloInv, Launchers, Opens, Reconnect, LastOne
  <2> QED BY <2>3, <2>4, <2>5, <2>7, <2>8 DEF RolesInv
<1>5. CASE OpenThrows(o) /\ UNCHANGED life
  <2>1. PICK l \in {"idle", "terminal"} :
          /\ \A x \in Threads : pc'[x] = IF x = o THEN l ELSE pc[x]
          /\ \A x \in Threads \ {o} : call'[x] = call[x] /\ ref'[x] = ref[x] /\ own'[x] = own[x]
    BY <1>1, <1>5, Going, Returning DEF OpenThrows, HoldInv
  <2>2. LinkInv'
    BY <1>1, <1>2, <1>5, <2>1, LinkStays, Apart
  <2>3. LaunchInv'
    BY <1>1, <1>2, <1>5, <2>1, Apart DEF HoldInv, RolesInv, LaunchInv, Unasked, Launching, Ends, LastOne, Reconnect
  <2>4. WorkInv' /\ UserInv'
    BY <1>1, <1>2, <1>5, <2>1, Apart DEF HoldInv, RolesInv, WorkInv, UserInv, LastOne, Reconnect
  <2>5. \A k \in Kinds, i \in Holders :
          Has(k, i)' => (k = "end" /\ i = o) \/ (Has(k, i) /\ ~(k = "open" /\ i = o))
    BY <1>2, <1>5, <2>1, Apart DEF Has, Opens, Alive
  <2>6. TokenInv'
    BY <1>1, <1>2, <1>3, <2>5, Apart, TokenPasses DEF HoldInv, Kinds
  <2>7. SoloInv'
    BY <1>1, <1>2, <1>5, <2>1, Apart DEF HoldInv, RolesInv, SoloInv, Launchers, Opens, Reconnect, LastOne
  <2> QED BY <2>2, <2>3, <2>4, <2>6, <2>7 DEF RolesInv
<1> QED BY <1>4, <1>5 DEF BidiStream

LEMMA PublishStreamHolds ==
    ASSUME HoldInv, NEW o \in Threads, PublishStream(o) PROVE RolesInv' /\ TokenInv'
<1>1. o \in Launchers /\ pc[o] = "publish"
  BY Whereabouts DEF PublishStream
<1>2. UNCHANGED <<mode, started, stopping, finished, life, cancelled, timer, delays>>
  BY DEF PublishStream, history, flags, retry, server, wire
<1>3. PICK l \in {"cancel", "fetch"} :
        /\ \A x \in Threads : pc'[x] = IF x = o THEN l ELSE pc[x]
        /\ \A x \in Threads \ {o} : call'[x] = call[x]
        /\ UNCHANGED <<ref, own>>
        /\ l = "cancel" => LastOne
        /\ l = "fetch" => call'[o] = "open"
  BY Going, Requesting DEF PublishStream, HoldInv, LastOne
<1>4. own[o] \in Streams /\ life[own[o]] # "unused" /\ (life[own[o]] \in Alive \/ LastOne)
  BY <1>1 DEF HoldInv, RolesInv, LaunchInv, Unasked, Launching, Alive, LastOne, Reconnect
<1>5. LinkInv'
  BY <1>2, <1>4 DEF PublishStream, LinkInv, LastOne, Reconnect
<1>6. connected' => current' \in Streams /\ life[current'] # "unused"
  BY <1>4 DEF PublishStream
<1> QED BY <1>1, <1>2, <1>3, <1>5, <1>6, LauncherMoves DEF Launching, Opens

LEMMA OpenCancelsHolds ==
    ASSUME HoldInv, NEW o \in Threads, OpenCancels(o) PROVE RolesInv' /\ TokenInv'
<1>1. o \in Launchers /\ Home(o) = "idle" /\ LastOne /\ (stopping \/ o = Starter)
  <2>1. o \in Launchers /\ Home(o) = "idle"
    BY Whereabouts DEF OpenCancels
  <2> QED BY <2>1 DEF OpenCancels, HoldInv, RolesInv, LaunchInv, Unasked, SoloInv, Launchers, LastOne, Reconnect
<1>2. UNCHANGED <<mode, started, stopping, finished, connected, current, life, timer, delays>>
  BY DEF OpenCancels, history, flags, link, retry, server
<1>3. PICK l \in {"idle", "terminal"} :
        /\ \A x \in Threads : pc'[x] = IF x = o THEN l ELSE pc[x]
        /\ \A x \in Threads \ {o} : call'[x] = call[x] /\ ref'[x] = ref[x] /\ own'[x] = own[x]
        /\ l = "terminal" => stopping
  BY <1>1, Going, Returning DEF OpenCancels, OpenThrows, HoldInv
<1>4. LinkInv'
  BY <1>1, <1>2, <1>3, LinkStays, Apart
<1>5. pc[o] # "idle"
  BY DEF OpenCancels
<1> QED BY <1>1, <1>2, <1>3, <1>4, <1>5, LauncherMoves DEF Launching, Opens

-----------------------------------------------------------------------------
\* Requests and deliveries

LEMMA FetchHolds == ASSUME HoldInv, NEW t \in Threads, Fetch(t) PROVE RolesInv' /\ TokenInv'
<1>1. UNCHANGED <<mode, started, stopping, finished, connected, current, life, cancelled, timer, delays>>
  BY DEF Fetch, history, flags, link, retry, server, wire
<1>2. CASE stopping \/ ~connected \/ current = None
  <2>1. /\ \A x \in Threads : pc'[x] = IF x = t THEN Home(t) ELSE pc[x]
        /\ \A x \in Threads \ {t} : call'[x] = call[x] /\ ref'[x] = ref[x] /\ own'[x] = own[x]
        /\ call'[t] = "none"
    BY <1>2, Returning DEF Fetch, HoldInv
  <2>2. LinkInv'
    BY <1>1, <2>1, LinkStays, Apart DEF Fetch
  <2>3. CASE t \in Launchers
    BY <1>1, <2>1, <2>2, <2>3, Whereabouts, LauncherMoves DEF Launching, Opens, Fetch
  <2>4. CASE t \in Streams
    BY <1>1, <2>1, <2>4, Whereabouts, StreamMoves DEF Working, Fetch
  <2>5. CASE t = User
    BY <1>1, <2>1, <2>5, Whereabouts, UserMoves
  <2> QED BY <2>3, <2>4, <2>5, Whereabouts
<1>3. CASE ~(stopping \/ ~connected \/ current = None)
  <2>1. /\ \A x \in Threads : pc'[x] = IF x = t THEN "write" ELSE pc[x]
        /\ \A x \in Threads : ref'[x] = IF x = t THEN current ELSE ref[x]
        /\ UNCHANGED <<call, own>>
        /\ connected /\ ~stopping
    BY <1>3 DEF Fetch, HoldInv, ShapeInv
  <2>2. LinkInv'
    BY <1>1, <2>1, LinkStays, Apart DEF Fetch
  <2>3. CASE t \in Launchers
    <3>1. call[t] = "open" /\ pc[t] = "fetch"
      BY <2>3 DEF Fetch, HoldInv, RolesInv, LaunchInv, Unasked, Launching, LastOne, Reconnect
    <3>2. Unasked(current)
      BY <2>1, <2>3, <3>1, OpensCurrent
    <3> QED BY <1>1, <2>1, <2>2, <2>3, <3>1, <3>2, LauncherMoves DEF Opens
  <2>4. CASE t \in Streams
    <3>1. call[t] # "open" /\ pc[t] \in Working /\ life[t] \in {"asked", "closed"}
      BY <2>4 DEF Fetch, HoldInv, RolesInv, WorkInv, Working, LastOne, Reconnect
    <3>2. current = t
      BY <2>1, <2>4, <3>1, WorksForCurrent
    <3> QED BY <1>1, <2>1, <2>4, <3>1, <3>2, StreamMoves DEF Working
  <2>5. CASE t = User
    <3>1. ~Reconnect /\ call[t] = "user"
      BY <2>5 DEF Fetch, HoldInv, RolesInv, UserInv, LastOne, Reconnect
    <3> QED BY <1>1, <2>1, <2>5, <3>1, UserMoves
  <2> QED BY <2>3, <2>4, <2>5, Whereabouts
<1> QED BY <1>2, <1>3 DEF HoldInv, ShapeInv

LEMMA WriteSucceedsHolds ==
    ASSUME HoldInv, NEW t \in Threads, WriteSucceeds(t) PROVE RolesInv' /\ TokenInv'
<1>1. UNCHANGED <<mode, started, stopping, finished, connected, current, cancelled, timer, delays>>
  BY DEF WriteSucceeds, history, flags, link, retry, wire
<1>2. /\ \A x \in Threads : pc'[x] = IF x = t THEN "book" ELSE pc[x]
      /\ UNCHANGED <<call, ref, own>>
  BY Going DEF WriteSucceeds, HoldInv
<1>3. \A x \in Streams :
        \/ life'[x] = life[x]
        \/ /\ life[x] = "opened" /\ x = ref[t] /\ life'[x] \in {"asked", "closed"}
  BY DEF WriteSucceeds, HoldInv, ShapeInv
<1>4. t \in Streams => call[t] # "open" /\ life[t] \in {"asked", "closed"}
                         /\ (ref[t] = t \/ stopping)
  BY DEF WriteSucceeds, HoldInv, RolesInv, WorkInv, Working, LastOne, Reconnect
<1>5. t \in Launchers => call[t] = "open" /\ pc[t] = "write"
  BY DEF WriteSucceeds, HoldInv, RolesInv, LaunchInv, Unasked, Launching, LastOne, Reconnect
<1>6. t \in Launchers \cup Streams \/ (t = User /\ ~Reconnect)
  BY Whereabouts DEF WriteSucceeds, HoldInv, RolesInv, UserInv, LastOne, Reconnect
<1>7. LaunchInv'
  BY <1>1, <1>2, <1>3, <1>4, <1>5, <1>6, Apart DEF HoldInv, RolesInv, LaunchInv, Unasked, Launching, LastOne, Reconnect
<1>8. WorkInv'
  BY <1>1, <1>2, <1>3, <1>4, <1>6, Apart DEF HoldInv, RolesInv, WorkInv, Working, LastOne, Reconnect
<1>9. UserInv' /\ LinkInv' /\ SoloInv'
  <2>1. UserInv' /\ LinkInv'
    BY <1>1, <1>2, <1>3, <1>6, Apart DEF HoldInv, RolesInv, UserInv, LinkInv, Alive, WriteSucceeds, LastOne, Reconnect
  <2>2. SoloInv'
    BY <1>1, <1>2, <1>3, Apart DEF HoldInv, RolesInv, SoloInv, Launchers, Opens, WriteSucceeds, LastOne, Reconnect
  <2> QED BY <2>1, <2>2
<1>10. \A k \in Kinds, i \in Holders : Has(k, i)' => Has(k, i)
  BY <1>1, <1>2, <1>3, Apart DEF Has, Opens, Alive
<1> QED BY <1>1, <1>7, <1>8, <1>9, <1>10, TokenStays DEF HoldInv, RolesInv

LEMMA WriteThrowsHolds ==
    ASSUME HoldInv, NEW t \in Threads, WriteThrows(t) PROVE RolesInv' /\ TokenInv'
<1>1. UNCHANGED <<mode, started, stopping, finished, connected, current, delays>>
  BY DEF WriteThrows, history, flags, link, retry
<1>2. CASE t \in Launchers
  <2>1. call[t] = "open" /\ ref[t] \in Streams /\ (life[ref[t]] = "opened" \/ LastOne)
    BY <1>2 DEF WriteThrows, HoldInv, RolesInv, LaunchInv, Unasked, Launching, LastOne, Reconnect
  <2>2. LastOne
    BY <2>1 DEF WriteThrows, HoldInv, RolesInv, WorkInv, LastOne, Reconnect
  <2>3. /\ \A x \in Threads : pc'[x] = IF x = t THEN "undo" ELSE pc[x]
        /\ UNCHANGED <<call, ref, own, life, cancelled, timer>>
    BY <2>1, Going DEF WriteThrows, HoldInv, wire
  <2>4. LinkInv'
    BY <1>1, <2>2 DEF LinkInv, LastOne, Reconnect
  <2>5. pc[t] # "idle"
    BY DEF WriteThrows
  <2> QED BY <1>1, <1>2, <2>2, <2>3, <2>4, <2>5, LauncherMoves DEF Launching, Opens
<1>3. CASE t \in Streams
  <2>1. call[t] # "open" /\ pc[t] \in Working /\ life[t] \in {"asked", "closed"}
    BY <1>3 DEF WriteThrows, HoldInv, RolesInv, WorkInv, Working, LastOne, Reconnect
  <2>2. CASE call[t] = "top_up"
    BY <1>1, <1>3, <2>1, <2>2, StreamEnds DEF WriteThrows, Alive
  <2>3. CASE call[t] # "top_up"
    <3>1. Return(t) /\ UNCHANGED <<life, cancelled, timer>>
      BY <2>1, <2>3 DEF WriteThrows, wire
    <3>2. /\ \A x \in Threads : pc'[x] = IF x = t THEN "wait" ELSE pc[x]
          /\ \A x \in Threads \ {t} : call'[x] = call[x] /\ ref'[x] = ref[x] /\ own'[x] = own[x]
          /\ call'[t] = "none"
      BY <1>3, <3>1, Returning, Whereabouts DEF HoldInv
    <3> QED BY <1>1, <1>3, <2>1, <3>1, <3>2, StreamMoves DEF Working
  <2> QED BY <2>2, <2>3
<1>4. CASE t = User
  <2>1. Return(t) /\ UNCHANGED <<life, cancelled, timer>>
    BY <1>4 DEF WriteThrows, wire, HoldInv, RolesInv, UserInv, LastOne, Reconnect
  <2>2. /\ \A x \in Threads : pc'[x] = IF x = t THEN "idle" ELSE pc[x]
        /\ \A x \in Threads \ {t} : call'[x] = call[x] /\ ref'[x] = ref[x] /\ own'[x] = own[x]
    BY <1>4, <2>1, Returning, Whereabouts DEF HoldInv
  <2> QED BY <1>1, <1>4, <2>1, <2>2, UserMoves
<1> QED BY <1>2, <1>3, <1>4, Whereabouts

LEMMA BookHolds == ASSUME HoldInv, NEW t \in Threads, Book(t) PROVE RolesInv' /\ TokenInv'
<1>1. UNCHANGED <<mode, started, stopping, finished, connected, current, life, cancelled, delays>>
  BY DEF Book, history, flags, link, retry, server
<1>2. /\ \A x \in Threads : pc'[x] = IF x = t THEN Home(t) ELSE pc[x]
      /\ \A x \in Threads \ {t} : call'[x] = call[x] /\ ref'[x] = ref[x] /\ own'[x] = own[x]
      /\ call'[t] = "none"
  BY Returning DEF Book, HoldInv
<1>3. \A x \in Streams : timer'[x] # "off" => timer[x] # "off"
  BY DEF Book, HoldInv, ShapeInv
<1>4. LinkInv'
  BY <1>1, <1>2, LinkStays, Apart DEF Book
<1>5. CASE t \in Launchers
  BY <1>1, <1>2, <1>3, <1>4, <1>5, Whereabouts, LauncherMoves DEF Launching, Opens, Book
<1>6. CASE t \in Streams
  BY <1>1, <1>2, <1>3, <1>6, Whereabouts, StreamMoves DEF Working, Book
<1>7. CASE t = User
  BY <1>1, <1>2, <1>3, <1>7, Whereabouts, UserMoves
<1> QED BY <1>5, <1>6, <1>7, Whereabouts

LEMMA ReplenishHolds ==
    ASSUME HoldInv, NEW t \in Threads, Replenish(t) PROVE RolesInv' /\ TokenInv'
<1>1. UNCHANGED <<mode, started, stopping, finished, connected, current, life, cancelled, timer, delays>>
  BY DEF Replenish, history, flags, link, retry, server, wire
<1>2. CASE t \in Streams
  <2>1. Home(t) = "wait" /\ t # User
    BY <1>2, Whereabouts, Apart
  <2>2. PICK l \in {"wait", "fetch"} :
          /\ \A x \in Threads : pc'[x] = IF x = t THEN l ELSE pc[x]
          /\ \A x \in Threads \ {t} : call'[x] = call[x] /\ ref'[x] = ref[x] /\ own'[x] = own[x]
          /\ call'[t] # "open"
    BY <2>1, Requesting, Returning DEF Replenish, HoldInv
  <2>3. pc[t] \in Working /\ life[t] \in {"asked", "closed"}
    BY <1>2 DEF Replenish, HoldInv, RolesInv, WorkInv, Working, LastOne, Reconnect
  <2> QED BY <1>1, <1>2, <2>2, <2>3, StreamMoves DEF Working
<1>3. CASE t = User
  <2>1. ~Reconnect /\ Home(t) = "idle"
    BY <1>3, Whereabouts DEF Replenish, HoldInv, RolesInv, UserInv, LastOne, Reconnect
  <2>2. PICK l \in {"idle", "fetch"} :
          /\ \A x \in Threads : pc'[x] = IF x = t THEN l ELSE pc[x]
          /\ \A x \in Threads \ {t} : call'[x] = call[x] /\ ref'[x] = ref[x] /\ own'[x] = own[x]
          /\ l = "fetch" => call'[t] = "user"
    BY <1>3, <2>1, Requesting, Returning DEF Replenish, HoldInv
  <2> QED BY <1>1, <1>3, <2>1, <2>2, UserMoves
<1> QED BY <1>2, <1>3, Whereabouts DEF Replenish

LEMMA TakeResponseHolds ==
    ASSUME HoldInv, NEW s \in Streams, TakeResponse(s) PROVE RolesInv' /\ TokenInv'
<1>1. /\ UNCHANGED <<mode, started, stopping, finished, connected, current, life, cancelled, timer, delays>>
      /\ UNCHANGED <<call, ref, own>>
  BY DEF TakeResponse, history, flags, link, server
<1>2. PICK l \in {"keepalive", "event"} : \A x \in Threads : pc'[x] = IF x = s THEN l ELSE pc[x]
  BY DEF TakeResponse, HoldInv, ShapeInv
<1>3. call[s] # "open"
  BY DEF HoldInv, RolesInv, WorkInv, LastOne, Reconnect
<1> QED BY <1>1, <1>2, <1>3, StreamMoves DEF Working, TakeResponse

LEMMA OnEventHolds ==
    ASSUME HoldInv, NEW s \in Streams, OnEvent(s) PROVE RolesInv' /\ TokenInv'
<1>1. UNCHANGED <<mode, started, stopping, finished, connected, current, delays>>
  BY DEF OnEvent, history, flags, link, retry
<1>2. pc[s] \in Working /\ life[s] \in {"asked", "closed"} /\ call[s] # "open"
  BY DEF OnEvent, HoldInv, RolesInv, WorkInv, Working, LastOne, Reconnect
<1>3. CASE Goto(s, "advance") /\ UNCHANGED <<life, wire>>
  <2>1. /\ \A x \in Threads : pc'[x] = IF x = s THEN "advance" ELSE pc[x]
        /\ UNCHANGED <<call, ref, own>>
    BY <1>3, Going, Apart DEF HoldInv
  <2> QED BY <1>1, <1>2, <1>3, <2>1, StreamMoves DEF Working, wire
<1>4. CASE Collapse(s)
  BY <1>1, <1>2, <1>4, StreamEnds DEF Alive
<1> QED BY <1>3, <1>4 DEF OnEvent, CallbackThrows

LEMMA KeepaliveHolds ==
    ASSUME HoldInv, NEW s \in Streams, Keepalive(s) PROVE RolesInv' /\ TokenInv'
<1>1. UNCHANGED <<mode, started, stopping, finished, connected, current, delays>>
  BY DEF Keepalive, history, flags, link, retry
<1>2. pc[s] \in Working /\ life[s] \in {"asked", "closed"} /\ call[s] # "open"
  BY DEF Keepalive, HoldInv, RolesInv, WorkInv, Working, LastOne, Reconnect
<1>3. CASE Goto(s, "flow") /\ UNCHANGED <<life, wire>>
  <2>1. /\ \A x \in Threads : pc'[x] = IF x = s THEN "flow" ELSE pc[x]
        /\ UNCHANGED <<call, ref, own>>
    BY <1>3, Going, Apart DEF HoldInv
  <2> QED BY <1>1, <1>2, <1>3, <2>1, StreamMoves DEF Working, wire
<1>4. CASE Collapse(s)
  BY <1>1, <1>2, <1>4, StreamEnds DEF Alive
<1> QED BY <1>3, <1>4 DEF Keepalive, CallbackThrows

LEMMA AdvanceHolds ==
    ASSUME HoldInv, NEW s \in Streams, Advance(s) PROVE RolesInv' /\ TokenInv'
<1>1. UNCHANGED <<mode, started, stopping, finished, connected, current, life, cancelled, timer, delays>>
  BY DEF Advance, history, flags, link, retry, server, wire
<1>2. pc[s] \in Working /\ life[s] \in {"asked", "closed"} /\ call[s] # "open"
  BY DEF Advance, HoldInv, RolesInv, WorkInv, Working, LastOne, Reconnect
<1>3. PICK l \in {"wait", "event", "flow"} :
        /\ \A x \in Threads : pc'[x] = IF x = s THEN l ELSE pc[x]
        /\ \A x \in Threads \ {s} : call'[x] = call[x] /\ ref'[x] = ref[x] /\ own'[x] = own[x]
        /\ call'[s] # "open"
  <2>1. CASE stopping
    BY <2>1, Returning, Whereabouts, Apart DEF Advance, HoldInv
  <2>2. CASE ~stopping
    BY <1>2, <2>2 DEF Advance, HoldInv, ShapeInv
  <2> QED BY <2>1, <2>2
<1> QED BY <1>1, <1>2, <1>3, StreamMoves DEF Working

LEMMA FlowControlHolds ==
    ASSUME HoldInv, NEW s \in Streams, FlowControl(s) PROVE RolesInv' /\ TokenInv'
<1>1. UNCHANGED <<mode, started, stopping, finished, connected, current, life, cancelled, timer, delays>>
  BY DEF FlowControl, history, flags, link, retry, server, wire
<1>2. pc[s] \in Working /\ life[s] \in {"asked", "closed"} /\ s \in Threads
  BY Apart DEF FlowControl, HoldInv, RolesInv, WorkInv, Working, LastOne, Reconnect
<1>3. CASE Return(s)
  <2>1. /\ \A x \in Threads : pc'[x] = IF x = s THEN "wait" ELSE pc[x]
        /\ \A x \in Threads \ {s} : call'[x] = call[x] /\ ref'[x] = ref[x] /\ own'[x] = own[x]
        /\ call'[s] = "none"
    BY <1>2, <1>3, Returning, Whereabouts DEF HoldInv
  <2> QED BY <1>1, <1>2, <2>1, StreamMoves DEF Working
<1>4. CASE ~Return(s)
  <2>1. connected /\ ~stopping
    BY <1>4 DEF FlowControl, HoldInv, ShapeInv
  <2>2. current = s
    BY <1>2, <2>1, WorksForCurrent
  <2>3. PICK l \in {"arm", "replenish"} :
          /\ \A x \in Threads : pc'[x] = IF x = s THEN l ELSE pc[x]
          /\ \A x \in Threads \ {s} : call'[x] = call[x] /\ ref'[x] = ref[x] /\ own'[x] = own[x]
          /\ call'[s] # "open" /\ ref'[s] = s
    BY <1>2, <1>4, <2>1, <2>2 DEF FlowControl, HoldInv, ShapeInv
  <2> QED BY <1>1, <1>2, <2>3, StreamMoves DEF Working
<1> QED BY <1>3, <1>4

LEMMA ArmBackstopHolds ==
    ASSUME HoldInv, NEW s \in Streams, ArmBackstop(s) PROVE RolesInv' /\ TokenInv'
<1>1. UNCHANGED <<mode, started, stopping, finished, connected, current, life, cancelled, delays>>
  BY DEF ArmBackstop, history, flags, link, retry, server
<1>2. /\ pc[s] \in Working /\ life[s] \in {"asked", "closed"} /\ s \in Threads
      /\ call[s] # "open" /\ (ref[s] = s \/ stopping)
  BY Apart DEF ArmBackstop, HoldInv, RolesInv, WorkInv, Working, LastOne, Reconnect
<1>3. PICK l \in {"wait", "replenish"} :
        /\ \A x \in Threads : pc'[x] = IF x = s THEN l ELSE pc[x]
        /\ \A x \in Threads \ {s} : call'[x] = call[x] /\ ref'[x] = ref[x] /\ own'[x] = own[x]
        /\ call'[s] # "open"
  BY <1>2, Going, Returning, Whereabouts DEF ArmBackstop, HoldInv
<1>4. \A x \in Streams : timer'[x] # "off" => timer[x] # "off" \/ x = ref[s]
  BY DEF ArmBackstop, HoldInv, ShapeInv
<1> QED BY <1>1, <1>2, <1>3, <1>4, StreamMoves DEF Working

LEMMA FlowControlBackstopHolds ==
    ASSUME HoldInv, NEW s \in Streams, FlowControlBackstop(s) PROVE RolesInv' /\ TokenInv'
<1>1. UNCHANGED <<mode, started, stopping, finished, connected, current, life, cancelled, delays>>
  BY DEF FlowControlBackstop, history, flags, link, retry, server
<1>2. /\ pc[s] = "wait" /\ call[s] # "open" /\ s \in Threads
      /\ life[s] \in {"asked", "closed"} \/ stopping
  BY Apart DEF FlowControlBackstop, HoldInv, RolesInv, WorkInv, LastOne, Reconnect
<1>3. PICK l \in {"wait", "fetch"} :
        /\ \A x \in Threads : pc'[x] = IF x = s THEN l ELSE pc[x]
        /\ \A x \in Threads \ {s} : call'[x] = call[x] /\ ref'[x] = ref[x] /\ own'[x] = own[x]
        /\ call'[s] # "open"
        /\ l = "fetch" => ~stopping
  <2>1. CASE UNCHANGED locals
    BY <1>2, <2>1 DEF locals
  <2>2. CASE ~stopping /\ connected
    BY <1>2, <2>2, Requesting DEF FlowControlBackstop, HoldInv
  <2> QED BY <2>1, <2>2 DEF FlowControlBackstop, HoldInv, ShapeInv
<1>4. \A x \in Streams : timer'[x] # "off" => timer[x] # "off"
  BY DEF FlowControlBackstop, HoldInv, ShapeInv
<1> QED BY <1>1, <1>2, <1>3, <1>4, StreamMoves DEF Working

LEMMA StreamTerminatesHolds ==
    ASSUME HoldInv, NEW s \in Streams, StreamTerminates(s) PROVE RolesInv' /\ TokenInv'
<1>1. UNCHANGED <<mode, started, stopping, finished, connected, current, delays>>
  BY DEF StreamTerminates, history, flags, link, retry
<1>2. life[s] \in Alive /\ (life[s] = "opened" => LastOne)
  BY DEF StreamTerminates, HoldInv, RolesInv, WorkInv, Alive, LastOne, Reconnect
<1> QED BY <1>1, <1>2, StreamEnds DEF StreamTerminates

-----------------------------------------------------------------------------
\* The end of a stream, and what follows

LEMMA HandleTerminalHolds ==
    ASSUME HoldInv, NEW t \in Threads, HandleTerminal(t) PROVE RolesInv' /\ TokenInv'
<1>1. /\ UNCHANGED <<mode, started, stopping, life, cancelled, timer, delays>>
      /\ ~connected' /\ pc[t] = "terminal" /\ t \in Holders
  BY Apart DEF HandleTerminal, history, server, wire
<1>2. PICK l \in {Home(t), "give_up", "schedule"} :
        /\ \A x \in Threads : pc'[x] = IF x = t THEN l ELSE pc[x]
        /\ \A x \in Threads \ {t} : call'[x] = call[x] /\ ref'[x] = ref[x] /\ own'[x] = own[x]
        /\ call'[t] \in {"none", call[t]}
        /\ stopping \/ finished => l = Home(t) /\ finished' = finished
        /\ ~stopping /\ ~finished => l # Home(t) /\ finished' = (l = "give_up")
        /\ l = "schedule" => Reconnect
  <2>1. CASE stopping \/ finished
    <3>1. Home(t) # "schedule"
      BY DEF Home
    <3> QED BY <2>1, <3>1, Returning DEF HandleTerminal, HoldInv
  <2>2. CASE ~(stopping \/ finished)
    <3>1. PICK l \in {"give_up", "schedule"} :
            /\ Goto(t, l) /\ finished' = (l = "give_up")
            /\ l = "schedule" => Reconnect
      BY <2>2 DEF HandleTerminal
    <3>2. \A x \in Threads : pc'[x] = IF x = t THEN l ELSE pc[x]
      BY <3>1, Going DEF HoldInv
    <3>3. UNCHANGED <<call, ref, own>>
      BY <3>1, Going DEF HoldInv
    <3>4. l # Home(t)
      BY DEF Home
    <3> QED BY <2>2, <3>1, <3>2, <3>3, <3>4
  <2> QED BY <2>1, <2>2
<1>3. t \in Launchers \/ (t \in Streams /\ call[t] # "open")
  BY <1>1, Whereabouts DEF Ends, HoldInv, RolesInv, WorkInv, LastOne, Reconnect
<1>4. LinkInv'
  BY <1>1 DEF LinkInv, LastOne, Reconnect
<1>5. RolesInv'
  BY <1>1, <1>2, <1>3, <1>4, EndMoves DEF Ends, Home
<1>6. \A k \in Kinds, i \in Holders : Has(k, i)' => Has(k, i)
  BY <1>1, <1>2, Apart DEF Has, Opens, Home
<1>7. CASE finished' => finished
  BY <1>5, <1>6, <1>7, TokenStays DEF HoldInv
<1>8. CASE finished' /\ ~finished
  <2>1. Has("end", t)
    BY <1>1, <1>2, <1>8 DEF Has
  <2>2. ~Has("end", t)'
    BY <1>2, <1>8 DEF Has, HoldInv, ShapeInv
  <2> QED BY <1>1, <1>5, <1>6, <2>1, <2>2, TokenSpent DEF HoldInv, Kinds
<1> QED BY <1>2, <1>7, <1>8

LEMMA GiveUpHolds == ASSUME HoldInv, NEW t \in Threads, GiveUp(t) PROVE RolesInv' /\ TokenInv'
<1>1. /\ UNCHANGED <<mode, started, stopping, finished, connected, current, life, cancelled, timer, delays>>
      /\ pc[t] = "give_up"
  BY DEF GiveUp, history, flags, link, retry, server, wire
<1>2. /\ \A x \in Threads : pc'[x] = IF x = t THEN Home(t) ELSE pc[x]
      /\ \A x \in Threads \ {t} : call'[x] = call[x] /\ ref'[x] = ref[x] /\ own'[x] = own[x]
      /\ call'[t] = "none"
  BY Returning DEF GiveUp, HoldInv
<1>3. LinkInv'
  BY <1>1, <1>2, LinkStays, Apart
<1>4. RolesInv'
  <2>1. Home(t) \notin {"schedule", "submit"}
    BY DEF Home
  <2> QED BY <1>1, <1>2, <1>3, <2>1, EndMoves DEF Ends
<1>5. \A k \in Kinds, i \in Holders : Has(k, i)' => Has(k, i)
  BY <1>1, <1>2, Apart DEF Has, Opens, Home
<1> QED BY <1>1, <1>4, <1>5, TokenStays DEF HoldInv

LEMMA ScheduleReconnectHolds ==
    ASSUME HoldInv, NEW t \in Threads, ScheduleReconnect(t) PROVE RolesInv' /\ TokenInv'
<1>1. /\ UNCHANGED <<mode, started, stopping, finished, connected, current, life, cancelled, timer>>
      /\ pc[t] = "schedule"
  BY DEF ScheduleReconnect, history, flags, link, server, wire
<1>2. PICK l \in {Home(t), "submit"} :
        /\ \A x \in Threads : pc'[x] = IF x = t THEN l ELSE pc[x]
        /\ \A x \in Threads \ {t} : call'[x] = call[x] /\ ref'[x] = ref[x] /\ own'[x] = own[x]
        /\ call'[t] \in {"none", call[t]}
        /\ l = "submit" => ~stopping
  <2>1. CASE stopping \/ finished
    BY <2>1, Returning DEF ScheduleReconnect, HoldInv, Home
  <2>2. CASE ~(stopping \/ finished)
    BY <1>1, <2>2 DEF ScheduleReconnect, HoldInv, ShapeInv
  <2> QED BY <2>1, <2>2
<1>3. \A d \in Delays : delays'[d] \in {"new", delays[d]}
  BY DEF ScheduleReconnect, HoldInv, ShapeInv
<1>4. LinkInv'
  BY <1>1, <1>2, LinkStays, Apart
<1>5. t \in Launchers \/ (t \in Streams /\ call[t] # "open")
  BY <1>1, Whereabouts DEF Ends, HoldInv, RolesInv, WorkInv, LastOne, Reconnect
<1>6. RolesInv'
  <2>1. Reconnect
    BY <1>1 DEF HoldInv, RolesInv, SoloInv, LastOne, Reconnect
  <2> QED BY <1>1, <1>2, <1>4, <1>5, <2>1, EndMoves DEF Ends
<1>7. \A k \in Kinds, i \in Holders : Has(k, i)' => Has(k, i)
  BY <1>1, <1>2, <1>3, Apart DEF Has, Opens, Home
<1> QED BY <1>1, <1>6, <1>7, TokenStays DEF HoldInv

LEMMA SubmitDelayHolds ==
    ASSUME HoldInv, NEW t \in Threads, SubmitDelay(t) PROVE RolesInv' /\ TokenInv'
<1>1. /\ UNCHANGED <<mode, started, stopping, connected, current, life, cancelled, timer>>
      /\ pc[t] = "submit" /\ t \in Holders
  BY Apart DEF SubmitDelay, history, link, server, wire
<1>2. PICK l \in {Home(t), "give_up"} :
        /\ \A x \in Threads : pc'[x] = IF x = t THEN l ELSE pc[x]
        /\ \A x \in Threads \ {t} : call'[x] = call[x] /\ ref'[x] = ref[x] /\ own'[x] = own[x]
        /\ call'[t] \in {"none", call[t]}
        /\ finished' => finished \/ l = "give_up"
        /\ l = "give_up" => \A d \in Delays : delays'[d] \in {"unused", delays[d]}
        /\ \A d \in Delays : delays'[d] \in {"waiting", "unused"} \/ delays'[d] = delays[d]
        /\ \A d \in Delays : d = ref[t] \/ delays'[d] = delays[d]
  <2>1. CASE Return(t) /\ finished' = finished
               /\ delays' = [delays EXCEPT ![ref[t]] = IF @ = "new" THEN "waiting" ELSE "unused"]
    BY <2>1, Returning DEF HoldInv, ShapeInv, Home
  <2>2. CASE Goto(t, "give_up") /\ delays' = [delays EXCEPT ![ref[t]] = "unused"]
    BY <2>2, Going DEF HoldInv, ShapeInv
  <2> QED BY <2>1, <2>2 DEF SubmitDelay
<1>3. LinkInv'
  BY <1>1, <1>2, LinkStays, Apart
<1>4. t \in Launchers \/ (t \in Streams /\ call[t] # "open")
  BY <1>1, Whereabouts DEF Ends, HoldInv, RolesInv, WorkInv, LastOne, Reconnect
<1>5. RolesInv'
  <2>1. Reconnect
    BY <1>1 DEF HoldInv, RolesInv, SoloInv, LastOne, Reconnect
  <2> QED BY <1>1, <1>2, <1>3, <1>4, <2>1, EndMoves DEF Ends
<1>6. Has("end", t)
  BY <1>1 DEF Has
<1>7. CASE l = "give_up"
  <2>1. \A k \in Kinds, i \in Holders : Has(k, i)' => Has(k, i) /\ ~(k = "end" /\ i = t)
    BY <1>1, <1>2, <1>7, Apart DEF Has, Opens
  <2> QED BY <1>1, <1>5, <1>6, <2>1, TokenSpent DEF HoldInv, Kinds
<1>8. CASE l = Home(t)
  <2>1. \A k \in Kinds, i \in Holders :
          Has(k, i)' => (k = "delay" /\ i = ref[t]) \/ (Has(k, i) /\ ~(k = "end" /\ i = t))
    BY <1>1, <1>2, <1>8, Apart DEF Has, Opens, Home
  <2>2. finished' => finished
    BY <1>2, <1>8 DEF Home
  <2> QED BY <1>1, <1>5, <1>6, <2>1, <2>2, TokenPasses DEF HoldInv, Kinds
<1> QED BY <1>2, <1>7, <1>8

LEMMA DelayDueHolds ==
    ASSUME HoldInv, NEW d \in Delays, DelayDue(d) PROVE RolesInv' /\ TokenInv'
<1>1. /\ UNCHANGED <<mode, started, stopping, finished, connected, current, life, cancelled, timer>>
      /\ UNCHANGED <<pc, call, ref, own>>
      /\ \A x \in Delays : delays'[x] = IF x = d THEN "due" ELSE delays[x]
  BY DEF DelayDue, history, flags, link, server, wire, locals, HoldInv, ShapeInv
<1>2. LaunchInv' /\ WorkInv' /\ UserInv' /\ LinkInv' /\ SoloInv'
  BY <1>1 DEF DelayDue, HoldInv, RolesInv, LaunchInv, Unasked, WorkInv, UserInv, LinkInv, SoloInv, LastOne, Reconnect
<1>3. \A k \in Kinds, i \in Holders : Has(k, i)' => Has(k, i)
  BY <1>1 DEF Has, DelayDue
<1> QED BY <1>1, <1>2, <1>3, TokenStays DEF HoldInv, RolesInv

LEMMA DelayAbortedHolds ==
    ASSUME HoldInv, NEW d \in Delays, DelayAborted(d) PROVE RolesInv' /\ TokenInv'
<1>1. /\ UNCHANGED <<mode, started, stopping, finished, connected, current, life, cancelled, timer>>
      /\ UNCHANGED <<pc, call, ref, own>>
      /\ \A x \in Delays : delays'[x] = IF x = d THEN "aborted" ELSE delays[x]
  BY DEF DelayAborted, history, flags, link, server, wire, locals, HoldInv, ShapeInv
<1>2. LaunchInv' /\ WorkInv' /\ UserInv' /\ LinkInv' /\ SoloInv'
  BY <1>1 DEF DelayAborted, HoldInv, RolesInv, LaunchInv, Unasked, WorkInv, UserInv, LinkInv,
              SoloInv, LastOne, Reconnect
<1>3. \A k \in Kinds, i \in Holders : Has(k, i)' => Has(k, i)
  BY <1>1 DEF Has
<1> QED BY <1>1, <1>2, <1>3, TokenStays DEF HoldInv, RolesInv

LEMMA ReconnectNowHolds ==
    ASSUME HoldInv, NEW d \in Delays, ReconnectNow(d) PROVE RolesInv' /\ TokenInv'
<1>1. /\ UNCHANGED <<mode, started, stopping, finished, connected, current, life, cancelled, timer>>
      /\ \A x \in Delays : delays'[x] = IF x = d THEN "unused" ELSE delays[x]
      /\ d \in Holders
  BY Apart DEF ReconnectNow, history, flags, link, server, wire, HoldInv, ShapeInv
<1>2. CASE UNCHANGED locals
  <2>1. LaunchInv' /\ WorkInv' /\ UserInv' /\ LinkInv' /\ SoloInv'
    BY <1>1, <1>2
       DEF ReconnectNow, HoldInv, RolesInv, LaunchInv, Unasked, WorkInv, UserInv, LinkInv, SoloInv, locals, LastOne, Reconnect
  <2>2. \A k \in Kinds, i \in Holders : Has(k, i)' => Has(k, i)
    BY <1>1, <1>2 DEF Has, locals
  <2> QED BY <1>1, <2>1, <2>2, TokenStays DEF HoldInv, RolesInv
<1>3. CASE \E o \in Openers : pc[o] = "idle" /\ Goto(o, "intern")
  <2>1. PICK o \in Openers :
          /\ pc[o] = "idle" /\ o \in Launchers
          /\ \A x \in Threads : pc'[x] = IF x = o THEN "intern" ELSE pc[x]
          /\ UNCHANGED <<call, ref, own>>
    BY <1>3, Going DEF HoldInv, Threads, Launchers
  <2>2. LinkInv'
    BY <1>1, <2>1, LinkStays, Apart
  <2>3. LaunchInv'
    BY <1>1, <2>1, Apart DEF HoldInv, RolesInv, LaunchInv, Unasked, Launching, LastOne, Reconnect
  <2>4. WorkInv' /\ UserInv' /\ SoloInv'
    BY <1>1, <2>1, Apart DEF ReconnectNow, HoldInv, RolesInv, WorkInv, UserInv, SoloInv, LastOne, Reconnect
  <2>5. Has("delay", d)
    BY DEF Has, ReconnectNow
  <2>6. \A k \in Kinds, i \in Holders :
          Has(k, i)' => (k = "open" /\ i = o) \/ (Has(k, i) /\ ~(k = "delay" /\ i = d))
    BY <1>1, <2>1, Apart DEF Has, Opens
  <2>7. TokenInv'
    BY <1>1, <2>5, <2>6, TokenPasses DEF HoldInv, Kinds
  <2> QED BY <2>2, <2>3, <2>4, <2>7 DEF RolesInv
<1> QED BY <1>2, <1>3 DEF ReconnectNow

-----------------------------------------------------------------------------
\* The user, the server and the clock

LEMMA StopHolds == ASSUME HoldInv, Stop PROVE RolesInv' /\ TokenInv'
<1>1. /\ UNCHANGED <<mode, started, finished, current, life, cancelled, timer, call>>
      /\ stopping'
  BY DEF Stop, history, server, wire
<1>2. \A x \in Threads : pc'[x] = IF x = User THEN "stopping" ELSE pc[x]
  BY Apart DEF Stop, HoldInv, ShapeInv
<1>3. \A x \in Threads : x # User => ref'[x] = ref[x] /\ own'[x] = own[x]
  BY Apart DEF Stop, HoldInv, ShapeInv
<1>4. \A d \in Delays : delays'[d] \in {"cancelled", "unused", delays[d]}
  BY DEF Stop
<1>5. LaunchInv'
  BY <1>1, <1>2, <1>3, Apart DEF HoldInv, RolesInv, LaunchInv, Unasked, LastOne, Reconnect
<1>6. WorkInv'
  BY <1>1, <1>2, <1>3, Apart DEF HoldInv, RolesInv, WorkInv, LastOne, Reconnect
<1>7. UserInv' /\ LinkInv' /\ SoloInv'
  <2>1. UserInv' /\ LinkInv'
    BY <1>1, <1>2, Apart DEF UserInv, LinkInv, LastOne, Reconnect
  <2>2. SoloInv'
    BY <1>1, <1>2, Apart DEF Stop, HoldInv, RolesInv, SoloInv, Launchers, LastOne, Reconnect
  <2> QED BY <2>1, <2>2
<1>8. \A k \in Kinds, i \in Holders : Has(k, i)' => Has(k, i)
  BY <1>1, <1>2, <1>4, Apart DEF Has, Opens
<1> QED BY <1>1, <1>5, <1>6, <1>7, <1>8, TokenStays DEF HoldInv, RolesInv

LEMMA StopCancelsHolds == ASSUME HoldInv, StopCancels PROVE RolesInv' /\ TokenInv'
<1>1. UNCHANGED <<mode, started, stopping, finished, connected, current, life, timer, delays>>
  BY DEF StopCancels, history, flags, link, retry, server
<1>2. stopping
  BY DEF StopCancels, HoldInv, RolesInv, UserInv, LastOne, Reconnect
<1>3. Home(User) = "idle"
  BY Apart DEF Home
<1>4. \A x \in Threads : /\ pc'[x] = IF x = User THEN "idle" ELSE pc[x]
                         /\ x # User => call'[x] = call[x] /\ ref'[x] = ref[x] /\ own'[x] = own[x]
  BY <1>3, Returning, Apart DEF StopCancels, HoldInv
<1>5. LaunchInv'
  BY <1>1, <1>2, <1>4, Apart DEF HoldInv, RolesInv, LaunchInv, Unasked, LastOne, Reconnect
<1>6. WorkInv'
  BY <1>1, <1>2, <1>4, Apart DEF HoldInv, RolesInv, WorkInv, LastOne, Reconnect
<1>7. UserInv' /\ LinkInv' /\ SoloInv'
  BY <1>1, <1>2, <1>4, Apart DEF HoldInv, RolesInv, UserInv, LinkInv, SoloInv, Launchers, LastOne, Reconnect
<1>8. \A k \in Kinds, i \in Holders : Has(k, i)' => Has(k, i)
  BY <1>1, <1>4, Apart DEF Has, Opens
<1> QED BY <1>1, <1>5, <1>6, <1>7, <1>8, TokenStays DEF HoldInv, RolesInv

\* The user begins to grant credit, where it may.
LEMMA UserReplenishesHolds ==
    ASSUME Orderly, HoldInv, UserReplenishes PROVE RolesInv' /\ TokenInv'
<1>1. UNCHANGED <<mode, started, stopping, finished, connected, current, life, cancelled, timer, delays>>
  BY DEF UserReplenishes, flags, link, retry, server, wire
<1>2. ~Reconnect
  BY DEF Orderly, UserReplenishes, MaxReplenishes, Reconnect, HoldInv, ShapeInv
<1>3. PICK l \in {"replenish", "fetch"} :
        /\ \A x \in Threads : pc'[x] = IF x = User THEN l ELSE pc[x]
        /\ \A x \in Threads \ {User} : call'[x] = call[x]
        /\ UNCHANGED <<ref, own>>
        /\ l = "fetch" => call'[User] = "user"
  <2>1. CASE Goto(User, "replenish")
    BY <2>1, Going, Apart DEF HoldInv
  <2>2. CASE \E count \in 1..NumRequested : Request(User, count, "user")
    BY <2>2, Requesting, Apart DEF HoldInv
  <2> QED BY <2>1, <2>2 DEF UserReplenishes
<1>4. LaunchInv'
  BY <1>1, <1>3, Apart DEF HoldInv, RolesInv, LaunchInv, Unasked, LastOne, Reconnect
<1>5. WorkInv'
  BY <1>1, <1>3, Apart DEF HoldInv, RolesInv, WorkInv, LastOne, Reconnect
<1>6. UserInv' /\ LinkInv' /\ SoloInv'
  BY <1>1, <1>2, <1>3, Apart DEF HoldInv, RolesInv, UserInv, LinkInv, SoloInv, Launchers, LastOne, Reconnect
<1>7. \A k \in Kinds, i \in Holders : Has(k, i)' => Has(k, i)
  BY <1>1, <1>3, Apart DEF Has, Opens
<1> QED BY <1>1, <1>4, <1>5, <1>6, <1>7, TokenStays DEF HoldInv, RolesInv

\* The world outside changes no thread; a stream it closes had its request, if it can
\* be reopened.
LEMMA OutsideHolds ==
    ASSUME Orderly, HoldInv,
           \/ Publish \/ UNCHANGED vars
           \/ \E s \in Streams : Respond(s) \/ StreamCloses(s) \/ BackstopDue(s)
    PROVE  RolesInv' /\ TokenInv'
<1>1. EarlyEnd => ~Reconnect
  BY DEF Orderly, EarlyEnd, Reconnect, HoldInv, ShapeInv
<1>2. /\ UNCHANGED <<mode, started, stopping, finished, connected, current, cancelled, delays>>
      /\ UNCHANGED <<pc, call, ref, own>>
  BY DEF Publish, history, Respond, StreamCloses, BackstopDue, vars, flags, link, retry, wire, locals
<1>3. \A x \in Streams :
        /\ \/ life'[x] = life[x]
           \/ life[x] = "asked" /\ life'[x] = "closed"
           \/ life[x] = "opened" /\ life'[x] = "closed" /\ ~Reconnect
        /\ timer'[x] # "off" => timer[x] # "off"
  BY <1>1 DEF Publish, Respond, StreamCloses, BackstopDue, vars, server, wire, HoldInv, ShapeInv
<1>4. LaunchInv'
  BY <1>2, <1>3 DEF HoldInv, RolesInv, LaunchInv, Unasked, LastOne, Reconnect
<1>5. WorkInv'
  BY <1>2, <1>3 DEF HoldInv, RolesInv, WorkInv, LastOne, Reconnect
<1>6. UserInv' /\ LinkInv' /\ SoloInv'
  BY <1>2, <1>3 DEF HoldInv, RolesInv, UserInv, LinkInv, SoloInv, Alive, LastOne, Reconnect
<1>7. \A k \in Kinds, i \in Holders : Has(k, i)' => Has(k, i)
  BY <1>2, <1>3 DEF Has, Alive
<1> QED BY <1>2, <1>4, <1>5, <1>6, <1>7, TokenStays DEF HoldInv, RolesInv

-----------------------------------------------------------------------------
\* The shapes

LocalsShape ==
    /\ pc \in [Threads -> Labels]
    /\ call \in [Threads -> {"none", "open", "top_up", "backstop", "user"}]
    /\ ref \in [Threads -> Streams \cup Delays \cup {None}]
    /\ own \in [Threads -> Streams \cup {None}]

SharedShape ==
    /\ mode \in Modes
    /\ {started, stopping, finished, connected} \subseteq BOOLEAN
    /\ replenishes \in Nat
    /\ current \in Streams \cup {None}
    /\ life \in [Streams -> {"unused", "opened", "asked", "closed", "ended"}]
    /\ cancelled \in [Streams -> BOOLEAN]
    /\ timer \in [Streams -> {"off", "armed", "due"}]
    /\ delays \in [Delays -> {"unused", "new", "waiting", "cancelled", "due", "aborted"}]

LEMMA Shapes == ShapeInv <=> LocalsShape /\ SharedShape
  BY DEF ShapeInv, LocalsShape, SharedShape

LEMMA LocalsKept ==
    ASSUME ShapeInv, NEW t \in Threads, NEW l \in Labels, NEW n,
           NEW why \in {"open", "top_up", "backstop", "user"},
           Goto(t, l) \/ Return(t) \/ Request(t, n, why)
    PROVE  LocalsShape'
<1>1. Home(t) \in Labels /\ "fetch" \in Labels
  BY DEF Home, Labels, Launching
<1> QED BY <1>1 DEF ShapeInv, LocalsShape, Goto, Return, Request

LEMMA CollapseShapes ==
    ASSUME ShapeInv, NEW s \in Streams, Collapse(s)
    PROVE  /\ LocalsShape'
           /\ life' \in [Streams -> {"unused", "opened", "asked", "closed", "ended"}]
           /\ cancelled' \in [Streams -> BOOLEAN]
           /\ timer' \in [Streams -> {"off", "armed", "due"}]
<1>1. Goto(s, "terminal") /\ "terminal" \in Labels /\ s \in Threads
  BY Apart DEF Collapse, Labels, Ends
<1>2. LocalsShape'
  BY <1>1, LocalsKept
<1> QED BY <1>2 DEF Collapse, ShapeInv

\* Every step keeps the shapes of the locals.
LEMMA StepLocals ==
    ASSUME ShapeInv, NEW t \in Threads, Step(t)
    PROVE  LocalsShape'
<1>1. LocalsShape
  BY Shapes
<1>2. CASE t \in Openers \cup {Starter} /\ Opening(t)
  <2>1. CASE ReconnectIntern(t)
    BY <2>1, LocalsKept DEF ReconnectIntern, Labels, Opens
  <2>2. CASE OpenStream(t)
    BY <2>2, LocalsKept DEF OpenStream, Labels, Opens
  <2>3. CASE BidiStream(t)
    <3>1. CASE OpenThrows(t)
      BY <3>1, LocalsKept DEF OpenThrows, Labels, Ends
    <3>2. CASE ~OpenThrows(t)
      BY <2>3, <3>2 DEF BidiStream, ShapeInv, LocalsShape, Labels, Launching
    <3> QED BY <3>1, <3>2
  <2>4. CASE PublishStream(t)
    BY <2>4, LocalsKept DEF PublishStream, Labels
  <2>5. CASE OpenCancels(t)
    BY <2>5, LocalsKept DEF OpenCancels, OpenThrows, Labels, Ends
  <2> QED BY <1>2, <2>1, <2>2, <2>3, <2>4, <2>5 DEF Opening
<1>3. CASE t \in Streams /\ Delivering(t)
  <2>1. CASE TakeResponse(t)
    BY <2>1 DEF TakeResponse, ShapeInv, LocalsShape, Labels, Working
  <2>2. CASE OnEvent(t)
    BY <1>3, <2>2, LocalsKept, CollapseShapes DEF OnEvent, CallbackThrows, Labels, Working
  <2>3. CASE Advance(t)
    <3>1. CASE Return(t)
      BY <3>1, LocalsKept DEF Labels
    <3>2. CASE ~Return(t)
      BY <2>3, <3>2 DEF Advance, ShapeInv, LocalsShape, Labels, Working
    <3> QED BY <3>1, <3>2
  <2>4. CASE Keepalive(t)
    BY <1>3, <2>4, LocalsKept, CollapseShapes DEF Keepalive, CallbackThrows, Labels, Working
  <2>5. CASE FlowControl(t)
    <3>1. CASE Return(t)
      BY <3>1, LocalsKept DEF Labels
    <3>2. CASE ~Return(t)
      BY <2>5, <3>2 DEF FlowControl, ShapeInv, LocalsShape, Labels, Working
    <3> QED BY <3>1, <3>2
  <2>6. CASE ArmBackstop(t)
    BY <2>6, LocalsKept DEF ArmBackstop, Labels, Working
  <2>7. CASE FlowControlBackstop(t)
    BY <1>1, <2>7, LocalsKept DEF FlowControlBackstop, locals, LocalsShape, Labels
  <2>8. CASE StreamTerminates(t)
    BY <1>3, <2>8, CollapseShapes DEF StreamTerminates
  <2> QED BY <1>3, <2>1, <2>2, <2>3, <2>4, <2>5, <2>6, <2>7, <2>8 DEF Delivering
<1>4. CASE t = User /\ StopCancels
  BY <1>4, LocalsKept DEF StopCancels, Labels
<1>5. CASE Replenish(t)
  BY <1>5, LocalsKept DEF Replenish, Labels
<1>6. CASE Fetch(t)
  <2>1. CASE Return(t)
    BY <2>1, LocalsKept DEF Labels
  <2>2. CASE ~Return(t)
    BY <1>6, <2>2 DEF Fetch, ShapeInv, LocalsShape, Labels, Launching
  <2> QED BY <2>1, <2>2
<1>7. CASE WriteSucceeds(t)
  BY <1>7, LocalsKept DEF WriteSucceeds, Labels, Working
<1>8. CASE WriteThrows(t)
  <2>1. CASE Collapse(t)
    BY <2>1, LocalsKept DEF Collapse, Labels, Ends
  <2>2. CASE ~Collapse(t)
    BY <1>8, <2>2, LocalsKept DEF WriteThrows, Labels
  <2> QED BY <2>1, <2>2
<1>9. CASE Book(t)
  BY <1>9, LocalsKept DEF Book, Labels
<1>10. CASE HandleTerminal(t)
  BY <1>10, LocalsKept DEF HandleTerminal, Labels, Ends
<1>11. CASE GiveUp(t)
  BY <1>11, LocalsKept DEF GiveUp, Labels
<1>12. CASE ScheduleReconnect(t)
  <2>1. CASE Return(t)
    BY <2>1, LocalsKept DEF Labels
  <2>2. CASE ~Return(t)
    BY <1>12, <2>2 DEF ScheduleReconnect, ShapeInv, LocalsShape, Labels, Ends
  <2> QED BY <2>1, <2>2
<1>13. CASE SubmitDelay(t)
  BY <1>13, LocalsKept DEF SubmitDelay, Labels, Ends
<1> QED BY <1>2, <1>3, <1>4, <1>5, <1>6, <1>7, <1>8, <1>9, <1>10, <1>11, <1>12, <1>13 DEF Step

\* Every step keeps the shapes of what the threads share.
LEMMA StepShared ==
    ASSUME ShapeInv, NEW t \in Threads, Step(t), pc[t] = "publish" => own[t] \in Streams
    PROVE  SharedShape'
<1>1. SharedShape
  BY Shapes
<1>2. CASE t \in Openers \cup {Starter} /\ Opening(t)
  <2>1. CASE ReconnectIntern(t)
    BY <1>1, <2>1 DEF ReconnectIntern, SharedShape, flags, link, retry, server, wire, history
  <2>2. CASE OpenStream(t)
    BY <1>1, <2>2 DEF OpenStream, SharedShape, flags, link, server, wire, history
  <2>3. CASE BidiStream(t)
    BY <1>1, <2>3 DEF BidiStream, SharedShape, flags, link, retry, wire, history
  <2>4. CASE PublishStream(t)
    <3>1. own[t] \in Streams
      BY <2>4 DEF PublishStream
    <3> QED BY <1>1, <2>4, <3>1
         DEF PublishStream, SharedShape, flags, retry, server, wire, history
  <2>5. CASE OpenCancels(t)
    BY <1>1, <2>5 DEF OpenCancels, SharedShape, flags, link, retry, server, history
  <2> QED BY <1>2, <2>1, <2>2, <2>3, <2>4, <2>5 DEF Opening
<1>3. CASE t \in Streams /\ Delivering(t)
  <2>1. CASE TakeResponse(t)
    BY <1>1, <2>1 DEF TakeResponse, SharedShape, flags, link, server, history
  <2>2. CASE OnEvent(t)
    <3>1. CASE Collapse(t)
      BY <1>1, <1>3, <2>2, <3>1, CollapseShapes
         DEF OnEvent, SharedShape, flags, link, retry, history
    <3>2. CASE UNCHANGED <<life, wire>>
      BY <1>1, <2>2, <3>2 DEF OnEvent, SharedShape, flags, link, retry, wire, history
    <3> QED BY <2>2, <3>1, <3>2 DEF OnEvent, CallbackThrows
  <2>3. CASE Advance(t)
    BY <1>1, <2>3 DEF Advance, SharedShape, flags, link, retry, server, wire, history
  <2>4. CASE Keepalive(t)
    <3>1. CASE Collapse(t)
      BY <1>1, <1>3, <2>4, <3>1, CollapseShapes
         DEF Keepalive, SharedShape, flags, link, retry, history
    <3>2. CASE UNCHANGED <<life, wire>>
      BY <1>1, <2>4, <3>2 DEF Keepalive, SharedShape, flags, link, retry, wire, history
    <3> QED BY <2>4, <3>1, <3>2 DEF Keepalive, CallbackThrows
  <2>5. CASE FlowControl(t)
    BY <1>1, <2>5 DEF FlowControl, SharedShape, flags, link, retry, server, wire, history
  <2>6. CASE ArmBackstop(t)
    BY <1>1, <2>6 DEF ArmBackstop, SharedShape, flags, link, retry, server, history
  <2>7. CASE FlowControlBackstop(t)
    BY <1>1, <2>7 DEF FlowControlBackstop, SharedShape, flags, link, retry, server, history
  <2>8. CASE StreamTerminates(t)
    BY <1>1, <1>3, <2>8, CollapseShapes
       DEF StreamTerminates, SharedShape, flags, link, retry, history
  <2> QED BY <1>3, <2>1, <2>2, <2>3, <2>4, <2>5, <2>6, <2>7, <2>8 DEF Delivering
<1>4. CASE t = User /\ StopCancels
  BY <1>1, <1>4 DEF StopCancels, SharedShape, flags, link, retry, server
<1>5. CASE Replenish(t)
  BY <1>1, <1>5 DEF Replenish, SharedShape, flags, link, retry, server, wire, history
<1>6. CASE Fetch(t)
  BY <1>1, <1>6 DEF Fetch, SharedShape, flags, link, retry, server, wire, history
<1>7. CASE WriteSucceeds(t)
  BY <1>1, <1>7 DEF WriteSucceeds, SharedShape, flags, link, retry, wire
<1>8. CASE WriteThrows(t)
  <2>1. CASE UNCHANGED <<life, wire>>
    BY <1>1, <1>8, <2>1 DEF WriteThrows, SharedShape, flags, link, retry, wire, history
  <2>2. CASE Collapse(t)
    BY <1>1, <1>8, <2>2
       DEF WriteThrows, Collapse, SharedShape, flags, link, retry, history
  <2> QED BY <1>8, <2>1, <2>2 DEF WriteThrows
<1>9. CASE Book(t)
  BY <1>1, <1>9 DEF Book, SharedShape, flags, link, retry, server, history
<1>10. CASE HandleTerminal(t)
  BY <1>1, <1>10 DEF HandleTerminal, SharedShape, server, wire, history
<1>11. CASE GiveUp(t)
  BY <1>1, <1>11 DEF GiveUp, SharedShape, flags, link, retry, server, wire, history
<1>12. CASE ScheduleReconnect(t)
  BY <1>1, <1>12 DEF ScheduleReconnect, SharedShape, flags, link, server, wire, history
<1>13. CASE SubmitDelay(t)
  BY <1>1, <1>13 DEF SubmitDelay, SharedShape, link, server, wire, history
<1> QED BY <1>2, <1>3, <1>4, <1>5, <1>6, <1>7, <1>8, <1>9, <1>10, <1>11, <1>12, <1>13 DEF Step

-----------------------------------------------------------------------------
\* What any step keeps of the shapes.
LEMMA NextShapes ==
    ASSUME ShapeInv, \A t \in Threads : pc[t] = "publish" => own[t] \in Streams, [Next]_vars
    PROVE  ShapeInv'
<1> SUFFICES LocalsShape' /\ SharedShape'
  BY DEF ShapeInv, LocalsShape, SharedShape
<1>1. CASE \E t \in Threads : Step(t)
  BY <1>1, StepLocals, StepShared
<1>2. CASE Start
  <2>1. LocalsShape'
    BY <1>2, LocalsKept, Apart DEF Start, Labels, Opens
  <2> QED BY <1>2, <2>1, Shapes DEF Start, SharedShape, link, retry, server, wire, history
<1>3. CASE Stop
  <2>1. LocalsShape'
    <3>1. "stopping" \in Labels
      BY DEF Labels
    <3> QED BY <1>3, <3>1 DEF Stop, ShapeInv, LocalsShape
  <2>2. delays' \in [Delays -> {"unused", "new", "waiting", "cancelled", "due", "aborted"}]
    BY <1>3 DEF Stop, ShapeInv
  <2> QED BY <1>3, <2>1, <2>2, Shapes DEF Stop, SharedShape, server, wire, history
<1>4. CASE UserReplenishes
  <2>1. LocalsShape'
    BY <1>4, LocalsKept, Apart DEF UserReplenishes, Labels, Working
  <2> QED BY <1>4, <2>1, Shapes DEF UserReplenishes, SharedShape, flags, link, retry, server, wire
<1>5. ASSUME NEW d \in Delays, DelayDue(d) \/ DelayAborted(d) \/ ReconnectNow(d)
      PROVE  LocalsShape' /\ SharedShape'
  <2>1. LocalsShape'
    <3>1. CASE UNCHANGED locals
      BY <3>1, Shapes DEF LocalsShape, locals
    <3>2. CASE \E o \in Openers : Goto(o, "intern")
      BY <3>2, LocalsKept DEF Labels, Opens, Threads
    <3> QED BY <1>5, <3>1, <3>2 DEF DelayDue, DelayAborted, ReconnectNow
  <2> QED BY <1>5, <2>1, Shapes
             DEF DelayDue, DelayAborted, ReconnectNow, SharedShape, flags, link, server, wire, history
<1>6. ASSUME \/ Publish \/ UNCHANGED vars
             \/ \E s \in Streams : Respond(s) \/ StreamCloses(s) \/ BackstopDue(s)
      PROVE  LocalsShape' /\ SharedShape'
  <2>1. LocalsShape'
    BY <1>6, Shapes DEF Publish, Respond, StreamCloses, BackstopDue, vars, locals, LocalsShape
  <2>2. CASE UNCHANGED vars
    BY <2>1, <2>2, Shapes DEF vars, flags, link, retry, server, wire, history, SharedShape
  <2>3. CASE Publish
    BY <2>1, <2>3, Shapes DEF Publish, flags, link, retry, wire, history, SharedShape
  <2>4. CASE \E s \in Streams : Respond(s) \/ StreamCloses(s) \/ BackstopDue(s)
    BY <2>1, <2>4, Shapes DEF Respond, StreamCloses, BackstopDue, flags, link, retry, server,
                              wire, history, SharedShape
  <2> QED BY <1>6, <2>2, <2>3, <2>4
<1> QED BY <1>1, <1>2, <1>3, <1>4, <1>5, <1>6 DEF Next

-----------------------------------------------------------------------------
\* What a step of a thread keeps of the roles and the token.
LEMMA StepHolds == ASSUME HoldInv, NEW t \in Threads, Step(t) PROVE RolesInv' /\ TokenInv'
<1>1. CASE t \in Openers \cup {Starter} /\ Opening(t)
  BY <1>1, ReconnectInternHolds, OpenStreamHolds, BidiStreamHolds, PublishStreamHolds,
     OpenCancelsHolds DEF Opening
<1>2. CASE t \in Streams /\ Delivering(t)
  BY <1>2, TakeResponseHolds, OnEventHolds, AdvanceHolds, KeepaliveHolds, FlowControlHolds,
     ArmBackstopHolds, FlowControlBackstopHolds, StreamTerminatesHolds DEF Delivering
<1> QED BY <1>1, <1>2, StopCancelsHolds, ReplenishHolds, FetchHolds, WriteSucceedsHolds,
           WriteThrowsHolds, BookHolds, HandleTerminalHolds, GiveUpHolds,
           ScheduleReconnectHolds, SubmitDelayHolds DEF Step

\* What any step keeps, where what is reopened is orderly.
LEMMA NextHolds == ASSUME Orderly, HoldInv, [Next]_vars PROVE HoldInv'
<1>1. ShapeInv'
  <2>1. \A t \in Threads : pc[t] = "publish" => own[t] \in Streams
    BY Whereabouts DEF HoldInv, RolesInv, LaunchInv, Unasked, Launching
  <2> QED BY <2>1, NextShapes DEF HoldInv
<1>2. RolesInv' /\ TokenInv'
  BY StepHolds, StartHolds, StopHolds, UserReplenishesHolds, DelayDueHolds, DelayAbortedHolds,
     ReconnectNowHolds, OutsideHolds DEF Next
<1> QED BY <1>1, <1>2 DEF HoldInv

LEMMA HoldInvariant == ASSUME Orderly PROVE Spec => []HoldInv
<1>1. Init => HoldInv
  BY InitHold
<1>2. HoldInv /\ [Next]_vars => HoldInv'
  BY NextHolds
<1> QED BY <1>1, <1>2, PTL DEF Spec

\* However its streams end and reconnects are scheduled, stopped and fail, the
\* subscription runs at most one stream (openStream(), handleTerminal(),
\* scheduleReconnect(), reconnectNow()).
THEOREM NeverTwoStreams == ASSUME Orderly PROVE Spec => []OneStream
<1>1. HoldInv => OneStream
  <2> SUFFICES ASSUME HoldInv, NEW s \in Streams, NEW t \in Streams, Live(s), Live(t)
               PROVE  s = t
    BY DEF OneStream
  <2>1. Has("stream", s) /\ Has("stream", t)
    BY DEF Has, Live, Alive
  <2> QED BY <2>1, Apart DEF HoldInv, TokenInv, Kinds
<1> QED BY <1>1, HoldInvariant, PTL

-----------------------------------------------------------------------------
\* Who has the stream that lives

\* The subscription has it; or, once it is stopped, the user that stops it; or the
\* thread that is opening it.
InHands(s) ==
    \/ ~stopping /\ current = s
    \/ stopping /\ pc[User] = "stopping" /\ ref[User] = s
    \/ \E o \in Launchers : pc[o] \in {"publish", "cancel"} /\ own[o] = s

HandsInv == \A s \in Streams : Live(s) => InHands(s)

\* A step that takes no stream in hand, and puts none down.
Steady(t) ==
    /\ pc[t] \notin {"publish", "cancel", "stopping"}
    /\ \A x \in Threads \ {t} : pc'[x] = pc[x] /\ ref'[x] = ref[x] /\ own'[x] = own[x]
    /\ UNCHANGED <<stopping, current, cancelled>>
    /\ \A s \in Streams : life'[s] \in Alive => life[s] \in Alive

LEMMA SteadyHands ==
    ASSUME HandsInv, NEW t \in Threads, Steady(t)
    PROVE  HandsInv'
<1> SUFFICES ASSUME NEW s \in Streams, Live(s)' PROVE InHands(s)'
  BY DEF HandsInv
<1>1. Live(s) /\ InHands(s)
  BY DEF Live, Steady, Alive, HandsInv
<1> QED BY <1>1, Apart DEF InHands, Steady

\* The threads that are left alone.
LEMMA OthersStay ==
    ASSUME ShapeInv, NEW t \in Threads, NEW l, NEW n, NEW why,
           Goto(t, l) \/ Return(t) \/ Request(t, n, why)
    PROVE  \A x \in Threads \ {t} : pc'[x] = pc[x] /\ ref'[x] = ref[x] /\ own'[x] = own[x]
  BY DEF Goto, Return, Request, ShapeInv

LEMMA CollapseSteady ==
    ASSUME ShapeInv, NEW s \in Streams, pc[s] \notin {"publish", "cancel", "stopping"},
           Collapse(s), UNCHANGED <<stopping, current>>
    PROVE  Steady(s)
<1>1. Goto(s, "terminal") /\ s \in Threads
  BY Apart DEF Collapse
<1>2. \A x \in Threads \ {s} : pc'[x] = pc[x] /\ ref'[x] = ref[x] /\ own'[x] = own[x]
  BY <1>1, OthersStay
<1>3. \A x \in Streams : life'[x] \in Alive => life[x] \in Alive
  BY DEF Collapse, ShapeInv, Alive
<1> QED BY <1>2, <1>3 DEF Collapse, Steady

\* What the worker of a stream does.
LEMMA DeliveringSteady ==
    ASSUME ShapeInv, NEW s \in Streams, Delivering(s)
    PROVE  Steady(s)
<1>0. s \in Threads
  BY Apart
<1>1. CASE TakeResponse(s)
  BY <1>0, <1>1 DEF TakeResponse, Steady, ShapeInv, flags, link, server, Alive
<1>2. CASE OnEvent(s)
  <2>1. CASE Collapse(s)
    BY <1>2, <2>1, CollapseSteady DEF OnEvent, flags, link
  <2>2. CASE Goto(s, "advance") /\ UNCHANGED <<life, wire>>
    BY <1>0, <1>2, <2>2, OthersStay DEF OnEvent, Steady, flags, link, wire
  <2> QED BY <1>2, <2>1, <2>2 DEF OnEvent, CallbackThrows
<1>3. CASE Advance(s)
  <2>1. \A x \in Threads \ {s} : pc'[x] = pc[x] /\ ref'[x] = ref[x] /\ own'[x] = own[x]
    <3>1. CASE Return(s)
      BY <1>0, <3>1, OthersStay
    <3>2. CASE ~Return(s)
      BY <1>3, <3>2 DEF Advance, ShapeInv
    <3> QED BY <3>1, <3>2
  <2> QED BY <1>3, <2>1 DEF Advance, Steady, flags, link, server, wire
<1>4. CASE Keepalive(s)
  <2>1. CASE Collapse(s)
    BY <1>4, <2>1, CollapseSteady DEF Keepalive, flags, link
  <2>2. CASE Goto(s, "flow") /\ UNCHANGED <<life, wire>>
    BY <1>0, <1>4, <2>2, OthersStay DEF Keepalive, Steady, flags, link, wire
  <2> QED BY <1>4, <2>1, <2>2 DEF Keepalive, CallbackThrows
<1>5. CASE FlowControl(s)
  <2>1. \A x \in Threads \ {s} : pc'[x] = pc[x] /\ ref'[x] = ref[x] /\ own'[x] = own[x]
    <3>1. CASE Return(s)
      BY <1>0, <3>1, OthersStay
    <3>2. CASE ~Return(s)
      BY <1>5, <3>2 DEF FlowControl, ShapeInv
    <3> QED BY <3>1, <3>2
  <2> QED BY <1>5, <2>1 DEF FlowControl, Steady, flags, link, server, wire
<1>6. CASE ArmBackstop(s)
  BY <1>0, <1>6, OthersStay DEF ArmBackstop, Steady, flags, link, server
<1>7. CASE FlowControlBackstop(s)
  <2>1. \A x \in Threads \ {s} : pc'[x] = pc[x] /\ ref'[x] = ref[x] /\ own'[x] = own[x]
    <3>1. CASE UNCHANGED locals
      BY <3>1 DEF locals
    <3>2. CASE ~UNCHANGED locals
      BY <1>0, <1>7, <3>2, OthersStay DEF FlowControlBackstop
    <3> QED BY <3>1, <3>2
  <2> QED BY <1>7, <2>1 DEF FlowControlBackstop, Steady, flags, link, server
<1>8. CASE StreamTerminates(s)
  BY <1>8, CollapseSteady DEF StreamTerminates, flags, link
<1> QED BY <1>1, <1>2, <1>3, <1>4, <1>5, <1>6, <1>7, <1>8 DEF Delivering

\* Requests, and what follows the end of a stream.
LEMMA OtherSteady ==
    ASSUME ShapeInv, NEW t \in Threads,
           \/ Replenish(t) \/ Fetch(t) \/ WriteSucceeds(t) \/ WriteThrows(t) \/ Book(t)
           \/ GiveUp(t) \/ ScheduleReconnect(t) \/ SubmitDelay(t),
           WriteThrows(t) /\ call[t] = "top_up" => t \in Streams
    PROVE  Steady(t)
<1>1. CASE Replenish(t)
  BY <1>1, OthersStay DEF Replenish, Steady, flags, link, server, wire
<1>2. CASE Fetch(t)
  <2>1. \A x \in Threads \ {t} : pc'[x] = pc[x] /\ ref'[x] = ref[x] /\ own'[x] = own[x]
    <3>1. CASE Return(t)
      BY <3>1, OthersStay
    <3>2. CASE ~Return(t)
      BY <1>2, <3>2 DEF Fetch, ShapeInv
    <3> QED BY <3>1, <3>2
  <2> QED BY <1>2, <2>1 DEF Fetch, Steady, flags, link, server, wire
<1>3. CASE WriteSucceeds(t)
  <2>1. \A x \in Threads \ {t} : pc'[x] = pc[x] /\ ref'[x] = ref[x] /\ own'[x] = own[x]
    BY <1>3, OthersStay DEF WriteSucceeds
  <2>2. \A s \in Streams : life'[s] \in Alive => life[s] \in Alive
    BY <1>3 DEF WriteSucceeds, ShapeInv, Alive
  <2> QED BY <1>3, <2>1, <2>2 DEF WriteSucceeds, Steady, flags, link, wire
<1>4. CASE WriteThrows(t)
  <2>1. CASE call[t] = "top_up"
    <3>1. t \in Streams
      BY <1>4, <2>1
    <3> QED BY <1>4, <2>1, <3>1, CollapseSteady DEF WriteThrows, flags, link
  <2>2. CASE call[t] # "top_up"
    BY <1>4, <2>2, OthersStay DEF WriteThrows, Steady, flags, link, wire
  <2> QED BY <2>1, <2>2
<1>5. CASE Book(t)
  BY <1>5, OthersStay DEF Book, Steady, flags, link, server
<1>6. CASE GiveUp(t)
  BY <1>6, OthersStay DEF GiveUp, Steady, flags, link, server, wire
<1>7. CASE ScheduleReconnect(t)
  <2>1. \A x \in Threads \ {t} : pc'[x] = pc[x] /\ ref'[x] = ref[x] /\ own'[x] = own[x]
    <3>1. CASE Return(t)
      BY <3>1, OthersStay
    <3>2. CASE ~Return(t)
      BY <1>7, <3>2 DEF ScheduleReconnect, ShapeInv
    <3> QED BY <3>1, <3>2
  <2> QED BY <1>7, <2>1 DEF ScheduleReconnect, Steady, flags, link, server, wire
<1>8. CASE SubmitDelay(t)
  BY <1>8, OthersStay DEF SubmitDelay, Steady, link, server, wire
<1> QED BY <1>1, <1>2, <1>3, <1>4, <1>5, <1>6, <1>7, <1>8

\* The steps that take a stream in hand, or put one down.
LEMMA OpeningHands ==
    ASSUME HoldInv, HandsInv, NEW o \in Launchers, Opening(o)
    PROVE  HandsInv'
<1>0. o \in Threads /\ o # User /\ ShapeInv /\ Home(o) = "idle"
  BY Apart, Whereabouts DEF HoldInv
<1>1. CASE ReconnectIntern(o)
  <2>1. Steady(o)
    BY <1>0, <1>1, OthersStay DEF ReconnectIntern, Steady, flags, link, server, wire
  <2> QED BY <1>0, <2>1, SteadyHands
<1>2. CASE OpenStream(o)
  <2>1. Steady(o)
    BY <1>0, <1>2, OthersStay DEF OpenStream, Steady, flags, link, server, wire
  <2> QED BY <1>0, <2>1, SteadyHands
<1>3. CASE BidiStream(o)
  <2>1. CASE OpenThrows(o) /\ UNCHANGED life
    <3>1. Steady(o)
      BY <1>0, <1>3, <2>1, OthersStay DEF BidiStream, OpenThrows, Steady, flags, link, wire
    <3> QED BY <1>0, <3>1, SteadyHands
  <2>2. CASE ~(OpenThrows(o) /\ UNCHANGED life)
    <3>1. PICK s \in Streams :
            /\ life' = [life EXCEPT ![s] = "opened"]
            /\ own' = [own EXCEPT ![o] = s] /\ UNCHANGED ref
            /\ pc' = [pc EXCEPT ![o] = "publish"]
      BY <1>3, <2>2 DEF BidiStream
    <3>2. /\ pc[o] = "bidi" /\ UNCHANGED <<stopping, current, cancelled>>
          /\ pc'[o] = "publish" /\ own'[o] = s
          /\ \A x \in Threads \ {o} : pc'[x] = pc[x] /\ ref'[x] = ref[x] /\ own'[x] = own[x]
          /\ \A x \in Streams \ {s} : life'[x] = life[x]
      BY <1>0, <1>3, <3>1 DEF BidiStream, ShapeInv, flags, link, wire
    <3>3. ASSUME NEW x \in Streams, x # s, Live(x)' PROVE InHands(x)'
      <4>1. Live(x) /\ InHands(x)
        BY <3>2, <3>3 DEF Live, HandsInv
      <4> QED BY <1>0, <3>2, <4>1, Apart DEF InHands
    <3>4. InHands(s)'
      BY <3>2 DEF InHands
    <3> QED BY <3>3, <3>4 DEF HandsInv
  <2> QED BY <2>1, <2>2
<1>4. CASE PublishStream(o)
  <2>1. /\ pc[o] = "publish" /\ current' = own[o] /\ own[o] \in Streams
        /\ UNCHANGED <<stopping, life, cancelled, ref, own>>
        /\ \A x \in Threads \ {o} : pc'[x] = pc[x]
        /\ stopping => pc'[o] = "cancel"
    BY <1>0, <1>4, Going, Requesting
       DEF PublishStream, flags, server, wire, HoldInv, RolesInv, LaunchInv, Unasked, Launching
  <2> SUFFICES ASSUME NEW s \in Streams, Live(s)' PROVE InHands(s)'
    BY DEF HandsInv
  <2>2. Live(s) /\ InHands(s)
    BY <2>1 DEF Live, HandsInv
  <2>3. CASE s = own[o]
    BY <1>0, <2>1, <2>3, Apart DEF InHands
  <2>4. CASE s # own[o] /\ stopping
    BY <1>0, <2>1, <2>2, <2>4, Apart DEF InHands
  <2>5. CASE s # own[o] /\ ~stopping
    <3>1. life[s] \in Alive /\ life[own[o]] # "unused"
      BY <1>0, <2>1, <2>2 DEF Live, Alive, HoldInv, RolesInv, LaunchInv, Unasked, Launching
    <3>2. CASE ~Reconnect
      BY <2>1, <2>5, <3>1, <3>2 DEF Alive, HoldInv, RolesInv, SoloInv
    <3>3. CASE Reconnect
      <4>1. life[own[o]] = "opened"
        BY <1>0, <2>1, <2>5, <3>3 DEF HoldInv, RolesInv, LaunchInv, Unasked, Launching, LastOne
      <4>2. Has("stream", s) /\ Has("stream", own[o])
        BY <2>1, <3>1, <4>1 DEF Has, Alive
      <4> QED BY <2>1, <2>5, <4>2, Apart DEF HoldInv, TokenInv, Kinds
    <3> QED BY <3>2, <3>3
  <2> QED BY <2>3, <2>4, <2>5
<1>5. CASE OpenCancels(o)
  <2>1. /\ pc[o] \in {"cancel", "undo"}
        /\ UNCHANGED <<stopping, current, life>>
        /\ \A x \in Threads \ {o} : pc'[x] = pc[x] /\ ref'[x] = ref[x] /\ own'[x] = own[x]
        /\ \A x \in Streams : cancelled'[x] = (cancelled[x] \/ x = own[o])
    BY <1>0, <1>5, OthersStay DEF OpenCancels, OpenThrows, ShapeInv, flags, link, server
  <2> SUFFICES ASSUME NEW s \in Streams, Live(s)' PROVE InHands(s)'
    BY DEF HandsInv
  <2>2. Live(s) /\ InHands(s) /\ s # own[o]
    BY <2>1 DEF Live, HandsInv
  <2> QED BY <1>0, <2>1, <2>2, Apart DEF InHands
<1> QED BY <1>1, <1>2, <1>3, <1>4, <1>5 DEF Opening

LEMMA HandleTerminalHands ==
    ASSUME HoldInv, HandsInv, NEW t \in Threads, HandleTerminal(t)
    PROVE  HandsInv'
<1>1. /\ pc[t] = "terminal" /\ UNCHANGED <<stopping, life, cancelled>>
      /\ \A x \in Threads \ {t} : pc'[x] = pc[x] /\ ref'[x] = ref[x] /\ own'[x] = own[x]
  BY OthersStay DEF HandleTerminal, server, wire, HoldInv
<1> SUFFICES ASSUME NEW s \in Streams, Live(s)' PROVE InHands(s)'
  BY DEF HandsInv
<1>2. Live(s) /\ InHands(s)
  BY <1>1 DEF Live, HandsInv
<1>3. stopping
  <2> SUFFICES ASSUME ~stopping PROVE FALSE
    OBVIOUS
  <2>1. Has("end", t) /\ Has("stream", s)
    BY <1>1, <1>2 DEF Has, Live, Alive
  <2> QED BY <2>1, Apart DEF HoldInv, TokenInv, Kinds
<1> QED BY <1>1, <1>2, <1>3, Whereabouts, Apart DEF InHands

LEMMA UserHands ==
    ASSUME HoldInv, HandsInv, Stop \/ StopCancels \/ UserReplenishes
    PROVE  HandsInv'
<1>0. User \in Threads /\ ShapeInv
  BY Apart DEF HoldInv
<1>1. CASE Stop
  <2>1. /\ pc[User] = "idle" /\ ~stopping /\ stopping' /\ UNCHANGED <<life, cancelled>>
        /\ pc'[User] = "stopping" /\ ref'[User] = current
        /\ \A x \in Threads \ {User} : pc'[x] = pc[x] /\ ref'[x] = ref[x] /\ own'[x] = own[x]
    BY <1>0, <1>1 DEF Stop, ShapeInv, server, wire
  <2> SUFFICES ASSUME NEW s \in Streams, Live(s)' PROVE InHands(s)'
    BY DEF HandsInv
  <2>2. Live(s) /\ InHands(s)
    BY <2>1 DEF Live, HandsInv
  <2> QED BY <2>1, <2>2, Apart DEF InHands
<1>2. CASE StopCancels
  <2>1. /\ pc[User] = "stopping" /\ UNCHANGED <<stopping, current, life>>
        /\ \A x \in Threads \ {User} : pc'[x] = pc[x] /\ ref'[x] = ref[x] /\ own'[x] = own[x]
        /\ \A x \in Streams : cancelled'[x] = (cancelled[x] \/ x = ref[User])
    <3>1. \A x \in Streams : cancelled'[x] = (cancelled[x] \/ x = ref[User])
      BY <1>0, <1>2, IdentitiesAssumption DEF StopCancels, ShapeInv
    <3> QED BY <1>0, <1>2, <3>1, OthersStay DEF StopCancels, flags, link, server
  <2>2. stopping
    BY <2>1 DEF HoldInv, RolesInv, UserInv
  <2> SUFFICES ASSUME NEW s \in Streams, Live(s)' PROVE InHands(s)'
    BY DEF HandsInv
  <2>3. Live(s) /\ InHands(s) /\ s # ref[User]
    BY <2>1 DEF Live, HandsInv
  <2> QED BY <2>1, <2>2, <2>3, Apart DEF InHands
<1>3. CASE UserReplenishes
  <2>1. Steady(User)
    BY <1>0, <1>3, OthersStay DEF UserReplenishes, Steady, flags, link, server, wire
  <2> QED BY <1>0, <2>1, SteadyHands
<1> QED BY <1>1, <1>2, <1>3

LEMMA OutsideHands ==
    ASSUME HoldInv, HandsInv,
           \/ Start \/ Publish \/ UNCHANGED vars
           \/ \E d \in Delays : DelayDue(d) \/ DelayAborted(d) \/ ReconnectNow(d)
           \/ \E s \in Streams : Respond(s) \/ StreamCloses(s) \/ BackstopDue(s)
    PROVE  HandsInv'
<1>1. CASE UNCHANGED <<pc, ref, own>>
  <2>1. UNCHANGED <<stopping, current, cancelled>>
    BY <1>1, Apart DEF Start, Publish, DelayDue, DelayAborted, ReconnectNow, Respond, StreamCloses, BackstopDue,
                vars, flags, link, wire
  <2>2. \A s \in Streams : life'[s] \in Alive => life[s] \in Alive
    BY DEF Start, Publish, DelayDue, DelayAborted, ReconnectNow, Respond, StreamCloses, BackstopDue,
           vars, server, HoldInv, ShapeInv, Alive
  <2>3. \A s \in Streams : Live(s)' => Live(s)
    BY <2>1, <2>2 DEF Live, Alive
  <2> QED BY <1>1, <2>1, <2>3 DEF HandsInv, InHands
<1>2. CASE Start
  <2>1. Steady(Starter) /\ Starter \in Threads
    BY <1>2, OthersStay, Apart DEF Start, Steady, HoldInv, link, server, wire
  <2> QED BY <2>1, SteadyHands
<1>3. ASSUME NEW d \in Delays, ReconnectNow(d), ~UNCHANGED <<pc, ref, own>>
      PROVE  HandsInv'
  <2>1. PICK o \in Openers : pc[o] = "idle" /\ Goto(o, "intern")
    BY <1>3 DEF ReconnectNow, locals
  <2>2. Steady(o) /\ o \in Threads
    BY <1>3, <2>1, OthersStay, Apart DEF ReconnectNow, Steady, HoldInv, Launchers, flags, link, server, wire
  <2> QED BY <2>2, SteadyHands
<1>4. Start \/ (\E d \in Delays : ReconnectNow(d)) \/ UNCHANGED <<pc, ref, own>>
  BY DEF Publish, DelayDue, DelayAborted, Respond, StreamCloses, BackstopDue, vars, locals
<1> QED BY <1>1, <1>2, <1>3, <1>4

LEMMA NextHands == ASSUME HoldInv, HandsInv, [Next]_vars PROVE HandsInv'
<1>1. ASSUME NEW t \in Threads, Step(t) PROVE HandsInv'
  <2>1. CASE t \in Openers \cup {Starter} /\ Opening(t)
    BY <2>1, OpeningHands DEF Launchers
  <2>2. CASE t \in Streams /\ Delivering(t)
    BY <2>2, DeliveringSteady, SteadyHands DEF HoldInv
  <2>3. CASE (t = User /\ StopCancels) \/ HandleTerminal(t)
    BY <2>3, UserHands, HandleTerminalHands
  <2>4. WriteThrows(t) /\ call[t] = "top_up" => t \in Streams
    BY Whereabouts DEF WriteThrows, HoldInv, RolesInv, LaunchInv, Unasked, UserInv
  <2> QED BY <1>1, <2>1, <2>2, <2>3, <2>4, OtherSteady, SteadyHands DEF Step, HoldInv
<1> QED BY <1>1, UserHands, OutsideHands DEF Next

\* When stop() is called in the middle of anything, a stream that is still alive is the
\* one stop() is about to cancel, or one a thread is opening that will see the stop:
\* none is lost to both (stop(), openStream()).
THEOREM StopLosesNoStream == ASSUME Orderly PROVE Spec => []StopHasTheStream
<1>1. Init => HandsInv
  <2> SUFFICES ASSUME Init, NEW s \in Streams PROVE ~Live(s)
    BY DEF HandsInv
  <2> QED BY DEF Init, Live
<1>2. HoldInv /\ HoldInv' /\ HandsInv /\ [Next]_vars => HandsInv'
  BY NextHands
<1>3. HandsInv => StopHasTheStream
  BY DEF HandsInv, InHands, StopHasTheStream, Launchers
<1> QED BY <1>1, <1>2, <1>3, HoldInvariant, PTL DEF Spec

-----------------------------------------------------------------------------
\* Nothing is left once the subscription gave up

\* A delay that is not armed yet is about to be submitted.
NewInv == \A d \in Delays : delays[d] = "new" => \E t \in Threads : pc[t] = "submit" /\ ref[t] = d

\* A step that leaves the threads alone that submit, and makes no new delay.
LEMMA NewStays ==
    ASSUME NewInv,
           \A x \in Threads : pc[x] = "submit" => pc'[x] = pc[x] /\ ref'[x] = ref[x],
           \A d \in Delays : delays'[d] = "new" => delays[d] = "new"
    PROVE  NewInv'
  BY DEF NewInv

\* A step of one thread that submits nothing.
LEMMA NewSteady ==
    ASSUME NewInv, NEW t \in Threads, pc[t] # "submit",
           \A x \in Threads \ {t} : pc'[x] = pc[x] /\ ref'[x] = ref[x],
           \A d \in Delays : delays'[d] = "new" => delays[d] = "new"
    PROVE  NewInv'
  BY NewStays

LEMMA OpeningNew ==
    ASSUME ShapeInv, NewInv, NEW o \in Threads, Opening(o)
    PROVE  NewInv'
<1>1. UNCHANGED delays /\ pc[o] # "submit"
  BY DEF Opening, ReconnectIntern, OpenStream, BidiStream, PublishStream, OpenCancels, retry
<1>2. \A x \in Threads \ {o} : pc'[x] = pc[x] /\ ref'[x] = ref[x]
  <2>1. CASE ReconnectIntern(o)
    BY <2>1, OthersStay DEF ReconnectIntern
  <2>2. CASE OpenStream(o)
    BY <2>2, OthersStay DEF OpenStream
  <2>3. CASE BidiStream(o)
    BY <2>3, OthersStay DEF BidiStream, OpenThrows, ShapeInv
  <2>4. CASE PublishStream(o)
    BY <2>4, OthersStay DEF PublishStream
  <2>5. CASE OpenCancels(o)
    BY <2>5, OthersStay DEF OpenCancels, OpenThrows
  <2> QED BY <2>1, <2>2, <2>3, <2>4, <2>5 DEF Opening
<1> QED BY <1>1, <1>2, NewSteady

LEMMA DeliveringNew ==
    ASSUME ShapeInv, NewInv, NEW s \in Streams, Delivering(s)
    PROVE  NewInv'
<1>1. UNCHANGED delays /\ pc[s] # "submit" /\ s \in Threads
  BY Apart DEF Delivering, TakeResponse, OnEvent, Advance, Keepalive, FlowControl, ArmBackstop,
               FlowControlBackstop, StreamTerminates, retry
<1> QED BY <1>1, DeliveringSteady, NewSteady DEF Steady

LEMMA EndingNew ==
    ASSUME ShapeInv, NewInv, NEW t \in Threads, ScheduleReconnect(t) \/ SubmitDelay(t)
    PROVE  NewInv'
<1>1. \A x \in Threads \ {t} : pc'[x] = pc[x] /\ ref'[x] = ref[x]
  <2>1. ~WriteThrows(t)
    BY DEF ScheduleReconnect, SubmitDelay, WriteThrows
  <2> QED BY <2>1, OtherSteady DEF Steady
<1>2. CASE ScheduleReconnect(t)
  <2>1. CASE stopping \/ finished
    BY <1>1, <1>2, <2>1, NewSteady DEF ScheduleReconnect
  <2>2. CASE ~(stopping \/ finished)
    <3>1. PICK e \in Delays : /\ delays' = [delays EXCEPT ![e] = "new"]
                              /\ ref' = [ref EXCEPT ![t] = e]
                              /\ pc' = [pc EXCEPT ![t] = "submit"] /\ pc[t] = "schedule"
      BY <1>2, <2>2 DEF ScheduleReconnect
    <3>2. pc'[t] = "submit" /\ ref'[t] = e
      BY <3>1 DEF ShapeInv
    <3>3. \A d \in Delays : delays'[d] = "new" => d = e \/ delays[d] = "new"
      BY <3>1 DEF ShapeInv
    <3> QED BY <1>1, <3>1, <3>2, <3>3 DEF NewInv
  <2> QED BY <2>1, <2>2
<1>3. CASE SubmitDelay(t)
  <2>1. \A d \in Delays : delays'[d] = "new" => delays[d] = "new" /\ d # ref[t]
    BY <1>3 DEF SubmitDelay, ShapeInv
  <2> QED BY <1>1, <2>1 DEF NewInv
<1> QED BY <1>2, <1>3

LEMMA StepNew == ASSUME HoldInv, NewInv, NEW t \in Threads, Step(t) PROVE NewInv'
<1>1. CASE t \in Openers \cup {Starter} /\ Opening(t)
  BY <1>1, OpeningNew DEF HoldInv
<1>2. CASE t \in Streams /\ Delivering(t)
  BY <1>2, DeliveringNew DEF HoldInv
<1>3. CASE (t = User /\ StopCancels) \/ HandleTerminal(t)
  <2>1. \A x \in Threads \ {t} : pc'[x] = pc[x] /\ ref'[x] = ref[x]
    BY <1>3, OthersStay DEF StopCancels, HandleTerminal, HoldInv
  <2> QED BY <1>3, <2>1, NewSteady DEF StopCancels, HandleTerminal, retry
<1>4. CASE Replenish(t) \/ Fetch(t) \/ WriteSucceeds(t) \/ WriteThrows(t) \/ Book(t) \/ GiveUp(t)
  <2>1. WriteThrows(t) /\ call[t] = "top_up" => t \in Streams
    BY Whereabouts DEF WriteThrows, HoldInv, RolesInv, LaunchInv, UserInv
  <2>2. Steady(t)
    BY <1>4, <2>1, OtherSteady DEF HoldInv
  <2>3. UNCHANGED delays /\ pc[t] # "submit"
    BY <1>4 DEF Replenish, Fetch, WriteSucceeds, WriteThrows, Book, GiveUp, retry
  <2> QED BY <2>2, <2>3, NewSteady DEF Steady
<1>5. CASE ScheduleReconnect(t) \/ SubmitDelay(t)
  BY <1>5, EndingNew DEF HoldInv
<1> QED BY <1>1, <1>2, <1>3, <1>4, <1>5 DEF Step

LEMMA NextNew == ASSUME HoldInv, NewInv, [Next]_vars PROVE NewInv'
<1>1. CASE \E t \in Threads : Step(t)
  BY <1>1, StepNew
<1>2. CASE Start \/ UserReplenishes
  <2>1. \A x \in Threads \ {Starter, User} : pc'[x] = pc[x] /\ ref'[x] = ref[x]
    BY <1>2, OthersStay, Apart DEF Start, UserReplenishes, HoldInv
  <2>2. pc[Starter] = "submit" \/ pc[User] = "submit" => FALSE
    BY <1>2 DEF Start, UserReplenishes, HoldInv, RolesInv, UserInv
  <2> QED BY <1>2, <2>1, <2>2, NewStays DEF Start, UserReplenishes, retry
<1>3. CASE Stop
  <2>1. \A x \in Threads : pc[x] = "submit" => pc'[x] = pc[x] /\ ref'[x] = ref[x]
    BY <1>3 DEF Stop, HoldInv, ShapeInv
  <2>2. \A d \in Delays : delays'[d] = "new" => delays[d] = "new"
    BY <1>3 DEF Stop
  <2> QED BY <2>1, <2>2, NewStays
<1>4. ASSUME NEW d \in Delays, DelayDue(d) \/ DelayAborted(d) \/ ReconnectNow(d)
      PROVE  NewInv'
  <2>1. \A e \in Delays : delays'[e] = "new" => delays[e] = "new"
    BY <1>4 DEF DelayDue, DelayAborted, ReconnectNow, HoldInv, ShapeInv
  <2>2. CASE UNCHANGED locals
    BY <2>1, <2>2, NewStays DEF locals
  <2>3. CASE \E o \in Openers : pc[o] = "idle" /\ Goto(o, "intern")
    BY <2>1, <2>3, OthersStay, NewSteady, Apart DEF HoldInv, Launchers
  <2> QED BY <1>4, <2>2, <2>3 DEF DelayDue, DelayAborted, ReconnectNow
<1>5. CASE \/ Publish \/ UNCHANGED vars
           \/ \E s \in Streams : Respond(s) \/ StreamCloses(s) \/ BackstopDue(s)
  <2>1. UNCHANGED <<pc, ref, delays>>
    BY <1>5 DEF Publish, Respond, StreamCloses, BackstopDue, vars, retry, locals
  <2> QED BY <2>1 DEF NewInv
<1> QED BY <1>1, <1>2, <1>3, <1>4, <1>5 DEF Next

\* A subscription that gave up, over the budget of attempts, because it does not
\* reconnect, or because the delay could not be submitted, has no stream, no thread
\* that would open one or submit a delay, and no delay that will come due
\* (handleTerminal(), scheduleReconnect(), reconnectNow(), deliverError()).
THEOREM QuietWhenGivenUp == ASSUME Orderly PROVE Spec => []GivenUpIsQuiet
<1>1. Init => NewInv
  BY DEF Init, NewInv
<1>2. HoldInv /\ NewInv /\ [Next]_vars => NewInv'
  BY NextNew
<1>3. HoldInv /\ NewInv => GivenUpIsQuiet
  <2> SUFFICES ASSUME HoldInv, NewInv, finished PROVE GivenUpIsQuiet
    BY DEF GivenUpIsQuiet
  <2>1. \A k \in Kinds, i \in Holders : ~Has(k, i)
    BY DEF HoldInv, TokenInv
  <2>2. \A s \in Streams : ~Live(s)
    BY <2>1, Apart DEF Kinds, Has, Live, Alive
  <2>3. \A t \in Threads : pc[t] \notin {"intern", "open", "bidi", "submit"}
    BY <2>1, Apart DEF Kinds, Has, Opens
  <2>4. \A d \in Delays : delays[d] \notin Pending
    BY <2>1, <2>3, Apart DEF Kinds, Has, NewInv, Pending
  <2> QED BY <2>2, <2>3, <2>4 DEF GivenUpIsQuiet
<1> QED BY <1>1, <1>2, <1>3, HoldInvariant, PTL DEF Spec

=============================================================================
