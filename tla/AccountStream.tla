--------------------------- MODULE AccountStream ---------------------------
(***************************************************************************)
(* A subscription of subscribeAccountEvents (client.ts): openStream's      *)
(* chain of connections, each attempted after the one before it is gone,   *)
(* and the event id the next one resumes from.  Handlers run one at a time *)
(* on the JavaScript thread; connect() gives way where it awaits buildUrl. *)
(*                                                                         *)
(* A connection attempt has a number.  It waits for its timer              *)
(* ("scheduled"), for buildUrl ("building"), for the handshake             *)
(* ("connecting"), is "open", and is "gone" in the end; a socket that      *)
(* unsubscribe() closed is "closing" until its close event.  The length of *)
(* the backoff is left out: nothing here depends on how long a timer runs. *)
(***************************************************************************)
EXTENDS Naturals, Sequences

CONSTANTS
  MaxEvents,        \* bound: account events in a behaviour
  MaxFaults,        \* bound: failed attempts and lost connections
  WebSocketDefined  \* whether `new WebSocket(url)` exists on the platform

ASSUME MaxEventsAssumption == MaxEvents \in Nat
ASSUME MaxFaultsAssumption == MaxFaults \in Nat
ASSUME PlatformAssumption == WebSocketDefined \in BOOLEAN

VARIABLES
  closed,     \* `closed`
  ws,         \* `ws`: the attempt whose socket it holds, 0 for null
  timer,      \* `timer`: the attempt it was set for, 0 for null
  afterId,    \* `afterId`
  conn,       \* the state of each attempt
  sent,       \* the after_id in the URL of each attempt, 0 for none
  signed,     \* the after_id each attempt signed
  upNext,     \* the event each socket's gateway session sends next
  faults,     \* faults so far
  emitted,    \* the account's events so far are 1..emitted
  delivered   \* the ids of the events handed to onEvent

streamVars == <<closed, ws, timer, afterId>>
urlVars == <<sent, signed>>
feedVars == <<emitted, delivered>>
vars == <<streamVars, conn, urlVars, upNext, faults, feedVars>>

Attempts == 1..(MaxFaults + 1)
Sockets == {"connecting", "open"}
Live == Sockets \cup {"scheduled", "building"}

\* openStream ends with `void connect()`, which runs up to the await of buildUrl.
Init ==
  /\ closed = FALSE
  /\ ws = 0 /\ timer = 0 /\ afterId = 0
  /\ conn = [i \in Attempts |-> IF i = 1 THEN "building" ELSE "unused"]
  /\ sent = [i \in Attempts |-> 0]
  /\ signed = [i \in Attempts |-> 0]
  /\ upNext = [i \in Attempts |-> 0]
  /\ faults = 0
  /\ emitted = 0 /\ delivered = << >>

\* connect(), up to its await: buildUrl has put after_id into the URL.
TimerFires(i) ==
  /\ conn[i] = "scheduled"
  /\ IF closed
       THEN /\ conn' = [conn EXCEPT ![i] = "gone"]
            /\ UNCHANGED sent
       ELSE /\ conn' = [conn EXCEPT ![i] = "building"]
            /\ sent' = [sent EXCEPT ![i] = afterId]
  /\ UNCHANGED <<streamVars, signed, upNext, faults, feedVars>>

\* scheduleReconnect() once attempt i has come to nothing.
Reschedule(i) ==
  IF closed
    THEN /\ conn' = [conn EXCEPT ![i] = "gone"]
         /\ UNCHANGED timer
    ELSE \E j \in Attempts :
           /\ conn[j] = "unused"
           /\ \A k \in 1..(j - 1) : conn[k] # "unused"
           /\ conn' = [conn EXCEPT ![i] = "gone", ![j] = "scheduled"]
           /\ timer' = j

Fault == faults < MaxFaults /\ faults' = faults + 1

BuildFailsForGood(i) ==
  /\ conn[i] = "building"
  /\ Fault
  /\ conn' = [conn EXCEPT ![i] = "gone"]
  /\ UNCHANGED <<streamVars, urlVars, upNext, feedVars>>

\* buildUrl rejects: resolveChainId() could not reach the gateway.
BuildFails(i) ==
  /\ conn[i] = "building"
  /\ Fault
  /\ Reschedule(i)
  /\ UNCHANGED <<closed, ws, afterId, urlVars, upNext, feedVars>>

BuildSucceedsUnchecked(i) ==
  /\ conn[i] = "building"
  /\ signed' = [signed EXCEPT ![i] = afterId]
  /\ conn' = [conn EXCEPT ![i] = "connecting"]
  /\ ws' = i
  /\ UNCHANGED <<closed, timer, afterId, sent, upNext, faults, feedVars>>

\* buildUrl has signed; a stream that is still wanted gets its socket.  Where
\* the constructor throws, connect() rejects and nobody looks at the rejection.
BuildSucceeds(i) ==
  /\ conn[i] = "building"
  /\ signed' = [signed EXCEPT ![i] = afterId]
  /\ IF closed \/ ~WebSocketDefined
       THEN /\ conn' = [conn EXCEPT ![i] = "gone"]
            /\ UNCHANGED ws
       ELSE /\ conn' = [conn EXCEPT ![i] = "connecting"]
            /\ ws' = i
  /\ UNCHANGED <<closed, timer, afterId, sent, upNext, faults, feedVars>>

\* The gateway accepts a URL whose after_id is the signed one.  It replays what follows
\* after_id, and without one it sends what happens from now on.
Opens(i) ==
  /\ conn[i] = "connecting"
  /\ sent[i] = signed[i]
  /\ conn' = [conn EXCEPT ![i] = "open"]
  /\ upNext' = [upNext EXCEPT ![i] =
                  IF sent[i] > 0 THEN sent[i] + 1 ELSE emitted + 1]
  /\ UNCHANGED <<streamVars, urlVars, faults, feedVars>>

MessageNotRemembered(i) ==
  /\ conn[i] = "open"
  /\ upNext[i] <= emitted
  /\ delivered' = Append(delivered, upNext[i])
  /\ upNext' = [upNext EXCEPT ![i] = @ + 1]
  /\ UNCHANGED <<streamVars, conn, urlVars, faults, emitted>>

\* onmessage with an event frame.  (The snapshot, and any frame without an
\* event_id, goes to onEvent too and changes nothing here.)
Message(i) ==
  /\ conn[i] = "open"
  /\ upNext[i] <= emitted
  /\ afterId' = IF upNext[i] > afterId THEN upNext[i] ELSE afterId
  /\ delivered' = Append(delivered, upNext[i])
  /\ upNext' = [upNext EXCEPT ![i] = @ + 1]
  /\ UNCHANGED <<closed, ws, timer, conn, urlVars, faults, emitted>>

ErrorReconnects(i) ==
  \/ /\ conn[i] \in Sockets
     /\ Fault
     /\ \E j \in Attempts :
          /\ conn[j] = "unused"
          /\ conn' = [conn EXCEPT ![j] = "scheduled"]
          /\ timer' = j
     /\ UNCHANGED <<closed, ws, afterId, urlVars, upNext, feedVars>>
  \/ /\ conn[i] \in Sockets
     /\ conn' = [conn EXCEPT ![i] = "gone"]
     /\ ws' = 0
     /\ UNCHANGED <<closed, timer, afterId, urlVars, upNext, faults, feedVars>>

\* The connection fails or is lost: onerror, if it comes, only reports; onclose
\* forgets the socket and reconnects.
Lost(i) ==
  /\ conn[i] \in Sockets
  /\ Fault
  /\ Reschedule(i)
  /\ ws' = 0
  /\ UNCHANGED <<closed, afterId, urlVars, upNext, feedVars>>

\* The close event of a socket that unsubscribe() closed.
CloseDone(i) ==
  /\ conn[i] = "closing"
  /\ Reschedule(i)
  /\ ws' = 0
  /\ UNCHANGED <<closed, afterId, urlVars, upNext, faults, feedVars>>

\* unsubscribe(), or disconnect(), or either from inside onEvent.
Unsubscribe ==
  /\ closed' = TRUE
  /\ conn' = [i \in Attempts |->
                IF i = timer /\ conn[i] = "scheduled" THEN "gone"
                ELSE IF i = ws /\ conn[i] \in Sockets THEN "closing"
                ELSE conn[i]]
  /\ timer' = 0
  /\ ws' = 0
  /\ UNCHANGED <<afterId, urlVars, upNext, faults, feedVars>>

\* The engine emits an event for the account.
Emit ==
  /\ emitted < MaxEvents
  /\ emitted' = emitted + 1
  /\ UNCHANGED <<streamVars, conn, urlVars, upNext, faults, delivered>>

Progress(i) ==
  TimerFires(i) \/ BuildSucceeds(i) \/ Opens(i) \/ Message(i) \/ CloseDone(i)

Next ==
  \/ \E i \in Attempts : Progress(i) \/ BuildFails(i) \/ Lost(i)
  \/ Unsubscribe
  \/ Emit

\* Timers fire, buildUrl settles, the gateway answers and sends what it has, and
\* a close() ends in a close event.  No connection has to be lost.
Fairness == \A i \in Attempts : WF_vars(Progress(i))

Spec == Init /\ [][Next]_vars /\ Fairness

-----------------------------------------------------------------------------

\* Reconnecting never forks: one attempt at a time, and it is the one `ws` or
\* `timer` holds, so that unsubscribe() reaches it (client.ts:1734-1735, 1766-1782).
OneAttempt ==
  \A i \in Attempts :
    conn[i] \in Live =>
      /\ \A j \in Attempts : conn[j] \in Live => i = j
      /\ conn[i] \in Sockets => ws = i
      /\ conn[i] = "scheduled" => timer = i

\* "The stream keeps reconnecting" (client.ts:1804-1805): until it is closed there
\* is a connection, or an attempt to make one.
StreamIsAlive == closed \/ \E i \in Attempts : conn[i] \in Live

\* After unsubscribe() no event is handed over and no socket is opened, not even
\* by a connect() that was awaiting buildUrl (client.ts:1757-1758, 1772-1783).
SilentAfterUnsubscribe ==
  [][closed => /\ delivered' = delivered
               /\ \A i \in Attempts : conn'[i] \in Sockets => conn[i] = conn'[i]]_vars

\* Once the first event came, each later one is handed over or the stream closed,
\* whatever connections are lost meanwhile (client.ts:1621-1623).  It needs the after_id
\* in each URL to be the one signed after an await (client.ts:1637-1638, 1643-1655).
CatchesUp ==
  \A e \in 1..MaxEvents :
    (delivered # << >> /\ emitted >= e)
      ~> (closed \/ \E i \in DOMAIN delivered : delivered[i] >= e)

Feed == INSTANCE EventFeed

\* No gap, no duplicate, no reordering across reconnects, from the first event handed
\* over (client.ts:1619-1623).
ImplementsFeed == Feed!Spec
=============================================================================
