--------------------------- MODULE PyEventStream ---------------------------
(***************************************************************************)
(* The Python AccountEventStream (streams.py): a thread that iterates over *)
(* the stream, in _run() and in the body of its own for loop, and another  *)
(* thread that calls close().  They share _closed and _ws without a lock;  *)
(* a step is what one thread does between two reads or writes of those.    *)
(***************************************************************************)
EXTENDS Naturals, Sequences

CONSTANTS
  MaxEvents,     \* bound: account events in a behaviour
  MaxConnects,   \* bound: connections the gateway accepts
  MaxAttempts    \* reconnect_attempts

ASSUME MaxEventsAssumption == MaxEvents \in Nat
ASSUME MaxConnectsAssumption == MaxConnects \in Nat
ASSUME MaxAttemptsAssumption == MaxAttempts \in Nat

VARIABLES
  pc,        \* where the iterating thread is in _run()
  closer,    \* where the closing thread is in close()
  closed,    \* self._closed
  ws,        \* self._ws: a connection's number, 0 for None
  current,   \* the connection `for raw in self._ws` iterates over
  lastId,    \* self._last_event_id, 0 for None
  attempt,   \* `attempt`: failures since the last connection
  socket,    \* the state of each connection
  accepted,  \* connections the gateway has accepted
  upNext,    \* the event each connection's gateway session sends next
  frame,     \* the event received last
  late,      \* history: events yielded although close() had set _closed
  racing,    \* history: whether close() found _run() inside _connect()
  emitted,   \* the account's events so far are 1..emitted
  delivered  \* the ids of the events yielded

streamVars == <<closed, ws, lastId>>
gatewayVars == <<socket, accepted, upNext, emitted>>
historyVars == <<late, racing, delivered>>
vars == <<pc, closer, streamVars, current, attempt, frame, gatewayVars, historyVars>>

Connections == 1..MaxConnects

Init ==
  /\ pc = "head" /\ closer = "idle"
  /\ closed = FALSE
  /\ ws = 0 /\ current = 0
  /\ lastId = 0
  /\ attempt = 0
  /\ socket = [i \in Connections |-> "none"]
  /\ accepted = 0
  /\ upNext = [i \in Connections |-> 0]
  /\ frame = 0
  /\ late = 0 /\ racing = FALSE
  /\ emitted = 0 /\ delivered = << >>

-----------------------------------------------------------------------------
\* The iterating thread.

\* `while not self._closed`, and into ws_client.connect().
TestClosed ==
  /\ pc = "head"
  /\ pc' = IF closed THEN "done" ELSE "connecting"
  /\ UNCHANGED <<closer, streamVars, current, attempt, frame, gatewayVars, historyVars>>

\* The gateway accepts: it replays what follows after_id, and without one it
\* sends what happens from now on.  Then `self._ws = ...` and the resets.
Connected ==
  /\ pc = "connecting"
  /\ accepted < MaxConnects
  /\ accepted' = accepted + 1
  /\ socket' = [socket EXCEPT ![accepted'] = "open"]
  /\ upNext' = [upNext EXCEPT ![accepted'] =
                  IF lastId > 0 THEN lastId + 1 ELSE emitted + 1]
  /\ ws' = accepted'
  /\ attempt' = 0
  /\ pc' = "connected"
  /\ UNCHANGED <<closer, closed, lastId, current, frame, emitted, historyVars>>

\* `except Exception`: give up, or sleep.
Excepted ==
  IF closed
    THEN pc' = "done" /\ UNCHANGED attempt
    ELSE /\ attempt' = attempt + 1
         /\ pc' = IF attempt' > MaxAttempts THEN "done" ELSE "sleeping"

\* ws_client.connect() raises.
ConnectRaises ==
  /\ pc = "connecting"
  /\ Excepted
  /\ UNCHANGED <<closer, streamVars, current, frame, gatewayVars, historyVars>>

\* `for raw in self._ws` takes the iterator of what _ws is now; None has none.
Iterate ==
  /\ pc = "connected"
  /\ IF ws = 0
       THEN Excepted /\ UNCHANGED current
       ELSE /\ current' = ws
            /\ pc' = "waiting"
            /\ UNCHANGED attempt
  /\ UNCHANGED <<closer, streamVars, frame, gatewayVars, historyVars>>

\* The iterator returns a frame.  (A frame without an event_id is yielded too
\* and changes nothing here.)
Receive ==
  /\ pc = "waiting"
  /\ socket[current] = "open"
  /\ upNext[current] <= emitted
  /\ frame' = upNext[current]
  /\ upNext' = [upNext EXCEPT ![current] = @ + 1]
  /\ pc' = "received"
  /\ UNCHANGED <<closer, streamVars, current, attempt, socket, accepted, emitted,
                 historyVars>>

ReceivedUnchecked ==
  /\ pc = "received"
  /\ pc' = "parsed"
  /\ lastId' = IF frame > lastId THEN frame ELSE lastId
  /\ UNCHANGED <<closer, closed, ws, current, attempt, frame, gatewayVars, historyVars>>

ReceivedNotRemembered ==
  /\ pc = "received"
  /\ pc' = IF closed THEN "done" ELSE "parsed"
  /\ UNCHANGED <<closer, streamVars, current, attempt, frame, gatewayVars, historyVars>>

\* `if self._closed: return`; else the id is remembered, before the yield.
Received ==
  /\ pc = "received"
  /\ IF closed
       THEN pc' = "done" /\ UNCHANGED lastId
       ELSE /\ pc' = "parsed"
            /\ lastId' = IF frame > lastId THEN frame ELSE lastId
  /\ UNCHANGED <<closer, closed, ws, current, attempt, frame, gatewayVars, historyVars>>

\* `yield event`.
Yield ==
  /\ pc = "parsed"
  /\ delivered' = Append(delivered, frame)
  /\ late' = IF closed THEN late + 1 ELSE late
  /\ pc' = "consumer"
  /\ UNCHANGED <<closer, streamVars, current, attempt, frame, gatewayVars, racing>>

\* The consumer asks for the next event.
Resume ==
  /\ pc = "consumer"
  /\ pc' = "waiting"
  /\ UNCHANGED <<closer, streamVars, current, attempt, frame, gatewayVars, historyVars>>

\* A connection that was closed normally ends the for loop, one that was lost
\* raises.
ConnectionEnds ==
  /\ pc = "waiting"
  /\ socket[current] \in {"closed", "lost"}
  /\ IF socket[current] = "closed"
       THEN pc' = "head" /\ UNCHANGED attempt
       ELSE Excepted
  /\ UNCHANGED <<closer, streamVars, current, frame, gatewayVars, historyVars>>

\* time.sleep(backoff) is over.
Wake ==
  /\ pc = "sleeping"
  /\ pc' = "head"
  /\ UNCHANGED <<closer, streamVars, current, attempt, frame, gatewayVars, historyVars>>

-----------------------------------------------------------------------------
\* The closing thread.

\* `self._closed = True`
CloseBegins ==
  /\ closer = "idle"
  /\ closed' = TRUE
  /\ closer' = "flagged"
  /\ racing' = (pc = "connecting")
  /\ UNCHANGED <<pc, ws, lastId, current, attempt, frame, gatewayVars, late, delivered>>

CloseForgetsSocket ==
  /\ closer = "flagged"
  /\ closer' = "closed"
  /\ UNCHANGED <<pc, streamVars, current, attempt, frame, gatewayVars, historyVars>>

\* `if self._ws is not None: self._ws.close()`
CloseSocket ==
  /\ closer = "flagged"
  /\ IF ws = 0
       THEN closer' = "returned" /\ UNCHANGED socket
       ELSE /\ closer' = "closed"
            /\ socket' = [socket EXCEPT ![ws] = IF @ = "open" THEN "closed" ELSE @]
  /\ UNCHANGED <<pc, streamVars, current, attempt, frame, accepted, upNext, emitted,
                 historyVars>>

\* `self._ws = None`
CloseEnds ==
  /\ closer = "closed"
  /\ ws' = 0
  /\ closer' = "returned"
  /\ UNCHANGED <<pc, closed, lastId, current, attempt, frame, gatewayVars, historyVars>>

-----------------------------------------------------------------------------
\* The gateway closes a connection, or it is lost.
Drop ==
  /\ \E i \in Connections, end \in {"closed", "lost"} :
       /\ socket[i] = "open"
       /\ socket' = [socket EXCEPT ![i] = end]
  /\ UNCHANGED <<pc, closer, streamVars, current, attempt, frame, accepted, upNext,
                 emitted, historyVars>>

Emit ==
  /\ emitted < MaxEvents
  /\ emitted' = emitted + 1
  /\ UNCHANGED <<pc, closer, streamVars, current, attempt, frame, socket, accepted,
                 upNext, historyVars>>

Iterator ==
  \/ TestClosed \/ Connected \/ Iterate \/ Receive \/ Received \/ Yield \/ Resume
  \/ ConnectionEnds \/ Wake
Closer == CloseBegins \/ CloseSocket \/ CloseEnds

Next == Iterator \/ ConnectRaises \/ Closer \/ Drop \/ Emit

\* A thread that can go on does, the gateway accepts or refuses a connection, and
\* close() ends.  Nobody has to call it and no connection has to fail.
Fairness ==
  /\ WF_vars(Iterator \/ ConnectRaises)
  /\ WF_vars(CloseSocket \/ CloseEnds)

Spec == Init /\ [][Next]_vars /\ Fairness

-----------------------------------------------------------------------------

\* Once close() has set the flag, no event is yielded but one that was already
\* past the check (streams.py:83-91).
AtMostOneLate == late <= 1

\* close() leaves a connection open only if it found _run() inside _connect():
\* otherwise every connection is closed or lost when it returns, and none is made
\* later (streams.py:64, 66-70, 76-78).
LeakNeedsTheRace ==
  (closer = "returned" /\ ~racing) => \A i \in Connections : socket[i] # "open"

\* After close() the iterating thread finishes, unless it waits for the next frame
\* of a connection close() did not reach (streams.py:66-70, 82-84).
CloseEndsTheLoop ==
  closed ~> (pc = "done" \/ (racing /\ pc = "waiting" /\ socket[current] = "open"))

Feed == INSTANCE EventFeed

\* No gap, no duplicate, no reordering across reconnects (streams.py:22-23).
ImplementsFeed == Feed!Spec
=============================================================================
