------------------------- MODULE PyEventStreamProof -------------------------
(***************************************************************************)
(* The Python account event stream, for any number of events, connections  *)
(* and reconnect attempts: what close() from another thread may find, and  *)
(* what the iterating thread hands over.  Two places of the iterating      *)
(* thread matter to close(): "parsed", past the check of the flag, from    *)
(* where one event is still yielded, and "connecting", from where one      *)
(* connection is still made.                                               *)
(***************************************************************************)
EXTENDS PyEventStream, TLAPS

\* In the body of `for raw in self._ws`.
Looping == {"waiting", "received", "parsed", "consumer"}

StreamTypes ==
  /\ pc \in {"head", "connecting", "connected", "sleeping", "done"} \cup Looping
  /\ closer \in {"idle", "flagged", "closed", "returned"}
  /\ closed \in BOOLEAN /\ racing \in BOOLEAN
  /\ accepted \in {0} \cup Connections
  /\ ws \in {0} \cup Connections /\ ws <= accepted
  /\ current \in {0} \cup Connections
  /\ pc \in Looping => current # 0
  /\ socket \in [Connections -> {"none", "open", "closed", "lost"}]
  /\ upNext \in [Connections -> Nat]
  /\ lastId \in Nat /\ attempt \in Nat /\ frame \in Nat /\ late \in Nat /\ emitted \in Nat
  /\ delivered \in Seq(Nat)

\* The flag is up from the first step of close() on, and a thread that was not
\* connecting then does not connect any more.
FlagIsUp ==
  /\ closed <=> closer # "idle"
  /\ closer = "idle" => ~racing
  /\ (closed /\ ~racing) => pc # "connecting"

\* Only one event can be past the check.
LateIsOver == late = 0 \/ (late = 1 /\ closed /\ pc # "parsed")

\* Without the race, `_ws` is the only connection that may be open.
OnlyWsIsOpen ==
  /\ \A i \in Connections : i > accepted => socket[i] = "none"
  /\ (~racing /\ closer \in {"idle", "flagged"}) =>
       \A i \in Connections : socket[i] = "open" => i = ws
  /\ (~racing /\ closer \in {"closed", "returned"}) =>
       \A i \in Connections : socket[i] # "open"

\* Nobody closing, the loop iterates over `_ws`, and outside of it none is open.
LoopsOverWs ==
  closer = "idle" =>
    /\ pc \in Looping => current = ws
    /\ pc \in {"head", "connecting", "sleeping", "done"} =>
         \A i \in Connections : socket[i] # "open"

\* lastId is the id of the last event yielded, or about to be.
LastIdIsLast ==
  LET last == IF delivered = << >> THEN 0 ELSE delivered[Len(delivered)] IN
  /\ delivered # << >> => last >= 1
  /\ pc # "parsed" => lastId = last
  /\ pc = "parsed" => /\ lastId = frame
                      /\ frame \in 1 .. emitted
                      /\ delivered # << >> => frame = last + 1

\* Each connection resumes where the one before it stopped.
NextFollows(e) == e >= 1 /\ (lastId > 0 => e = lastId + 1)

ResumesAfterLast ==
  /\ pc \in {"waiting", "parsed", "consumer"} => NextFollows(upNext[current])
  /\ pc = "connected" /\ ws # 0 => NextFollows(upNext[ws])
  /\ pc = "received" => /\ NextFollows(frame)
                        /\ frame <= emitted
                        /\ upNext[current] = frame + 1

StreamInv ==
  /\ StreamTypes
  /\ FlagIsUp
  /\ LateIsOver
  /\ OnlyWsIsOpen
  /\ LoopsOverWs
  /\ LastIdIsLast
  /\ ResumesAfterLast

LEMMA InitStreamInv == Init => StreamInv
<1> SUFFICES ASSUME Init PROVE StreamInv
  OBVIOUS
<1>1. StreamTypes
  <2>1. delivered \in Seq(Nat)
    BY DEF Init
  <2>2. /\ socket \in [Connections -> {"none", "open", "closed", "lost"}]
        /\ upNext \in [Connections -> Nat]
    BY DEF Init
  <2>3. pc = "head" /\ closer = "idle" /\ closed \in BOOLEAN /\ racing \in BOOLEAN
    BY DEF Init
  <2>4. \A n \in {ws, current, lastId, attempt, accepted, frame, late, emitted} : n = 0
    BY DEF Init
  <2> QED
    BY <2>1, <2>2, <2>3, <2>4 DEF StreamTypes, Looping
<1>2. FlagIsUp /\ LateIsOver /\ OnlyWsIsOpen /\ LoopsOverWs
  BY DEF Init, FlagIsUp, LateIsOver, OnlyWsIsOpen, LoopsOverWs, Looping
<1>3. LastIdIsLast /\ ResumesAfterLast
  BY DEF Init, LastIdIsLast, ResumesAfterLast
<1> QED
  BY <1>1, <1>2, <1>3 DEF StreamInv

\* The steps of the iterating thread that touch neither connections nor events:
\* TestClosed, ConnectRaises, Iterate, Resume, ConnectionEnds and Wake.
LEMMA LoopSteps ==
  ASSUME StreamInv,
         TestClosed \/ ConnectRaises \/ Iterate \/ Resume \/ ConnectionEnds \/ Wake
  PROVE  StreamInv'
<1> USE DEF StreamInv
<1>1. /\ UNCHANGED <<closer, streamVars, frame, gatewayVars, historyVars>>
      /\ attempt' \in Nat
      /\ \/ pc = "head" /\ pc' \in {"done", "connecting"} /\ (closed => pc' = "done")
            /\ current' = current
         \/ pc \in {"connecting", "sleeping"} /\ pc' \in {"done", "sleeping", "head"}
            /\ current' = current
         \/ pc = "connected" /\ ws = 0 /\ pc' \in {"done", "sleeping"} /\ current' = current
         \/ pc = "connected" /\ ws # 0 /\ pc' = "waiting" /\ current' = ws
         \/ pc = "consumer" /\ pc' = "waiting" /\ current' = current
         \/ pc = "waiting" /\ pc' \in {"head", "done", "sleeping"} /\ current' = current
            /\ socket[current] # "open"
  BY DEF TestClosed, ConnectRaises, Iterate, Resume, ConnectionEnds, Wake, Excepted, StreamTypes
<1> USE DEF streamVars, gatewayVars, historyVars
<1>2. StreamTypes'
  BY <1>1 DEF StreamTypes, Looping
<1>3. FlagIsUp'
  BY <1>1 DEF FlagIsUp
<1>4. LateIsOver'
  BY <1>1 DEF LateIsOver
<1>5. OnlyWsIsOpen'
  BY <1>1 DEF OnlyWsIsOpen
<1>6. LoopsOverWs'
  <2>1. \A i \in Connections : closer = "idle" /\ socket[i] = "open" => i = ws
    BY DEF FlagIsUp, OnlyWsIsOpen
  <2> QED
    BY <1>1, <2>1 DEF LoopsOverWs, Looping, Connections
<1>7. LastIdIsLast'
  BY <1>1 DEF LastIdIsLast
<1>8. ResumesAfterLast'
  BY <1>1 DEF ResumesAfterLast, NextFollows
<1> QED
  BY <1>2, <1>3, <1>4, <1>5, <1>6, <1>7, <1>8

LEMMA ConnectedStep ==
  ASSUME StreamInv, Connected
  PROVE  StreamInv'
<1> USE DEF StreamInv
<1> DEFINE new == accepted + 1
<1>1. /\ pc = "connecting" /\ pc' = "connected"
      /\ new \in Connections /\ accepted' = new /\ ws' = new /\ attempt' = 0
      /\ socket' = [socket EXCEPT ![new] = "open"]
      /\ upNext' = [upNext EXCEPT ![new] = IF lastId > 0 THEN lastId + 1 ELSE emitted + 1]
      /\ UNCHANGED <<closer, closed, lastId, current, frame, emitted, historyVars>>
  BY MaxConnectsAssumption DEF Connected, Connections, StreamTypes
<1> HIDE DEF new
<1> USE DEF historyVars
<1>2. StreamTypes'
  <2>1. /\ socket' \in [Connections -> {"none", "open", "closed", "lost"}]
        /\ upNext' \in [Connections -> Nat]
    BY <1>1 DEF StreamTypes
  <2>2. ws' <= accepted'
    BY <1>1 DEF Connections
  <2> QED
    BY <1>1, <2>1, <2>2 DEF StreamTypes, Looping
<1>3. FlagIsUp' /\ LateIsOver'
  BY <1>1 DEF FlagIsUp, LateIsOver
<1>4. OnlyWsIsOpen'
  <2>1. \A i \in Connections : i > new => socket'[i] = "none"
    BY <1>1 DEF OnlyWsIsOpen, StreamTypes, new, Connections
  <2>2. ~racing => closer = "idle" /\ \A i \in Connections : socket[i] # "open"
    BY <1>1 DEF FlagIsUp, LoopsOverWs
  <2> QED
    BY <1>1, <2>1, <2>2 DEF OnlyWsIsOpen, StreamTypes
<1>5. LoopsOverWs' /\ LastIdIsLast'
  BY <1>1 DEF LoopsOverWs, LastIdIsLast, Looping
<1>6. ResumesAfterLast'
  BY <1>1 DEF ResumesAfterLast, NextFollows, StreamTypes
<1> QED
  BY <1>2, <1>3, <1>4, <1>5, <1>6

\* Receive, Received and Yield: an event on its way to the consumer.
LEMMA EventSteps ==
  ASSUME StreamInv, Receive \/ Received \/ Yield
  PROVE  StreamInv'
<1> USE DEF StreamInv, streamVars, gatewayVars, historyVars
<1>1. CASE Receive
  <2> USE <1>1 DEF Receive
  <2>1. current \in Connections /\ upNext[current] \in Nat
    BY DEF StreamTypes, Looping
  <2>2. StreamTypes'
    BY <2>1 DEF StreamTypes, Looping
  <2>3. FlagIsUp' /\ LateIsOver' /\ OnlyWsIsOpen' /\ LoopsOverWs' /\ LastIdIsLast'
    BY DEF FlagIsUp, LateIsOver, OnlyWsIsOpen, LoopsOverWs, LastIdIsLast, Looping
  <2>4. ResumesAfterLast'
    BY <2>1 DEF ResumesAfterLast, NextFollows, StreamTypes
  <2> QED
    BY <2>2, <2>3, <2>4
<1>2. CASE Received
  <2> USE <1>2 DEF Received
  <2>1. NextFollows(frame) /\ frame \in 1 .. emitted /\ upNext[current] = frame + 1
    BY DEF ResumesAfterLast, NextFollows, StreamTypes
  <2>2. ~closed => lastId' = frame
    BY <2>1 DEF NextFollows, StreamTypes
  <2>3. StreamTypes'
    BY DEF StreamTypes, Looping
  <2>4. FlagIsUp' /\ OnlyWsIsOpen'
    BY DEF FlagIsUp, OnlyWsIsOpen
  <2>5. LateIsOver'
    BY DEF LateIsOver
  <2>6. LoopsOverWs'
    BY DEF LoopsOverWs, Looping, FlagIsUp
  <2>7. LastIdIsLast'
    BY <2>1, <2>2 DEF LastIdIsLast, NextFollows, StreamTypes
  <2>8. ResumesAfterLast'
    BY <2>1, <2>2 DEF ResumesAfterLast, NextFollows, StreamTypes
  <2> QED
    BY <2>3, <2>4, <2>5, <2>6, <2>7, <2>8
<1>3. CASE Yield
  <2> USE <1>3 DEF Yield
  <2>1. /\ delivered' \in Seq(Nat) /\ delivered' # << >>
        /\ delivered'[Len(delivered')] = frame
    BY DEF StreamTypes
  <2>2. frame \in 1 .. emitted /\ lastId = frame
    BY DEF LastIdIsLast
  <2>3. StreamTypes'
    BY <2>1 DEF StreamTypes, Looping
  <2>4. FlagIsUp' /\ OnlyWsIsOpen' /\ LoopsOverWs'
    BY DEF FlagIsUp, OnlyWsIsOpen, LoopsOverWs, Looping
  <2>5. LateIsOver'
    BY DEF LateIsOver
  <2>6. LastIdIsLast'
    BY <2>1, <2>2 DEF LastIdIsLast, StreamTypes
  <2>7. ResumesAfterLast'
    BY DEF ResumesAfterLast, NextFollows
  <2> QED
    BY <2>3, <2>4, <2>5, <2>6, <2>7
<1> QED
  BY <1>1, <1>2, <1>3

\* close(), in its three steps.
LEMMA CloserSteps ==
  ASSUME StreamInv, Closer
  PROVE  StreamInv'
<1> USE DEF StreamInv, streamVars, gatewayVars, historyVars
<1>1. CASE CloseBegins
  <2> USE <1>1 DEF CloseBegins
  <2>1. StreamTypes'
    BY DEF StreamTypes
  <2>2. FlagIsUp' /\ LateIsOver'
    BY DEF FlagIsUp, LateIsOver, StreamTypes
  <2>3. OnlyWsIsOpen'
    BY DEF OnlyWsIsOpen, FlagIsUp
  <2>4. LoopsOverWs' /\ LastIdIsLast' /\ ResumesAfterLast'
    BY DEF LoopsOverWs, LastIdIsLast, ResumesAfterLast, NextFollows
  <2> QED
    BY <2>1, <2>2, <2>3, <2>4
<1>2. CASE CloseSocket
  <2> USE <1>2 DEF CloseSocket
  <2>1. /\ closer' \in {"closed", "returned"}
        /\ UNCHANGED <<pc, streamVars, current, attempt, frame, accepted, upNext, emitted,
                       historyVars>>
        /\ socket' \in [Connections -> {"none", "open", "closed", "lost"}]
        /\ \A i \in Connections :
             /\ socket'[i] = "open" => socket[i] = "open" /\ i # ws
             /\ socket[i] = "none" => socket'[i] = "none"
    <3>1. CASE ws = 0
      BY <3>1 DEF StreamTypes, Connections
    <3>2. CASE ws # 0
      <4>1. socket' = [socket EXCEPT ![ws] = IF socket[ws] = "open" THEN "closed" ELSE socket[ws]]
        BY <3>2
      <4>2. ws \in Connections
        BY <3>2 DEF StreamTypes
      <4> QED
        BY <3>2, <4>1, <4>2 DEF StreamTypes
    <3> QED
      BY <3>1, <3>2
  <2>2. StreamTypes'
    BY <2>1 DEF StreamTypes
  <2>3. FlagIsUp' /\ LateIsOver'
    BY <2>1 DEF FlagIsUp, LateIsOver
  <2>4. OnlyWsIsOpen'
    BY <2>1 DEF OnlyWsIsOpen
  <2>5. LoopsOverWs' /\ LastIdIsLast' /\ ResumesAfterLast'
    BY <2>1 DEF LoopsOverWs, LastIdIsLast, ResumesAfterLast, NextFollows
  <2> QED
    BY <2>2, <2>3, <2>4, <2>5
<1>3. CASE CloseEnds
  <2> USE <1>3 DEF CloseEnds
  <2>1. StreamTypes'
    BY DEF StreamTypes
  <2>2. FlagIsUp' /\ LateIsOver' /\ OnlyWsIsOpen'
    BY DEF FlagIsUp, LateIsOver, OnlyWsIsOpen
  <2>3. LoopsOverWs' /\ LastIdIsLast' /\ ResumesAfterLast'
    BY DEF LoopsOverWs, LastIdIsLast, ResumesAfterLast, NextFollows
  <2> QED
    BY <2>1, <2>2, <2>3
<1> QED
  BY <1>1, <1>2, <1>3 DEF Closer

\* Drop and Emit.
LEMMA OutsideSteps ==
  ASSUME StreamInv, Drop \/ Emit
  PROVE  StreamInv'
<1> USE DEF StreamInv, streamVars, gatewayVars, historyVars
<1>1. /\ UNCHANGED <<pc, closer, streamVars, current, attempt, frame, accepted, upNext, historyVars>>
      /\ emitted' \in Nat /\ emitted' >= emitted
      /\ socket' \in [Connections -> {"none", "open", "closed", "lost"}]
      /\ \A i \in Connections :
           /\ socket'[i] = "open" => socket[i] = "open"
           /\ socket[i] = "none" => socket'[i] = "none"
  <2>1. CASE Drop
    BY <2>1 DEF Drop, StreamTypes
  <2>2. CASE Emit
    BY <2>2 DEF Emit, StreamTypes
  <2> QED
    BY <2>1, <2>2
<1>2. StreamTypes'
  BY <1>1 DEF StreamTypes
<1>3. FlagIsUp' /\ LateIsOver' /\ OnlyWsIsOpen' /\ LoopsOverWs'
  BY <1>1 DEF FlagIsUp, LateIsOver, OnlyWsIsOpen, LoopsOverWs
<1>4. LastIdIsLast' /\ ResumesAfterLast'
  BY <1>1 DEF LastIdIsLast, ResumesAfterLast, NextFollows, StreamTypes
<1> QED
  BY <1>2, <1>3, <1>4

LEMMA NextStreamInv == StreamInv /\ [Next]_vars => StreamInv'
<1> SUFFICES ASSUME StreamInv, [Next]_vars PROVE StreamInv'
  OBVIOUS
<1>1. CASE Next
  BY <1>1, LoopSteps, ConnectedStep, EventSteps, CloserSteps, OutsideSteps DEF Next, Iterator
<1>2. CASE UNCHANGED vars
  BY <1>2 DEF StreamInv, vars, streamVars, gatewayVars, historyVars, StreamTypes, FlagIsUp,
              LateIsOver, OnlyWsIsOpen, LoopsOverWs, LastIdIsLast, ResumesAfterLast, NextFollows
<1> QED
  BY <1>1, <1>2

LEMMA StreamInvariant == Spec => []StreamInv
<1> QED
  BY InitStreamInv, NextStreamInv, PTL DEF Spec

\* After close() has set the flag at most one event more is yielded.
THEOREM OneLateEventAtMost == Spec => []AtMostOneLate
<1>1. StreamInv => AtMostOneLate
  BY DEF StreamInv, LateIsOver, AtMostOneLate
<1> QED
  BY <1>1, StreamInvariant, PTL

\* close() leaves a connection open only if it found the thread connecting.
THEOREM OnlyTheRaceLeaks == Spec => []LeakNeedsTheRace
<1>1. StreamInv => LeakNeedsTheRace
  BY DEF StreamInv, OnlyWsIsOpen, LeakNeedsTheRace
<1> QED
  BY <1>1, StreamInvariant, PTL

\* The events are yielded without a gap, a repeat or a swap, whatever connections are
\* lost and whenever close() is called.
THEOREM StreamImplementsFeed == Spec => ImplementsFeed
<1>1. Init => Feed!Init
  BY DEF Init, Feed!Init
<1>2. StreamInv /\ [Next]_vars => [Feed!Next]_(Feed!feedVars)
  <2> SUFFICES ASSUME StreamInv, [Next]_vars, ~UNCHANGED <<emitted, delivered>>
               PROVE  Feed!Next
    BY DEF Feed!feedVars
  <2>1. CASE Emit
    BY <2>1 DEF Emit, Feed!Next, Feed!Emit, historyVars
  <2>2. CASE Yield
    <3>1. frame \in 1 .. emitted /\ delivered' = Append(delivered, frame) /\ UNCHANGED emitted
      BY <2>2 DEF Yield, StreamInv, LastIdIsLast, gatewayVars
    <3>2. delivered # << >> => frame = delivered[Len(delivered)] + 1
      BY <2>2 DEF Yield, StreamInv, LastIdIsLast
    <3> QED
      BY <3>1, <3>2 DEF Feed!Next, Feed!Deliver
  <2>3. Emit \/ Yield
    BY DEF Next, Iterator, Closer, TestClosed, Connected, ConnectRaises, Iterate, Receive,
           Received, Resume, ConnectionEnds, Wake, CloseBegins, CloseSocket, CloseEnds, Drop,
           vars, gatewayVars, historyVars
  <2> QED
    BY <2>1, <2>2, <2>3
<1> QED
  BY <1>1, <1>2, StreamInvariant, PTL DEF Spec, ImplementsFeed, Feed!Spec
=============================================================================
