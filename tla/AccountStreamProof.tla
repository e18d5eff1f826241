------------------------- MODULE AccountStreamProof -------------------------
(***************************************************************************)
(* A subscription of the TypeScript client, for any number of events and   *)
(* of failed or lost connections: reconnecting never forks, never stops by *)
(* itself, stops for good when it is told to, and hands the events over    *)
(* without a gap, a repeat or a swap.  All of it rests on there being one  *)
(* attempt at a time: afterId then cannot move between the moment it is    *)
(* put into a URL, the moment it is signed and the moment the gateway      *)
(* starts its replay from it.                                              *)
(***************************************************************************)
EXTENDS AccountStream, TLAPS

StreamTypes ==
  /\ closed \in BOOLEAN
  /\ ws \in {0} \cup Attempts
  /\ timer \in {0} \cup Attempts
  /\ afterId \in Nat
  /\ conn \in [Attempts -> Live \cup {"unused", "gone", "closing"}]
  /\ sent \in [Attempts -> Nat]
  /\ signed \in [Attempts -> Nat]
  /\ upNext \in [Attempts -> Nat]
  /\ faults \in Nat
  /\ emitted \in Nat
  /\ delivered \in Seq(Nat)

\* A socket that unsubscribe() closed still counts: its close event could start
\* another attempt.
Busy(i) == conn[i] \in Live \cup {"closing"}

AtMostOneBusy == \A i, j \in Attempts : (Busy(i) /\ Busy(j)) => i = j

\* `ws` and `timer` hold what unsubscribe() has to reach.
HoldersAreRight ==
  \A i \in Attempts :
    /\ conn[i] \in Sockets => ws = i
    /\ conn[i] = "scheduled" => timer = i

ClosedIsQuiet ==
  \A i \in Attempts :
    /\ conn[i] = "closing" => closed
    /\ conn[i] \in Sockets => ~closed

\* afterId is the id of the last event handed over.
AfterIdIsLast ==
  IF delivered = << >> THEN afterId = 0
  ELSE afterId >= 1 /\ afterId = delivered[Len(delivered)]

\* Each connection resumes where the one before it stopped.
ResumesAfterLast ==
  \A i \in Attempts :
    /\ conn[i] \in {"building", "connecting"} => sent[i] = afterId
    /\ conn[i] = "open" => /\ upNext[i] >= 1
                           /\ delivered # << >> => upNext[i] = afterId + 1

StreamInv ==
  /\ StreamTypes
  /\ AtMostOneBusy
  /\ HoldersAreRight
  /\ ClosedIsQuiet
  /\ AfterIdIsLast
  /\ ResumesAfterLast

LEMMA InitStreamInv == Init => StreamInv
<1> SUFFICES ASSUME Init PROVE StreamInv
  OBVIOUS
<1>1. StreamTypes
  <2>1. conn \in [Attempts -> Live \cup {"unused", "gone", "closing"}]
    BY DEF Init, Live
  <2>2. << >> \in Seq(Nat)
    OBVIOUS
  <2> QED
    BY <2>1, <2>2 DEF Init, StreamTypes
<1>2. \A i \in Attempts : conn[i] = IF i = 1 THEN "building" ELSE "unused"
  BY DEF Init
<1>3. AtMostOneBusy
  BY <1>2 DEF AtMostOneBusy, Busy, Live, Sockets
<1>4. HoldersAreRight /\ ClosedIsQuiet
  BY <1>2 DEF HoldersAreRight, ClosedIsQuiet, Sockets
<1>5. AfterIdIsLast /\ ResumesAfterLast
  BY <1>2 DEF Init, AfterIdIsLast, ResumesAfterLast
<1> QED
  BY <1>1, <1>3, <1>4, <1>5 DEF StreamInv

\* An attempt that is over leaves at most a scheduled one, which no other attempt is
\* busy beside.
LEMMA RescheduleKeeps ==
  ASSUME StreamInv, NEW i \in Attempts, Busy(i), Reschedule(i),
         ws' = 0 \/ (ws' = ws /\ conn[i] \notin Sockets),
         UNCHANGED <<closed, afterId, urlVars, upNext, feedVars>>, faults' \in Nat
  PROVE  StreamInv'
<1> USE DEF StreamInv
<1>1. \/ conn' = [conn EXCEPT ![i] = "gone"] /\ timer' = timer
      \/ \E j \in Attempts :
           /\ conn[j] = "unused"
           /\ conn' = [conn EXCEPT ![i] = "gone", ![j] = "scheduled"]
           /\ timer' = j
  BY DEF Reschedule
<1>2. \A k \in Attempts \ {i} : ~Busy(k)
  BY DEF AtMostOneBusy
<1>3. StreamTypes'
  BY <1>1 DEF StreamTypes, Live, urlVars, feedVars
<1>4. \A k \in Attempts :
        conn'[k] \in Live \cup {"closing"} => conn'[k] = "scheduled" /\ timer' = k
  BY <1>1, <1>2 DEF StreamTypes, Busy, Live, Sockets
<1>5. AtMostOneBusy'
  BY <1>4, <1>3 DEF AtMostOneBusy, Busy, StreamTypes
<1>6. HoldersAreRight' /\ ClosedIsQuiet'
  BY <1>4 DEF HoldersAreRight, ClosedIsQuiet, Sockets, Live
<1>7. AfterIdIsLast'
  BY DEF AfterIdIsLast, feedVars
<1>8. ResumesAfterLast'
  BY <1>4 DEF ResumesAfterLast, Live, Sockets
<1> QED
  BY <1>3, <1>5, <1>6, <1>7, <1>8

LEMMA NextStreamInv == StreamInv /\ [Next]_vars => StreamInv'
<1> SUFFICES ASSUME StreamInv, [Next]_vars PROVE StreamInv'
  OBVIOUS
<1> USE DEF StreamInv
<1>1. ASSUME NEW i \in Attempts, TimerFires(i) PROVE StreamInv'
  <2> USE <1>1 DEF TimerFires, streamVars, feedVars
  <2>1. StreamTypes'
    BY DEF StreamTypes, Live
  <2>2. AtMostOneBusy'
    BY DEF StreamTypes, AtMostOneBusy, Busy, Live, Sockets
  <2>3. HoldersAreRight' /\ ClosedIsQuiet' /\ AfterIdIsLast'
    BY DEF StreamTypes, HoldersAreRight, ClosedIsQuiet, AfterIdIsLast, Sockets
  <2>4. ResumesAfterLast'
    BY DEF StreamTypes, ResumesAfterLast
  <2> QED
    BY <2>1, <2>2, <2>3, <2>4
<1>2. ASSUME NEW i \in Attempts, BuildSucceeds(i) PROVE StreamInv'
  <2> USE <1>2 DEF BuildSucceeds, feedVars
  <2>1. StreamTypes'
    BY DEF StreamTypes, Live, Sockets
  <2>2. AtMostOneBusy'
    BY DEF StreamTypes, AtMostOneBusy, Busy, Live, Sockets
  <2>3. HoldersAreRight'
    BY DEF StreamTypes, HoldersAreRight, AtMostOneBusy, Busy, Live, Sockets
  <2>4. ClosedIsQuiet' /\ AfterIdIsLast'
    BY DEF StreamTypes, ClosedIsQuiet, AfterIdIsLast, Sockets
  <2>5. ResumesAfterLast'
    BY DEF StreamTypes, ResumesAfterLast
  <2> QED
    BY <2>1, <2>2, <2>3, <2>4, <2>5
<1>3. ASSUME NEW i \in Attempts, Opens(i) PROVE StreamInv'
  <2> USE <1>3 DEF Opens, streamVars, urlVars, feedVars
  <2>1. StreamTypes'
    BY DEF StreamTypes, Live, Sockets
  <2>2. AtMostOneBusy'
    BY DEF StreamTypes, AtMostOneBusy, Busy, Live, Sockets
  <2>3. HoldersAreRight' /\ ClosedIsQuiet' /\ AfterIdIsLast'
    BY DEF StreamTypes, HoldersAreRight, ClosedIsQuiet, AfterIdIsLast, Sockets
  <2>4. sent[i] = afterId /\ (delivered # << >> => afterId >= 1)
    BY DEF ResumesAfterLast, AfterIdIsLast
  <2>5. ResumesAfterLast'
    BY <2>4 DEF StreamTypes, ResumesAfterLast
  <2> QED
    BY <2>1, <2>2, <2>3, <2>5
<1>4. ASSUME NEW i \in Attempts, Message(i) PROVE StreamInv'
  <2> USE <1>4 DEF Message
  <2>1. conn[i] = "open" /\ upNext[i] \in Nat \ {0} /\ UNCHANGED <<conn, closed, ws, timer>>
    BY DEF ResumesAfterLast, StreamTypes
  <2>2. afterId' = upNext[i]
    BY <2>1 DEF ResumesAfterLast, AfterIdIsLast, StreamTypes
  <2>3. /\ delivered' \in Seq(Nat) /\ delivered' # << >>
        /\ delivered'[Len(delivered')] = upNext[i]
    BY <2>1 DEF StreamTypes
  <2>4. StreamTypes'
    BY <2>1, <2>2, <2>3 DEF StreamTypes, urlVars
  <2>5. AtMostOneBusy' /\ HoldersAreRight' /\ ClosedIsQuiet'
    BY <2>1 DEF AtMostOneBusy, Busy, HoldersAreRight, ClosedIsQuiet
  <2>6. AfterIdIsLast'
    BY <2>1, <2>2, <2>3 DEF AfterIdIsLast
  <2>7. \A j \in Attempts \ {i} : conn[j] \notin {"building", "connecting", "open"}
    BY <2>1 DEF AtMostOneBusy, Busy, Live, Sockets
  <2>8. ResumesAfterLast'
    BY <2>1, <2>2, <2>7 DEF ResumesAfterLast, StreamTypes
  <2> QED
    BY <2>4, <2>5, <2>6, <2>8
<1>5. ASSUME NEW i \in Attempts, CloseDone(i) PROVE StreamInv'
  BY <1>5, RescheduleKeeps DEF CloseDone, Busy, StreamTypes
<1>6. ASSUME NEW i \in Attempts, BuildFails(i) PROVE StreamInv'
  <2>1. Busy(i) /\ conn[i] \notin Sockets
    BY <1>6 DEF BuildFails, Busy, Live, Sockets
  <2> QED
    BY <1>6, <2>1, RescheduleKeeps DEF BuildFails, Fault, StreamTypes
<1>7. ASSUME NEW i \in Attempts, Lost(i) PROVE StreamInv'
  BY <1>7, RescheduleKeeps DEF Lost, Fault, Busy, Live, Sockets, StreamTypes
<1>8. CASE Unsubscribe
  <2> USE <1>8 DEF Unsubscribe, urlVars, feedVars
  <2>1. \A i \in Attempts :
          \/ conn'[i] = conn[i] /\ conn[i] \notin Sockets \cup {"scheduled"}
          \/ conn'[i] = "gone" /\ conn[i] = "scheduled"
          \/ conn'[i] = "closing" /\ conn[i] \in Sockets
    BY DEF HoldersAreRight, Sockets
  <2>2. StreamTypes'
    BY <2>1 DEF StreamTypes, Live
  <2>3. AtMostOneBusy'
    BY <2>1 DEF AtMostOneBusy, Busy, Live, Sockets
  <2>4. HoldersAreRight' /\ ClosedIsQuiet'
    BY <2>1 DEF HoldersAreRight, ClosedIsQuiet, Sockets
  <2>5. AfterIdIsLast' /\ ResumesAfterLast'
    BY <2>1 DEF AfterIdIsLast, ResumesAfterLast, Sockets
  <2> QED
    BY <2>2, <2>3, <2>4, <2>5
<1>9. CASE Emit \/ UNCHANGED vars
  <2>1. UNCHANGED <<streamVars, conn, urlVars, upNext, faults, delivered>> /\ emitted' \in Nat
    BY <1>9 DEF Emit, vars, feedVars, StreamTypes
  <2> QED
    BY <2>1 DEF streamVars, urlVars, StreamTypes, AtMostOneBusy, Busy, HoldersAreRight,
                ClosedIsQuiet, AfterIdIsLast, ResumesAfterLast
<1> QED
  BY <1>1, <1>2, <1>3, <1>4, <1>5, <1>6, <1>7, <1>8, <1>9 DEF Next, Progress

LEMMA StreamInvariant == Spec => []StreamInv
<1> QED
  BY InitStreamInv, NextStreamInv, PTL DEF Spec

\* Reconnecting never forks, whatever fails and whenever the caller unsubscribes.
THEOREM ReconnectingNeverForks == Spec => []OneAttempt
<1>1. StreamInv => OneAttempt
  BY DEF StreamInv, AtMostOneBusy, Busy, HoldersAreRight, OneAttempt
<1> QED
  BY <1>1, StreamInvariant, PTL

\* Where `new WebSocket` exists, a stream nobody closed has a connection or is
\* making one.
THEOREM StreamStaysAlive == WebSocketDefined => (Spec => []StreamIsAlive)
<1> SUFFICES ASSUME WebSocketDefined PROVE Spec => []StreamIsAlive
  OBVIOUS
<1>1. Init => StreamIsAlive
  BY MaxFaultsAssumption DEF Init, StreamIsAlive, Attempts, Live
<1>2. StreamInv /\ StreamIsAlive /\ [Next]_vars => StreamIsAlive'
  <2> SUFFICES ASSUME StreamInv, StreamIsAlive, [Next]_vars, ~closed'
               PROVE  \E i \in Attempts : conn'[i] \in Live
    BY DEF StreamIsAlive
  <2> USE DEF StreamInv, StreamTypes
  <2>1. ~closed
    BY DEF Next, Progress, TimerFires, BuildSucceeds, Opens, Message, CloseDone, BuildFails,
           Lost, Unsubscribe, Emit, vars, streamVars
  <2>2. PICK a \in Attempts : conn[a] \in Live
    BY <2>1 DEF StreamIsAlive
  <2>3. ASSUME NEW i \in Attempts, Reschedule(i) PROVE \E j \in Attempts : conn'[j] \in Live
    BY <2>1, <2>3 DEF Reschedule, Live
  <2>4. ASSUME NEW i \in Attempts, TimerFires(i) \/ BuildSucceeds(i) \/ Opens(i)
        PROVE  conn'[i] \in Live
    BY <2>1, <2>4 DEF TimerFires, BuildSucceeds, Opens, Live, Sockets
  <2>5. ASSUME NEW i \in Attempts, Message(i) PROVE conn'[a] \in Live
    BY <2>2, <2>5 DEF Message
  <2>6. CASE Emit \/ UNCHANGED vars
    BY <2>2, <2>6 DEF Emit, vars
  <2> QED
    BY <2>1, <2>3, <2>4, <2>5, <2>6 DEF Next, Progress, CloseDone, BuildFails, Lost, Unsubscribe
<1> QED
  BY <1>1, <1>2, StreamInvariant, PTL DEF Spec

\* Once closed, the stream hands nothing over and opens no socket.
THEOREM ClosedStreamsAreSilent == Spec => SilentAfterUnsubscribe
<1>1. StreamInv /\ [Next]_vars =>
        [closed => /\ delivered' = delivered
                   /\ \A i \in Attempts : conn'[i] \in Sockets => conn[i] = conn'[i]]_vars
  <2> SUFFICES ASSUME StreamInv, Next, closed
               PROVE  /\ delivered' = delivered
                      /\ \A i \in Attempts : conn'[i] \in Sockets => conn[i] = conn'[i]
    OBVIOUS
  <2> USE DEF StreamInv, StreamTypes, Sockets
  <2>1. \A i \in Attempts : conn[i] \notin Sockets
    BY DEF ClosedIsQuiet
  <2>2. ASSUME NEW i \in Attempts, Progress(i) \/ BuildFails(i) \/ Lost(i)
        PROVE  /\ delivered' = delivered
               /\ \A j \in Attempts : conn'[j] \in Sockets => conn[j] = conn'[j]
    BY <2>1, <2>2 DEF Progress, TimerFires, BuildSucceeds, Opens, Message, CloseDone, BuildFails,
                      Lost, Reschedule, feedVars
  <2>3. CASE Unsubscribe \/ Emit
    BY <2>3 DEF Unsubscribe, Emit, feedVars
  <2> QED
    BY <2>2, <2>3 DEF Next
<1> QED
  BY <1>1, StreamInvariant, PTL DEF Spec, SilentAfterUnsubscribe

\* The events arrive without a gap, a repeat or a swap, whatever happens to the
\* connections.
THEOREM StreamImplementsFeed == Spec => ImplementsFeed
<1>1. Init => Feed!Init
  BY DEF Init, Feed!Init
<1>2. StreamInv /\ [Next]_vars => [Feed!Next]_(Feed!feedVars)
  <2> SUFFICES ASSUME StreamInv, [Next]_vars, ~UNCHANGED <<emitted, delivered>>
               PROVE  Feed!Next
    BY DEF Feed!feedVars
  <2> USE DEF StreamInv, StreamTypes
  <2>1. CASE Emit
    BY <2>1 DEF Emit, Feed!Next, Feed!Emit
  <2>2. ASSUME NEW i \in Attempts, Message(i) PROVE Feed!Next
    <3> DEFINE e == upNext[i]
    <3>1. e \in 1 .. emitted /\ delivered' = Append(delivered, e) /\ UNCHANGED emitted
      BY <2>2 DEF Message, ResumesAfterLast
    <3>2. delivered # << >> => e = delivered[Len(delivered)] + 1
      BY <2>2 DEF Message, ResumesAfterLast, AfterIdIsLast
    <3> QED
      BY <3>1, <3>2 DEF Feed!Next, Feed!Deliver
  <2>3. Emit \/ \E i \in Attempts : Message(i)
    BY DEF Next, Progress, TimerFires, BuildSucceeds, Opens, CloseDone, BuildFails, Lost,
           Unsubscribe, vars, feedVars
  <2> QED
    BY <2>1, <2>2, <2>3
<1> QED
  BY <1>1, <1>2, StreamInvariant, PTL DEF Spec, ImplementsFeed, Feed!Spec
=============================================================================
