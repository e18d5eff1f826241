---------------------------- MODULE PyNonceProof ----------------------------
(***************************************************************************)
(* The allocator is correct for any number of threads, calls and clock     *)
(* values.  The inductive invariant ties the lock to the threads between   *)
(* Acquire and Store: only the holder is there, so the `last` it computed  *)
(* its candidate from is still the `last` it overwrites.  It survives a    *)
(* restart, after which what earlier processes were granted matters only   *)
(* through its clock readings: no nonce is behind its own.                 *)
(***************************************************************************)
EXTENDS PyNonceRestart, TLAPS

\* Who is in the critical section holds the lock, and has read a real clock.
HolderInside ==
  \A t \in Threads :
    /\ pc[t] \in {"locked", "computed"} => lock = t
    /\ pc[t] # "idle" => now[t] \in Clock

\* A computed candidate is the step from the current `last`.
CandidateIsFresh ==
  \A t \in Threads : pc[t] = "computed" => candidate[t] = Step(last, now[t])

\* `last` is the newest nonce handed out, 0 before the first.
LastIsNewest ==
  last = IF granted = << >> THEN 0 ELSE granted[Len(granted)].nonce

\* At most MaxCalls nonces, and room for one more while the lock is held.
CallsBounded ==
  /\ Len(granted) <= MaxCalls
  /\ \A t \in Threads :
       pc[t] \in {"locked", "computed"} => Len(granted) < MaxCalls

IInv ==
  /\ TypeOK
  /\ HolderInside
  /\ CandidateIsFresh
  /\ LastIsNewest
  /\ CallsBounded
  /\ StrictlyIncreasing
  /\ LeadIsTheBurst

USE MaxClockAssumption, MaxCallsAssumption, NoThreadAssumption, ClockAssumption

LEMMA StepIsAbove ==
  ASSUME NEW l \in Nat, NEW n \in Nat
  PROVE  /\ Step(l, n) \in Nat
         /\ Step(l, n) > l
         /\ Step(l, n) = n \/ Step(l, n) = l + 1
BY DEF Step

\* One more call than there were pushes the lead over the clock up by one.
LEMMA StepStaysInBound ==
  ASSUME IInv, NEW t \in Threads, pc[t] = "locked"
  PROVE  Step(last, now[t]) \in Nonce
<1> DEFINE k == Len(granted)
<1> DEFINE E == [nonce : Nonce, now : Clock]
<1>1. now[t] \in Clock /\ last \in Nat /\ k < MaxCalls
  BY DEF IInv, TypeOK, HolderInside, CallsBounded, Nonce
<1>2. /\ k \in Nat /\ DOMAIN granted = 1..k
      /\ \A i \in 1..k : granted[i] \in E
      /\ k = 0 <=> granted = << >>
  <2>1. granted \in Seq(E)
    BY DEF IInv, TypeOK
  <2> HIDE DEF E
  <2> QED
    BY <2>1
<1>3. last <= MaxClock + k
  <2>1. CASE k = 0
    BY <2>1, <1>2 DEF IInv, LastIsNewest
  <2>2. CASE k > 0
    <3>1. PICK i \in 1..k : granted[k].nonce = granted[i].now + (k - i)
      BY <2>2, <1>2 DEF IInv, LeadIsTheBurst
    <3>2. granted[i].now \in Clock
      BY <1>2
    <3>3. last = granted[k].nonce
      BY <2>2, <1>2 DEF IInv, LastIsNewest
    <3> QED
      BY <3>1, <3>2, <3>3, <1>2 DEF Clock
  <2> QED
    BY <2>1, <2>2, <1>2
<1> QED
  BY <1>1, <1>2, <1>3 DEF Step, Clock, Nonce

\* The invariant holds initially.
LEMMA InitIInv == Init => IInv
<1> SUFFICES ASSUME Init PROVE IInv
  OBVIOUS
<1>1. TypeOK
  BY DEF Init, TypeOK, Clock, Nonce
<1>2. HolderInside /\ CandidateIsFresh
  BY DEF Init, HolderInside, CandidateIsFresh
<1>3. LastIsNewest /\ CallsBounded
  BY DEF Init, LastIsNewest, CallsBounded
<1>4. StrictlyIncreasing /\ LeadIsTheBurst
  BY DEF Init, StrictlyIncreasing, LeadIsTheBurst
<1> QED
  BY <1>1, <1>2, <1>3, <1>4 DEF IInv

\* Appending the holder's candidate keeps the history increasing, and extends
\* the burst or starts a new one.
LEMMA StoreIInv ==
  ASSUME IInv, NEW t \in Threads, Store(t)
  PROVE  IInv'
<1> DEFINE E == [nonce : Nonce, now : Clock]
<1> DEFINE e == [nonce |-> candidate[t], now |-> now[t]]
<1> DEFINE k == Len(granted)
<1>1. granted \in Seq(E) /\ e \in E /\ granted' = Append(granted, e)
  BY DEF IInv, TypeOK, HolderInside, Store
<1>2. /\ k \in Nat
      /\ Len(granted') = k + 1
      /\ DOMAIN granted' = 1..(k + 1)
      /\ DOMAIN granted = 1..k
      /\ granted'[k + 1] = e
      /\ \A i \in 1..k : granted'[i] = granted[i]
      /\ \A i \in 1..k : granted[i] \in E
      /\ granted' \in Seq(E)
      /\ granted' # << >>
      /\ k = 0 <=> granted = << >>
  <2> HIDE DEF e, E
  <2> QED
    BY <1>1
<1>3. /\ granted'[k + 1].nonce = candidate[t]
      /\ granted'[k + 1].now = now[t]
      /\ \A i \in 1..k : granted[i].nonce \in Nat /\ granted[i].now \in Nat
  BY <1>2 DEF Clock, Nonce
<1>4. /\ candidate[t] = Step(last, now[t])
      /\ last \in Nat /\ now[t] \in Nat /\ now[t] > 0
      /\ pc[t] = "computed" /\ lock = t
  BY DEF IInv, TypeOK, HolderInside, CandidateIsFresh, Store, Clock, Nonce
<1>5. /\ candidate[t] \in Nat
      /\ candidate[t] > last
      /\ candidate[t] = now[t] \/ candidate[t] = last + 1
  BY <1>4, StepIsAbove
<1>6. /\ \A u \in Threads : u # t => pc'[u] = pc[u] /\ pc[u] \in {"idle", "waiting"}
      /\ pc'[t] = "idle"
  BY <1>4 DEF IInv, TypeOK, HolderInside, Store
<1> HIDE DEF k, e
<1>7. TypeOK'
  BY <1>2, <1>5 DEF IInv, TypeOK, Store
<1>8. HolderInside' /\ CandidateIsFresh'
  BY <1>6 DEF IInv, TypeOK, HolderInside, CandidateIsFresh, Store
<1>9. LastIsNewest'
  BY <1>2, <1>3 DEF LastIsNewest, Store
<1>10. CallsBounded'
  <2>1. k < MaxCalls
    BY <1>4 DEF IInv, CallsBounded, k
  <2> QED
    BY <2>1, <1>2, <1>6 DEF CallsBounded
<1>11. (k = 0 => last = 0) /\ (k > 0 => last = granted[k].nonce)
  BY <1>2 DEF IInv, LastIsNewest, k
<1>12. StrictlyIncreasing'
  <2>1. \A i, j \in 1..k : i < j => granted[i].nonce < granted[j].nonce
    BY <1>2 DEF IInv, StrictlyIncreasing
  <2> SUFFICES ASSUME NEW i \in 1..(k + 1), NEW j \in 1..(k + 1), i < j
               PROVE  granted'[i].nonce < granted'[j].nonce
    BY <1>2 DEF StrictlyIncreasing
  <2>2. i \in 1..k
    BY <1>2
  <2>3. CASE j \in 1..k
    BY <2>1, <2>2, <2>3, <1>2
  <2>4. CASE j = k + 1
    <3>1. granted[i].nonce <= last
      BY <2>1, <2>2, <1>2, <1>3, <1>11
    <3> QED
      BY <3>1, <2>2, <2>4, <1>2, <1>3, <1>4, <1>5
  <2> QED
    BY <2>3, <2>4, <1>2
<1>13. LeadIsTheBurst'
  <2>1. \A j \in 1..k : \E i \in 1..j : granted[j].nonce = granted[i].now + (j - i)
    BY <1>2 DEF IInv, LeadIsTheBurst
  <2> SUFFICES ASSUME NEW j \in 1..(k + 1)
               PROVE  \E i \in 1..j : granted'[j].nonce = granted'[i].now + (j - i)
    BY <1>2 DEF LeadIsTheBurst
  <2>2. CASE j \in 1..k
    <3>1. PICK i \in 1..j : granted[j].nonce = granted[i].now + (j - i)
      BY <2>1, <2>2
    <3>2. i \in 1..k
      BY <2>2, <1>2
    <3> QED
      BY <3>1, <3>2, <2>2, <1>2
  <2>3. CASE j = k + 1 /\ candidate[t] = now[t]
    <3>1. j \in 1..j /\ granted'[j].nonce = granted'[j].now + (j - j)
      BY <2>3, <1>2, <1>3, <1>4
    <3> QED
      BY <3>1
  <2>4. CASE j = k + 1 /\ candidate[t] = last + 1 /\ k > 0
    <3>1. PICK i \in 1..k : granted[k].nonce = granted[i].now + (k - i)
      BY <2>1, <2>4, <1>2
    <3>2. i \in 1..j /\ granted'[j].nonce = granted'[i].now + (j - i)
      BY <3>1, <2>4, <1>2, <1>3, <1>11
    <3> QED
      BY <3>2
  <2>5. CASE j = k + 1 /\ k = 0
    <3>1. candidate[t] = now[t]
      BY <2>5, <1>4, <1>11 DEF Step
    <3> QED
      BY <3>1, <2>3, <2>5
  <2> QED
    BY <2>2, <2>3, <2>4, <2>5, <1>2, <1>5
<1> QED
  BY <1>7, <1>8, <1>9, <1>10, <1>12, <1>13 DEF IInv

\* Every step preserves the invariant.
LEMMA NextIInv == IInv /\ [Next]_vars => IInv'
<1> SUFFICES ASSUME IInv, [Next]_vars PROVE IInv'
  OBVIOUS
<1> USE DEF IInv, TypeOK, HolderInside, CandidateIsFresh, LastIsNewest,
            CallsBounded, StrictlyIncreasing, LeadIsTheBurst
<1>1. ASSUME NEW t \in Threads, ReadClock(t) PROVE IInv'
  BY <1>1 DEF ReadClock, Clock
<1>2. ASSUME NEW t \in Threads, Acquire(t) PROVE IInv'
  BY <1>2 DEF Acquire
<1>3. ASSUME NEW t \in Threads, Compute(t) PROVE IInv'
  <2>1. Step(last, now[t]) \in Nonce
    BY <1>3, StepStaysInBound DEF Compute
  <2>2. \A u \in Threads : u # t => pc[u] \notin {"locked", "computed"}
    BY <1>3 DEF Compute
  <2> QED
    BY <1>3, <2>1, <2>2 DEF Compute
<1>4. ASSUME NEW t \in Threads, Store(t) PROVE IInv'
  BY <1>4, StoreIInv
<1>5. ASSUME ClockMoves PROVE IInv'
  BY <1>5 DEF ClockMoves
<1>6. ASSUME UNCHANGED vars PROVE IInv'
  BY <1>6 DEF vars
<1> QED
  BY <1>1, <1>2, <1>3, <1>4, <1>5, <1>6 DEF Next

-----------------------------------------------------------------------------

\* The inductive invariant, of which the run's invariants are conjuncts.
THEOREM AllocatorInvariant == Spec => []IInv
BY InitIInv, NextIInv, PTL DEF Spec

\* Every variable keeps its type, the bound on the lead over the clock included.
THEOREM TypeCorrect == Spec => [](TypeOK)
<1>1. IInv => TypeOK
  BY DEF IInv
<1> QED
  BY <1>1, AllocatorInvariant, PTL

\* No nonce is handed out twice, by any two threads, in any order of their
\* clock readings and however the clock moves (nonce.py:57-67).
THEOREM NoncesIncrease == Spec => []StrictlyIncreasing
<1>1. IInv => StrictlyIncreasing
  BY DEF IInv
<1> QED
  BY <1>1, AllocatorInvariant, PTL

\* A nonce leads the clock by no more than the burst it belongs to.
THEOREM LeadIsBounded == Spec => []LeadIsTheBurst
<1>1. IInv => LeadIsTheBurst
  BY DEF IInv
<1> QED
  BY <1>1, AllocatorInvariant, PTL

-----------------------------------------------------------------------------

\* Every step of the allocator is a step of the service or changes nothing of it.
LEMMA StepRefinesService ==
  IInv /\ IInv' /\ [Next]_vars => [Service!Next]_issuedNonces
<1> SUFFICES ASSUME IInv, IInv', [Next]_vars
             PROVE  Service!Next \/ UNCHANGED issuedNonces
  OBVIOUS
<1>1. CASE UNCHANGED granted
  BY <1>1 DEF issuedNonces
<1>2. ASSUME NEW t \in Threads, Store(t) PROVE Service!Next
  <2> DEFINE E == [nonce : Nonce, now : Clock]
  <2> DEFINE e == [nonce |-> candidate[t], now |-> now[t]]
  <2> DEFINE k == Len(granted)
  <2>1. /\ granted \in Seq(E) /\ e \in E /\ granted' = Append(granted, e)
        /\ candidate[t] \in Nonce
    BY <1>2 DEF IInv, TypeOK, HolderInside, Store
  <2>2. /\ k \in Nat
        /\ DOMAIN granted = 1..k /\ DOMAIN granted' = 1..(k + 1)
        /\ granted'[k + 1] = e
        /\ \A i \in 1..k : granted[i] \in E /\ granted'[i] = granted[i]
    <3> HIDE DEF e, E
    <3> QED
      BY <2>1
  <2>3. /\ issuedNonces \in Seq(Nonce)
        /\ Len(issuedNonces) = k
        /\ DOMAIN issuedNonces = 1..k
    BY <2>2 DEF issuedNonces
  <2>4. issuedNonces' = Append(issuedNonces, candidate[t])
    <3>1. issuedNonces' = [i \in 1..(k + 1) |-> granted'[i].nonce]
      BY <2>2 DEF issuedNonces
    <3>2. issuedNonces = [i \in 1..k |-> granted[i].nonce]
      BY <2>2 DEF issuedNonces
    <3>3. Append(issuedNonces, candidate[t]) =
            [i \in 1..(k + 1) |->
               IF i = k + 1 THEN candidate[t] ELSE issuedNonces[i]]
      BY <2>3, <2>2
    <3>4. \A i \in 1..(k + 1) : granted'[i].nonce =
             IF i = k + 1 THEN candidate[t] ELSE issuedNonces[i]
      <4>1. granted'[k + 1].nonce = candidate[t]
        BY <2>2
      <4>2. \A i \in 1..k : granted'[i].nonce = issuedNonces[i]
        BY <2>2, <3>2
      <4> QED
        BY <4>1, <4>2, <2>2
    <3> HIDE DEF k, e
    <3> QED
      BY <3>1, <3>3, <3>4
  <2>5. \A i \in DOMAIN issuedNonces : issuedNonces[i] < candidate[t]
    <3>1. \A i \in 1..k : granted'[i].nonce < granted'[k + 1].nonce
      BY <2>2 DEF IInv, StrictlyIncreasing
    <3> QED
      BY <3>1, <2>2, <2>3 DEF issuedNonces
  <2>6. Service!Issue(candidate[t])
    BY <2>4, <2>5 DEF Service!Issue
  <2> QED
    BY <2>1, <2>6 DEF Service!Next
<1>3. ASSUME NEW t \in Threads, ReadClock(t) \/ Acquire(t) \/ Compute(t)
      PROVE  UNCHANGED granted
  BY <1>3 DEF ReadClock, Acquire, Compute
<1>4. ASSUME ClockMoves \/ UNCHANGED vars PROVE UNCHANGED granted
  BY <1>4 DEF ClockMoves, vars
<1> QED
  BY <1>1, <1>2, <1>3, <1>4 DEF Next

\* The allocator implements the nonce service for any number of threads.
THEOREM AllocatorImplementsService == Spec => ImplementsService
<1>1. Init => Service!Init
  BY DEF Init, Service!Init, issuedNonces
<1> QED
  BY <1>1, StepRefinesService, AllocatorInvariant, PTL
     DEF Spec, ImplementsService, Service!Spec

-----------------------------------------------------------------------------
\* Restarts.

\* No nonce is behind the clock reading it was made from, in this process or in
\* an earlier one.
NoncesNotBehind ==
  /\ \A i \in DOMAIN granted : granted[i].nonce >= granted[i].now
  /\ \A e \in earlier : e.nonce \in Nat /\ e.now \in Nat /\ e.nonce >= e.now
  /\ restartedAt \in Nat

RestartInv == IInv /\ NoncesNotBehind

\* A new process starts from the state the first one started from.
LEMMA RestartIInv ==
  ASSUME IInv, Restart
  PROVE  IInv'
<1>1. TypeOK'
  <2>1. granted' \in Seq([nonce : Nonce, now : Clock])
    BY DEF Restart
  <2>2. 0 \in Nonce
    BY DEF Nonce
  <2> QED
    BY <2>1, <2>2 DEF IInv, TypeOK, Restart
<1>2. HolderInside' /\ CandidateIsFresh'
  BY DEF Restart, HolderInside, CandidateIsFresh
<1>3. LastIsNewest' /\ CallsBounded'
  BY DEF Restart, LastIsNewest, CallsBounded
<1>4. StrictlyIncreasing' /\ LeadIsTheBurst'
  BY DEF Restart, StrictlyIncreasing, LeadIsTheBurst
<1> QED
  BY <1>1, <1>2, <1>3, <1>4 DEF IInv

\* The entries of the history have numbers in them.
LEMMA GrantedNumbers ==
  ASSUME IInv
  PROVE  \A i \in DOMAIN granted : granted[i].nonce \in Nat /\ granted[i].now \in Nat
<1> DEFINE E == [nonce : Nonce, now : Clock]
<1>1. granted \in Seq(E)
  BY DEF IInv, TypeOK
<1>2. \A i \in DOMAIN granted : granted[i] \in E
  <2> HIDE DEF E
  <2> QED
    BY <1>1
<1> QED
  BY <1>2 DEF Nonce, Clock

LEMMA StoreNotBehind ==
  ASSUME IInv, NoncesNotBehind, NEW t \in Threads, Store(t)
  PROVE  \A i \in DOMAIN granted' : granted'[i].nonce >= granted'[i].now
<1> DEFINE E == [nonce : Nonce, now : Clock]
<1> DEFINE e == [nonce |-> candidate[t], now |-> now[t]]
<1> DEFINE k == Len(granted)
<1>1. granted \in Seq(E) /\ e \in E /\ granted' = Append(granted, e)
  BY DEF IInv, TypeOK, HolderInside, Store
<1>2. /\ k \in Nat /\ DOMAIN granted = 1..k /\ DOMAIN granted' = 1..(k + 1)
      /\ granted'[k + 1] = e
      /\ \A i \in 1..k : granted'[i] = granted[i]
  <2> HIDE DEF e, E
  <2> QED
    BY <1>1
<1>3. e.nonce >= e.now
  BY DEF IInv, TypeOK, HolderInside, CandidateIsFresh, Store, Step, Clock, Nonce
<1> HIDE DEF e, k
<1> QED
  BY <1>2, <1>3 DEF NoncesNotBehind

LEMMA RestartInvariant == RestartSpec => []RestartInv
<1>1. RestartInit => RestartInv
  BY InitIInv DEF RestartInit, RestartInv, NoncesNotBehind, Init
<1>2. RestartInv /\ [RestartNext]_<<vars, restartVars>> => RestartInv'
  <2> SUFFICES ASSUME RestartInv, [RestartNext]_<<vars, restartVars>> PROVE RestartInv'
    OBVIOUS
  <2>1. CASE Restart
    <3>1. IInv'
      BY <2>1, RestartIInv DEF RestartInv
    <3>2. clock \in Nat
      BY DEF RestartInv, IInv, TypeOK, Clock
    <3>3. NoncesNotBehind'
      BY <2>1, <3>2, GrantedNumbers DEF Restart, RestartInv, NoncesNotBehind
    <3> QED
      BY <3>1, <3>3 DEF RestartInv
  <2>2. CASE [Next]_vars /\ UNCHANGED restartVars
    <3>1. IInv'
      BY <2>2, NextIInv DEF RestartInv
    <3>2. \A i \in DOMAIN granted' : granted'[i].nonce >= granted'[i].now
      <4>1. CASE UNCHANGED granted
        BY <4>1 DEF RestartInv, NoncesNotBehind
      <4>2. CASE \E t \in Threads : Store(t)
        BY <4>2, StoreNotBehind DEF RestartInv
      <4> QED
        BY <2>2, <4>1, <4>2 DEF Next, ReadClock, Acquire, Compute, ClockMoves, vars
    <3> QED
      BY <2>2, <3>1, <3>2 DEF RestartInv, NoncesNotBehind, restartVars
  <2> QED
    BY <2>1, <2>2 DEF RestartNext
<1> QED
  BY <1>1, <1>2, PTL DEF RestartSpec

\* The lead over the clock stays that of a burst in every process.
THEOREM LeadIsBoundedAfterRestarts == RestartSpec => []LeadIsTheBurst
<1>1. RestartInv => LeadIsTheBurst
  BY DEF RestartInv, IInv
<1> QED
  BY <1>1, RestartInvariant, PTL

\* A restarted process repeats an earlier nonce only where the clock was set back, a
\* burst had outrun it, or it was read in the millisecond of the restart, however
\* many restarts there were.
THEOREM OnlyBurstsRepeat == RestartSpec => []RepeatsNeedABurst
<1>1. RestartInv => RepeatsNeedABurst
  BY GrantedNumbers DEF RestartInv, NoncesNotBehind, RepeatsNeedABurst
<1> QED
  BY <1>1, RestartInvariant, PTL

\* Between restarts the process is the nonce service.
THEOREM RunsImplementService == RestartSpec => EachRunImplementsService
<1>1. RestartInit => Service!Init
  BY DEF RestartInit, Init, Service!Init, issuedNonces
<1>2. RestartInv /\ RestartInv' /\ [RestartNext]_<<vars, restartVars>>
        => [Service!Next \/ Restart]_issuedNonces
  <2> SUFFICES ASSUME RestartInv, RestartInv', [RestartNext]_<<vars, restartVars>>
               PROVE  [Service!Next \/ Restart]_issuedNonces
    OBVIOUS
  <2>1. CASE [Next]_vars
    BY <2>1, StepRefinesService DEF RestartInv
  <2>2. CASE Restart
    BY <2>2
  <2> QED
    BY <2>1, <2>2 DEF RestartNext
<1> QED
  BY <1>1, <1>2, RestartInvariant, PTL DEF RestartSpec, EachRunImplementsService
=============================================================================
