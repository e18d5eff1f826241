------------------------------- MODULE PyNonce -------------------------------
(***************************************************************************)
(* The Python binding's NonceAllocator (nonce.py).  allocate() reads the   *)
(* wall clock BEFORE it takes the lock, so the readings of two threads may *)
(* be applied in the opposite order; the step inside the lock has to make  *)
(* up for it, and for a clock that is set back.                            *)
(***************************************************************************)
EXTENDS Naturals, Sequences

CONSTANTS
  Threads,           \* the threads that share one client
  NoThread,          \* the value of a lock nobody holds
  MaxClock,          \* bound: the wall clock reads 1..MaxClock
  MaxCalls,          \* bound: number of nonces handed out in a behaviour
  ClockMayStepBack   \* whether the wall clock is ever set back

ASSUME MaxClockAssumption == MaxClock \in Nat \ {0}
ASSUME MaxCallsAssumption == MaxCalls \in Nat
ASSUME NoThreadAssumption == NoThread \notin Threads
ASSUME ClockAssumption == ClockMayStepBack \in BOOLEAN

VARIABLES
  clock,     \* time.time_ns() // 1_000_000
  lock,      \* self._lock: its holder
  last,      \* self._last
  pc,        \* where each thread is inside allocate()
  now,       \* each thread's local `now`
  candidate, \* each thread's local `candidate`
  granted    \* history: what allocate() returned, in the order of the stores

vars == <<clock, lock, last, pc, now, candidate, granted>>

Clock == 1..MaxClock
Nonce == 0..(MaxClock + MaxCalls)

Init ==
  /\ clock \in Clock
  /\ lock = NoThread
  /\ last = 0
  /\ pc = [t \in Threads |-> "idle"]
  /\ now = [t \in Threads |-> 0]
  /\ candidate = [t \in Threads |-> 0]
  /\ granted = << >>

StepByTwo(l, n) == IF n > l THEN n ELSE l + 2
StepWithoutClock(l, n) == l + 1

\* NonceAllocator.step: max(now_ms, last + 1).
Step(l, n) == IF n > l THEN n ELSE l + 1

\* `now = self._now_ms()`, outside the lock.
ReadClock(t) ==
  /\ pc[t] = "idle"
  /\ pc' = [pc EXCEPT ![t] = "waiting"]
  /\ now' = [now EXCEPT ![t] = clock]
  /\ UNCHANGED <<clock, lock, last, candidate, granted>>

AcquireIgnoringHolder(t) ==
  /\ pc[t] = "waiting"
  /\ Len(granted) < MaxCalls
  /\ lock' = t
  /\ pc' = [pc EXCEPT ![t] = "locked"]
  /\ UNCHANGED <<clock, last, now, candidate, granted>>

\* `with self._lock:`
Acquire(t) ==
  /\ pc[t] = "waiting"
  /\ lock = NoThread
  /\ Len(granted) < MaxCalls
  /\ lock' = t
  /\ pc' = [pc EXCEPT ![t] = "locked"]
  /\ UNCHANGED <<clock, last, now, candidate, granted>>

\* `candidate = self.step(self._last, now)`
Compute(t) ==
  /\ pc[t] = "locked"
  /\ candidate' = [candidate EXCEPT ![t] = Step(last, now[t])]
  /\ pc' = [pc EXCEPT ![t] = "computed"]
  /\ UNCHANGED <<clock, lock, last, now, granted>>

\* `self._last = candidate; return candidate`, and the release of the lock.
Store(t) ==
  /\ pc[t] = "computed"
  /\ last' = candidate[t]
  /\ granted' = Append(granted, [nonce |-> candidate[t], now |-> now[t]])
  /\ lock' = NoThread
  /\ pc' = [pc EXCEPT ![t] = "idle"]
  /\ UNCHANGED <<clock, now, candidate>>

\* The system clock ticks, or is set back when that is allowed.
ClockMoves ==
  /\ \E c \in Clock :
       /\ ClockMayStepBack \/ c > clock
       /\ clock' = c
  /\ UNCHANGED <<lock, last, pc, now, candidate, granted>>

Next ==
  \/ \E t \in Threads : ReadClock(t) \/ Acquire(t) \/ Compute(t) \/ Store(t)
  \/ ClockMoves

Spec == Init /\ [][Next]_vars

-----------------------------------------------------------------------------

\* Every variable stays in its type; in particular no nonce runs further ahead
\* of the wall clock than one millisecond per call (nonce.py:55).
TypeOK ==
  /\ clock \in Clock
  /\ lock \in Threads \cup {NoThread}
  /\ last \in Nonce
  /\ pc \in [Threads -> {"idle", "waiting", "locked", "computed"}]
  /\ now \in [Threads -> 0..MaxClock]
  /\ candidate \in [Threads -> Nonce]
  /\ granted \in Seq([nonce : Nonce, now : Clock])

\* Two allocations never return the same nonce and the lock order is the order
\* of the nonces, whatever the order in which the threads read the clock
\* (nonce.py:57-67).
StrictlyIncreasing ==
  \A i, j \in DOMAIN granted : i < j => granted[i].nonce < granted[j].nonce

\* A nonce is ahead of the wall clock only by the length of the burst it is in:
\* it is some earlier (or its own) clock reading plus one for every call since.
\* This is what keeps a client inside the engine's future bound (nonce.py:17).
LeadIsTheBurst ==
  \A j \in DOMAIN granted : \E i \in 1..j :
    granted[j].nonce = granted[i].now + (j - i)

issuedNonces == [i \in DOMAIN granted |-> granted[i].nonce]

Service == INSTANCE NonceService WITH Nonces <- Nonce, issued <- issuedNonces

\* The allocator implements the abstract nonce service: whatever the threads
\* and the clock do, a client of it sees one increasing sequence (nonce.py:57).
ImplementsService == Service!Spec
=============================================================================
