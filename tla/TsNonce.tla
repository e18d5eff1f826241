------------------------------- MODULE TsNonce -------------------------------
(***************************************************************************)
(* The TypeScript binding's nextTimestampNonce (client.ts).  One JavaScript*)
(* thread runs it to completion, so a call is one step; what can go wrong  *)
(* is the wall clock, and the cap that keeps a nonce within 60 s of it.    *)
(***************************************************************************)
EXTENDS Naturals, Sequences

CONSTANTS
  Cap,               \* the 60_000 ms a nonce may lead the clock by
  MaxClock,          \* bound: the wall clock reads 1..MaxClock
  MaxCalls           \* bound: number of nonces allocated in a behaviour

ASSUME CapAssumption == Cap \in Nat
ASSUME MaxClockAssumption == MaxClock \in Nat \ {0}
ASSUME MaxCallsAssumption == MaxCalls \in Nat

VARIABLES
  clock,     \* Date.now()
  last,      \* this.lastTimestampNonce
  granted    \* history: the nonces returned, each with its clock reading

vars == <<clock, last, granted>>

Clock == 1..MaxClock
Nonce == 0..(MaxClock + Cap)

Init ==
  /\ clock \in Clock
  /\ last = 0
  /\ granted = << >>

NextNonceIgnoringLast(l, n) == n
NextNonceStuck(l, n) ==
  LET next == IF l > n THEN l + 1 ELSE n
  IN  IF next > n + Cap THEN n + Cap ELSE next

\* The pure part of nextTimestampNonce.
NextNonce(l, n) ==
  LET next == IF l >= n THEN l + 1 ELSE n
  IN  IF next > n + Cap THEN n + Cap ELSE next

\* nextTimestampNonce()
Allocate ==
  /\ Len(granted) < MaxCalls
  /\ last' = NextNonce(last, clock)
  /\ granted' = Append(granted, [nonce |-> last', now |-> clock])
  /\ UNCHANGED clock

\* The system clock ticks, or is set back.
ClockMoves ==
  /\ clock' \in Clock
  /\ UNCHANGED <<last, granted>>

Next == Allocate \/ ClockMoves

Spec == Init /\ [][Next]_vars

-----------------------------------------------------------------------------

\* Every variable stays in its type; the bound on Nonce is the cap (client.ts:465).
TypeOK ==
  /\ clock \in Clock
  /\ last \in Nonce
  /\ granted \in Seq([nonce : Nonce, now : Clock])

Saturated(g) == g.nonce = g.now + Cap

\* A nonce fails to exceed an earlier one only if a nonce granted since, or
\* itself, hit the cap: away from the cap no clock movement makes the client
\* repeat itself (client.ts:463-471).
OnlyTheCapRepeats ==
  \A i, j \in DOMAIN granted :
    (i < j /\ granted[j].nonce <= granted[i].nonce)
      => \E g \in (i + 1)..j : Saturated(granted[g])

\* The first i calls read a clock that was not set back between them.
ForwardUpTo(i) == \A h \in 1..(i - 1) : granted[h].now <= granted[h + 1].now

\* While the clock is not set back, the first Cap + 1 calls are all distinct: it
\* takes a burst longer than the cap to make the client repeat a nonce
\* (client.ts:463-471).
ShortBurstsIncrease ==
  \A i, j \in DOMAIN granted :
    (i < j /\ j <= Cap + 1 /\ ForwardUpTo(j)) => granted[i].nonce < granted[j].nonce
=============================================================================
