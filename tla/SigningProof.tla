---------------------------- MODULE SigningProof ----------------------------
(***************************************************************************)
(* Signing uses the allocator as it is meant to be used, so that whatever  *)
(* is proved of TsNonce holds of the client; on top of it, posts are in    *)
(* nonce order, and owner and signer differ only after a change of key.    *)
(***************************************************************************)
EXTENDS Signing, TLAPS

-----------------------------------------------------------------------------
\* The allocator by itself, for any cap, any clock and any number of calls.

\* `last` is the newest nonce handed out, 0 before the first.
LastIsNewest ==
  last = IF granted = << >> THEN 0 ELSE granted[Len(granted)].nonce

\* While the clock goes forward, the i-th call leads it by at most i - 1.
LeadWithinBurst ==
  \A i \in DOMAIN granted :
    (i <= Cap + 1 /\ ForwardUpTo(i)) => granted[i].nonce < granted[i].now + i

IInv ==
  /\ TypeOK
  /\ LastIsNewest
  /\ LeadWithinBurst
  /\ OnlyTheCapRepeats
  /\ ShortBurstsIncrease

USE CapAssumption, MaxClockAssumption, MaxCallsAssumption

LEMMA NextNonceBounds ==
  ASSUME NEW l \in Nat, NEW n \in Nat
  PROVE  /\ NextNonce(l, n) \in Nat
         /\ NextNonce(l, n) <= n + Cap
         /\ NextNonce(l, n) <= l => NextNonce(l, n) = n + Cap
         /\ l < n + Cap => NextNonce(l, n) > l
         /\ NextNonce(l, n) <= n \/ NextNonce(l, n) <= l + 1
BY DEF NextNonce

\* A call keeps the invariant.
LEMMA AllocateIInv == IInv /\ Allocate => IInv'
<1> SUFFICES ASSUME IInv, Allocate PROVE IInv'
  OBVIOUS
<1> DEFINE E == [nonce : Nonce, now : Clock]
<1> DEFINE n == NextNonce(last, clock)
<1> DEFINE e == [nonce |-> n, now |-> clock]
<1> DEFINE k == Len(granted)
<1>1. /\ clock \in Nat /\ clock \in Clock /\ last \in Nat
      /\ clock' = clock /\ last' = n
      /\ granted \in Seq(E) /\ granted' = Append(granted, e)
  BY DEF IInv, TypeOK, Allocate, Clock, Nonce
<1>2. /\ n \in Nat /\ n <= clock + Cap
      /\ n <= last => n = clock + Cap
      /\ last < clock + Cap => n > last
      /\ n <= clock \/ n <= last + 1
  BY <1>1, NextNonceBounds
<1>3. n \in Nonce /\ e \in E
  BY <1>1, <1>2 DEF Clock, Nonce
<1>4. /\ k \in Nat
      /\ Len(granted') = k + 1
      /\ DOMAIN granted' = 1..(k + 1) /\ DOMAIN granted = 1..k
      /\ granted'[k + 1] = e
      /\ \A i \in 1..k : granted'[i] = granted[i]
      /\ \A i \in 1..k : granted[i] \in E
      /\ granted' \in Seq(E) /\ granted' # << >>
      /\ k = 0 <=> granted = << >>
  <2> HIDE DEF e, E
  <2> QED
    BY <1>1, <1>3
<1>5. /\ granted'[k + 1].nonce = n /\ granted'[k + 1].now = clock
      /\ \A i \in 1..k : granted[i].nonce \in Nat /\ granted[i].now \in Nat
  BY <1>4 DEF Clock, Nonce
<1>6. (k = 0 => last = 0) /\ (k > 0 => last = granted[k].nonce)
  BY <1>4 DEF IInv, LastIsNewest
<1> HIDE DEF k, e, n
<1>7. TypeOK'
  BY <1>1, <1>3, <1>4 DEF IInv, TypeOK
<1>8. LastIsNewest'
  BY <1>1, <1>4, <1>5 DEF LastIsNewest
<1>9. ASSUME NEW m \in Nat, m = k + 1, m <= Cap + 1, ForwardUpTo(m)'
      PROVE  n > last /\ n < clock + m
  <2>1. CASE k = 0
    BY <2>1, <1>9, <1>1, <1>2, <1>6 DEF n, NextNonce, IInv, TypeOK, Clock
  <2>2. CASE k > 0
    <3>1. granted[k].now <= clock
      <4>1. k \in 1..(m - 1) /\ k \in 1..k
        BY <2>2, <1>9, <1>4
      <4> QED
        BY <4>1, <1>9, <1>4, <1>5 DEF ForwardUpTo
    <3>2. ForwardUpTo(k)
      <4> SUFFICES ASSUME NEW h \in 1..(k - 1) PROVE granted[h].now <= granted[h + 1].now
        BY DEF ForwardUpTo
      <4>1. h \in 1..(m - 1) /\ h \in 1..k /\ h + 1 \in 1..k
        BY <2>2, <1>9, <1>4
      <4> QED
        BY <4>1, <1>9, <1>4 DEF ForwardUpTo
    <3>3. granted[k].nonce < granted[k].now + k
      BY <3>2, <2>2, <1>9, <1>4 DEF IInv, LeadWithinBurst
    <3> QED
      BY <3>1, <3>3, <2>2, <1>9, <1>1, <1>2, <1>4, <1>5, <1>6
  <2> QED
    BY <2>1, <2>2, <1>4
<1>forward. ASSUME NEW i \in 1..k PROVE ForwardUpTo(i)' <=> ForwardUpTo(i)
  <2>1. \A h \in 1..(i - 1) : granted'[h] = granted[h] /\ granted'[h + 1] = granted[h + 1]
    <3> SUFFICES ASSUME NEW h \in 1..(i - 1)
                 PROVE  granted'[h] = granted[h] /\ granted'[h + 1] = granted[h + 1]
      OBVIOUS
    <3>1. h \in 1..k /\ h + 1 \in 1..k
      BY <1>4
    <3> QED
      BY <3>1, <1>4
  <2> QED
    BY <2>1 DEF ForwardUpTo
<1>10. LeadWithinBurst'
  <2> SUFFICES ASSUME NEW i \in 1..(k + 1), i <= Cap + 1, ForwardUpTo(i)'
               PROVE  granted'[i].nonce < granted'[i].now + i
    BY <1>4 DEF LeadWithinBurst
  <2>1. CASE i \in 1..k
    BY <2>1, <1>forward, <1>4 DEF IInv, LeadWithinBurst
  <2>2. CASE i = k + 1
    BY <2>2, <1>1, <1>4, <1>5, <1>9
  <2> QED
    BY <2>1, <2>2, <1>4
<1>11. OnlyTheCapRepeats'
  <2> SUFFICES ASSUME NEW i \in 1..(k + 1), NEW j \in 1..(k + 1), i < j,
                      granted'[j].nonce <= granted'[i].nonce
               PROVE  \E g \in (i + 1)..j : Saturated(granted'[g])
    BY <1>4 DEF OnlyTheCapRepeats
  <2>1. i \in 1..k
    BY <1>4
  <2>2. ASSUME NEW h \in 1..k, i < h, granted[h].nonce <= granted[i].nonce, h <= j
        PROVE  \E g \in (i + 1)..j : Saturated(granted'[g])
    <3>1. PICK g \in (i + 1)..h : Saturated(granted[g])
      BY <2>1, <2>2, <1>4 DEF IInv, OnlyTheCapRepeats
    <3>2. g \in 1..k /\ g \in (i + 1)..j
      BY <2>1, <2>2, <1>4
    <3>3. Saturated(granted'[g])
      BY <3>1, <3>2, <1>4
    <3> QED
      BY <3>2, <3>3
  <2>3. CASE j \in 1..k
    BY <2>1, <2>2, <2>3, <1>4
  <2>4. CASE j = k + 1 /\ n = clock + Cap
    <3>1. Saturated(granted'[j]) /\ j \in (i + 1)..j
      BY <2>1, <2>4, <1>4, <1>5 DEF Saturated
    <3> QED
      BY <3>1
  <2>5. CASE j = k + 1 /\ n > last
    <3>1. /\ granted'[j].nonce = n /\ granted'[i].nonce = granted[i].nonce
          /\ last = granted[k].nonce /\ k \in 1..k
          /\ granted[i].nonce \in Nat
      BY <2>1, <2>5, <1>4, <1>5, <1>6
    <3>2. granted[k].nonce \in Nat /\ granted[k].nonce < granted[i].nonce
      BY <3>1, <2>5, <1>1, <1>2, <1>5
    <3>3. i # k
      BY <3>1, <3>2
    <3>4. i < k /\ k <= j
      BY <3>3, <2>1, <2>5, <1>4
    <3>5. granted[k].nonce <= granted[i].nonce
      BY <3>1, <3>2
    <3> QED
      BY <3>1, <3>4, <3>5, <2>2
  <2>6. n = clock + Cap \/ n > last
    BY <1>1, <1>2
  <2>7. j \in 1..k \/ j = k + 1
    BY <1>4
  <2> QED
    BY <2>3, <2>4, <2>5, <2>6, <2>7
<1>12. ShortBurstsIncrease'
  <2>1. \A i, j \in 1..k :
          (i < j /\ j <= Cap + 1 /\ ForwardUpTo(j)) => granted[i].nonce < granted[j].nonce
    BY <1>4 DEF IInv, ShortBurstsIncrease
  <2> SUFFICES ASSUME NEW i \in 1..(k + 1), NEW j \in 1..(k + 1),
                      i < j, j <= Cap + 1, ForwardUpTo(j)'
               PROVE  granted'[i].nonce < granted'[j].nonce
    BY <1>4 DEF ShortBurstsIncrease
  <2>2. i \in 1..k
    BY <1>4
  <2>3. CASE j \in 1..k
    BY <2>1, <2>2, <2>3, <1>forward, <1>4
  <2>4. CASE j = k + 1
    <3>1. n > last
      BY <2>4, <1>4, <1>9
    <3>2. k \in 1..k /\ k <= Cap + 1
      BY <2>2, <2>4, <1>4
    <3>3. ForwardUpTo(k)
      <4> SUFFICES ASSUME NEW h \in 1..(k - 1) PROVE granted[h].now <= granted[h + 1].now
        BY DEF ForwardUpTo
      <4>1. h \in 1..(j - 1) /\ h \in 1..k /\ h + 1 \in 1..k
        BY <2>4, <1>4
      <4> QED
        BY <4>1, <1>4 DEF ForwardUpTo
    <3>4. granted[i].nonce <= last
      BY <2>1, <2>2, <3>2, <3>3, <1>4, <1>5, <1>6
    <3> QED
      BY <3>1, <3>4, <2>2, <2>4, <1>1, <1>2, <1>4, <1>5
  <2> QED
    BY <2>3, <2>4, <1>4
<1> QED
  BY <1>7, <1>8, <1>10, <1>11, <1>12 DEF IInv

\* A movement of the clock keeps the invariant, which says nothing of it.
LEMMA ClockIInv == IInv /\ ClockMoves => IInv'
BY DEF IInv, ClockMoves, TypeOK, LastIsNewest, LeadWithinBurst, OnlyTheCapRepeats,
       ShortBurstsIncrease, ForwardUpTo

\* The inductive invariant, of which the runs' invariants are conjuncts.
THEOREM AllocatorInvariant == Spec => []IInv
<1>1. Init => IInv
  BY DEF Init, IInv, TypeOK, LastIsNewest, LeadWithinBurst, OnlyTheCapRepeats,
         ShortBurstsIncrease, Nonce, Clock
<1>2. IInv /\ UNCHANGED vars => IInv'
  BY DEF vars, IInv, TypeOK, LastIsNewest, LeadWithinBurst, OnlyTheCapRepeats,
         ShortBurstsIncrease, ForwardUpTo
<1>3. IInv /\ [Next]_vars => IInv'
  BY <1>2, AllocateIInv, ClockIInv DEF Next
<1> QED
  BY <1>1, <1>3, PTL DEF Spec

\* Every variable keeps its type; no nonce leads the clock by more than the cap.
THEOREM TypeCorrect == Spec => []TypeOK
<1>1. IInv => TypeOK
  BY DEF IInv
<1> QED
  BY <1>1, AllocatorInvariant, PTL

\* Away from the cap the client never repeats itself, nor goes back, however the clock moves
\* (client.ts:463-471).
THEOREM RepeatsNeedTheCap == Spec => []OnlyTheCapRepeats
<1>1. IInv => OnlyTheCapRepeats
  BY DEF IInv
<1> QED
  BY <1>1, AllocatorInvariant, PTL

\* While the clock is not set back, the first Cap + 1 calls are distinct.
THEOREM ShortBurstsAreDistinct == Spec => []ShortBurstsIncrease
<1>1. IInv => ShortBurstsIncrease
  BY DEF IInv
<1> QED
  BY <1>1, AllocatorInvariant, PTL

-----------------------------------------------------------------------------
\* The client that signs with it.

\* The variables of Signing itself keep their types.
SigningTypes ==
  /\ privateKey \in Keys \cup {BadKey, NoKey}
  /\ address \in Keys \cup {NoKey}
  /\ state \in [Calls -> {"idle", "awaiting", "posted", "thrown"}]
  /\ owner \in [Calls -> Keys \cup {NoKey}]
  /\ swapped \in SUBSET Calls
  /\ posted \in Seq([call : Calls, owner : Keys, signer : Keys, nonce : Nonce,
                     grant : 1..MaxCalls])

\* A usable key is the one the address was derived from.
KeyIsAddress == privateKey \in Keys => address = privateKey

\* A call that awaits has an owner; unless the key changed, it is the address.
AwaitingOwner ==
  \A c \in Calls : state[c] = "awaiting" =>
    /\ owner[c] \in Keys
    /\ privateKey # NoKey
    /\ c \notin swapped => owner[c] = address

\* Envelopes carry the nonces granted to them, in the order of the grants.
PostedAsGranted ==
  /\ \A i \in DOMAIN posted :
       /\ posted[i].grant \in DOMAIN granted
       /\ posted[i].nonce = granted[posted[i].grant].nonce
  /\ \A i, j \in DOMAIN posted : i < j => posted[i].grant < posted[j].grant

SInv ==
  /\ SigningTypes
  /\ KeyIsAddress
  /\ AwaitingOwner
  /\ PostedAsGranted
  /\ MismatchNeedsASwap

USE KeysAssumption

\* Signing takes nonces only by Allocate.
LEMMA StepRefinesAllocator == [SigningNext]_signingVars => [Next]_vars
BY DEF SigningNext, SetPrivateKey, Build, SignAndPost, Abandon, Next, signingVars, vars

\* The client is a user of the allocator: every behaviour is one of TsNonce.
THEOREM SigningImplementsAllocator == SigningSpec => Spec
<1>1. SigningInit => Init
  BY DEF SigningInit
<1> QED
  BY <1>1, StepRefinesAllocator, PTL DEF SigningSpec, Spec

\* A POST keeps the invariant.
LEMMA SignAndPostSInv ==
  ASSUME TypeOK, TypeOK', SInv, NEW c \in Calls, SignAndPost(c) PROVE SInv'
<1> DEFINE G == [nonce : Nonce, now : Clock]
<1> DEFINE P == [call : Calls, owner : Keys, signer : Keys, nonce : Nonce,
                 grant : 1..MaxCalls]
<1> DEFINE g == [nonce |-> last', now |-> clock]
<1> DEFINE k == Len(granted)
<1>1. /\ granted \in Seq(G) /\ g \in G /\ granted' = Append(granted, g)
      /\ last' \in Nonce /\ k < MaxCalls
  BY DEF TypeOK, SignAndPost, Allocate
<1>2. /\ k \in Nat /\ Len(granted') = k + 1
      /\ DOMAIN granted = 1..k /\ DOMAIN granted' = 1..(k + 1)
      /\ granted'[k + 1] = g
      /\ \A i \in 1..k : granted'[i] = granted[i]
  <2> HIDE DEF G, g
  <2> QED
    BY <1>1
<1>3. granted'[k + 1].nonce = last'
  BY <1>2
<1> HIDE DEF k, g
<1>4. /\ state[c] = "awaiting"
      /\ UNCHANGED <<privateKey, address, owner, swapped>>
      /\ owner[c] \in Keys /\ privateKey # NoKey
      /\ c \notin swapped => owner[c] = address
  BY DEF SignAndPost, keyVars, SInv, AwaitingOwner
<1>5. CASE privateKey = BadKey
  <2>1. posted' = posted /\ state' = [state EXCEPT ![c] = "thrown"]
    BY <1>5 DEF SignAndPost
  <2>2. SigningTypes' /\ KeyIsAddress' /\ AwaitingOwner' /\ MismatchNeedsASwap'
    BY <1>4, <2>1 DEF SInv, SigningTypes, KeyIsAddress, AwaitingOwner, MismatchNeedsASwap
  <2>3. PostedAsGranted'
    <3>1. \A i \in DOMAIN posted : posted[i].grant \in 1..k
      BY <1>2 DEF SInv, PostedAsGranted
    <3> QED
      BY <3>1, <1>2, <2>1 DEF SInv, PostedAsGranted
  <2> QED
    BY <2>2, <2>3 DEF SInv
<1>6. CASE privateKey # BadKey
  <2> DEFINE p == [call |-> c, owner |-> owner[c], signer |-> privateKey,
                   nonce |-> last', grant |-> k + 1]
  <2> DEFINE m == Len(posted)
  <2>1. privateKey \in Keys /\ address = privateKey
    BY <1>4, <1>6 DEF SInv, SigningTypes, KeyIsAddress
  <2>2. /\ posted \in Seq(P) /\ p \in P
        /\ posted' = Append(posted, p)
        /\ state' = [state EXCEPT ![c] = "posted"]
    <3>1. k + 1 \in 1..MaxCalls
      BY <1>1, <1>2, MaxCallsAssumption
    <3>2. Len(granted') = k + 1
      BY <1>2
    <3>3. p \in P
      BY <3>1, <1>1, <1>4, <2>1
    <3>4. posted' = Append(posted, p) /\ state' = [state EXCEPT ![c] = "posted"]
      BY <3>2, <1>6 DEF SignAndPost
    <3>5. posted \in Seq(P)
      BY DEF SInv, SigningTypes
    <3> QED
      BY <3>3, <3>4, <3>5
  <2>3. /\ m \in Nat
        /\ DOMAIN posted = 1..m /\ DOMAIN posted' = 1..(m + 1)
        /\ posted'[m + 1] = p
        /\ \A i \in 1..m : posted'[i] = posted[i] /\ posted[i] \in P
        /\ posted' \in Seq(P)
    <3> HIDE DEF p, P
    <3> QED
      BY <2>2
  <2>4. /\ posted'[m + 1].call = c /\ posted'[m + 1].owner = owner[c]
        /\ posted'[m + 1].signer = privateKey /\ posted'[m + 1].nonce = last'
        /\ posted'[m + 1].grant = k + 1
    BY <2>3
  <2> HIDE DEF p, m
  <2>5. SigningTypes'
    BY <1>4, <2>2, <2>3 DEF SInv, SigningTypes
  <2>6. KeyIsAddress' /\ AwaitingOwner'
    BY <1>4, <2>2 DEF SInv, SigningTypes, KeyIsAddress, AwaitingOwner
  <2>7. \A i \in 1..m : /\ posted[i].grant \in 1..k
                        /\ posted[i].nonce = granted[posted[i].grant].nonce
    BY <1>2, <2>3 DEF SInv, PostedAsGranted
  <2>8. PostedAsGranted'
    <3>1. ASSUME NEW i \in 1..(m + 1)
          PROVE  /\ posted'[i].grant \in 1..(k + 1)
                 /\ posted'[i].nonce = granted'[posted'[i].grant].nonce
      <4>1. CASE i \in 1..m
        BY <4>1, <2>3, <2>7, <1>2
      <4>2. CASE i = m + 1
        BY <4>2, <2>4, <1>2, <1>3
      <4> QED
        BY <4>1, <4>2, <2>3
    <3>2. ASSUME NEW i \in 1..(m + 1), NEW j \in 1..(m + 1), i < j
          PROVE  posted'[i].grant < posted'[j].grant
      <4>1. i \in 1..m
        BY <3>2, <2>3
      <4>2. CASE j \in 1..m
        BY <3>2, <4>1, <4>2, <2>3 DEF SInv, PostedAsGranted
      <4>3. CASE j = m + 1
        BY <4>1, <4>3, <2>3, <2>4, <2>7, <1>2
      <4> QED
        BY <4>2, <4>3, <2>3
    <3> QED
      BY <3>1, <3>2, <2>3, <1>2 DEF PostedAsGranted
  <2>9. MismatchNeedsASwap'
    <3> SUFFICES ASSUME NEW i \in 1..(m + 1), posted'[i].owner # posted'[i].signer
                 PROVE  posted'[i].call \in swapped
      BY <1>4, <2>3 DEF MismatchNeedsASwap
    <3>1. CASE i \in 1..m
      BY <3>1, <2>3 DEF SInv, MismatchNeedsASwap
    <3>2. CASE i = m + 1
      BY <3>2, <2>1, <2>4, <1>4
    <3> QED
      BY <3>1, <3>2, <2>3
  <2> QED
    BY <2>5, <2>6, <2>8, <2>9 DEF SInv
<1> QED
  BY <1>5, <1>6

\* Every step keeps the invariant.
LEMMA NextSInv == TypeOK /\ TypeOK' /\ SInv /\ [SigningNext]_signingVars => SInv'
<1> SUFFICES ASSUME TypeOK, TypeOK', SInv, [SigningNext]_signingVars PROVE SInv'
  OBVIOUS
<1>1. ASSUME NEW k \in Keys \cup {BadKey}, SetPrivateKey(k) PROVE SInv'
  <2>1. /\ privateKey' = k
        /\ k = BadKey => address' = address
        /\ k # BadKey => address' = k
        /\ \A c \in Calls : (state[c] = "awaiting" /\ c \notin swapped') => k = privateKey
        /\ swapped \subseteq swapped' /\ swapped' \subseteq Calls
        /\ UNCHANGED <<state, owner, posted, granted>>
    BY <1>1 DEF SetPrivateKey, SInv, SigningTypes, vars
  <2> QED
    BY <2>1 DEF SInv, SigningTypes, KeyIsAddress, AwaitingOwner, PostedAsGranted,
                MismatchNeedsASwap
<1>2. ASSUME NEW c \in Calls, Build(c) PROVE SInv'
  BY <1>2 DEF Build, keyVars, vars, SInv, SigningTypes, KeyIsAddress, AwaitingOwner,
              PostedAsGranted, MismatchNeedsASwap
<1>3. ASSUME NEW c \in Calls, SignAndPost(c) PROVE SInv'
  BY <1>3, SignAndPostSInv
<1>4. ASSUME NEW c \in Calls, Abandon(c) PROVE SInv'
  BY <1>4 DEF Abandon, keyVars, vars, SInv, SigningTypes, KeyIsAddress, AwaitingOwner,
              PostedAsGranted, MismatchNeedsASwap
<1>5. ASSUME UNCHANGED <<granted, keyVars, callVars>> PROVE SInv'
  BY <1>5 DEF keyVars, callVars, SInv, SigningTypes, KeyIsAddress, AwaitingOwner,
              PostedAsGranted, MismatchNeedsASwap
<1> QED
  BY <1>1, <1>2, <1>3, <1>4, <1>5
     DEF SigningNext, ClockMoves, signingVars, vars, keyVars, callVars

\* The inductive invariant of the client, with that of its allocator.
THEOREM SigningInvariant == SigningSpec => [](IInv /\ SInv)
<1>1. SigningInit => SInv
  BY DEF SigningInit, Init, SInv, SigningTypes, KeyIsAddress, AwaitingOwner,
         PostedAsGranted, MismatchNeedsASwap
<1>2. IInv => TypeOK
  BY DEF IInv
<1> QED
  BY <1>1, <1>2, NextSInv, SigningImplementsAllocator, AllocatorInvariant, PTL
     DEF SigningSpec

\* Every variable keeps its type.
THEOREM SigningTypeCorrect == SigningSpec => []SigningTypeOK
<1>1. IInv /\ SInv => SigningTypeOK
  BY DEF IInv, SInv, SigningTypes, SigningTypeOK
<1> QED
  BY <1>1, SigningInvariant, PTL

\* Concurrent calls post in nonce order, away from the cap.
THEOREM PostsAreInOrder == SigningSpec => []PostedInNonceOrder
<1>1. IInv /\ SInv => PostedInNonceOrder
  BY DEF IInv, SInv, OnlyTheCapRepeats, PostedAsGranted, PostedInNonceOrder
<1> QED
  BY <1>1, SigningInvariant, PTL

\* The first Cap + 1 nonces of a client whose clock is not set back are distinct.
THEOREM ClientBurstsAreDistinct == SigningSpec => []ShortBurstsIncrease
BY SigningImplementsAllocator, ShortBurstsAreDistinct, PTL

\* Owner and signer differ only when the key was changed during the call.
THEOREM OwnersSign == SigningSpec => []MismatchNeedsASwap
<1>1. SInv => MismatchNeedsASwap
  BY DEF SInv
<1> QED
  BY <1>1, SigningInvariant, PTL
=============================================================================
