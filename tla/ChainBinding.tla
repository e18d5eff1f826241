---------------------------- MODULE ChainBinding ----------------------------
(***************************************************************************)
(* How an ExchangeClient (client.ts) gets the chain id it signs with:      *)
(* resolveChainId() caches it, shares one /status fetch between callers,   *)
(* and forgets a failed fetch.  Callers run on one JavaScript thread; they *)
(* interleave only where they wait for the fetch.                          *)
(***************************************************************************)
EXTENDS SharedAttempts

CONSTANTS
  Networks,      \* the networks /status may name, one after the other
  Unbound,       \* UNBOUND_CHAIN_ID
  None           \* null

ChainIds == Networks \cup {Unbound}
Marks == {"none", "fetching", "rejected"}    \* states of an attempt without an id

ASSUME NoneAssumption == None \notin ChainIds
ASSUME MarksAssumption == Marks \cap (ChainIds \cup {None}) = {}
ASSUME UnboundAssumption == Unbound \notin Networks

VARIABLES
  allowUnbound, \* opts.allowUnbound, set once by the constructor
  chainId,  \* this.chainId: opts.chainId, or null until it is resolved
  promise,  \* this.chainIdPromise: the attempt it stands for, 0 for null
  attempts, \* number of attempts started
  outcome,  \* what each attempt has come to
  waitsFor, \* the attempt each caller awaits, 0 for none
  result    \* what resolveChainId() gave each caller

vars == <<allowUnbound, chainId, promise, attempts, outcome, waitsFor, result>>

Init ==
  /\ allowUnbound \in BOOLEAN
  /\ chainId \in Networks \cup {None}
  /\ promise = 0
  /\ attempts = 0
  /\ outcome = [a \in Attempts |-> "none"]
  /\ waitsFor = [c \in Callers |-> 0]
  /\ result = [c \in Callers |-> "none"]

\* A caller outside resolveChainId(): before its first call, or between two.
Free(c) == waitsFor[c] = 0

\* `if (this.chainId) return Promise.resolve(this.chainId)`
ResolveCached(c) ==
  /\ Free(c)
  /\ chainId # None
  /\ result' = [result EXCEPT ![c] = chainId]
  /\ UNCHANGED <<allowUnbound, chainId, promise, attempts, outcome, waitsFor>>

\* `if (this.chainIdPromise) return this.chainIdPromise`
Join(c) ==
  /\ Free(c)
  /\ chainId = None
  /\ promise # 0
  /\ waitsFor' = [waitsFor EXCEPT ![c] = promise]
  /\ UNCHANGED <<allowUnbound, chainId, promise, attempts, outcome, result>>

StartWithoutSharing(c) ==
  /\ Free(c)
  /\ chainId = None
  /\ attempts < MaxAttempts
  /\ attempts' = attempts + 1
  /\ promise' = attempts'
  /\ outcome' = [outcome EXCEPT ![attempts'] = "fetching"]
  /\ waitsFor' = [waitsFor EXCEPT ![c] = attempts']
  /\ UNCHANGED <<allowUnbound, chainId, result>>

\* `this.chainIdPromise = (async () => { ... fetchChainId(...) ... })()`
Start(c) ==
  /\ Free(c)
  /\ chainId = None
  /\ promise = 0
  /\ attempts < MaxAttempts
  /\ attempts' = attempts + 1
  /\ promise' = attempts'
  /\ outcome' = [outcome EXCEPT ![attempts'] = "fetching"]
  /\ waitsFor' = [waitsFor EXCEPT ![c] = attempts']
  /\ UNCHANGED <<allowUnbound, chainId, result>>

\* fetchChainId() answers: the id is cached and every waiter gets it.
FetchSucceeds(a) ==
  /\ outcome[a] = "fetching"
  /\ \E network \in Networks :
       /\ chainId' = network
       /\ outcome' = [outcome EXCEPT ![a] = network]
  /\ UNCHANGED <<allowUnbound, promise, attempts, waitsFor, result>>

FetchFailsUnanswered(a) ==
  /\ outcome[a] = "fetching"
  /\ promise' = 0
  /\ outcome' = [outcome EXCEPT ![a] = "none"]
  /\ UNCHANGED <<allowUnbound, chainId, attempts, waitsFor, result>>

\* The catch block: forget the promise, then fall back to the unbound id or
\* reject every waiter.
FetchFails(a) ==
  /\ outcome[a] = "fetching"
  /\ promise' = 0
  /\ IF allowUnbound
       THEN /\ chainId' = Unbound
            /\ outcome' = [outcome EXCEPT ![a] = Unbound]
       ELSE /\ outcome' = [outcome EXCEPT ![a] = "rejected"]
            /\ UNCHANGED chainId
  /\ UNCHANGED <<allowUnbound, attempts, waitsFor, result>>

\* The await of a caller continues with what its attempt came to.
Continue(c) ==
  /\ waitsFor[c] # 0
  /\ outcome[waitsFor[c]] \notin {"none", "fetching"}
  /\ result' = [result EXCEPT ![c] = outcome[waitsFor[c]]]
  /\ waitsFor' = [waitsFor EXCEPT ![c] = 0]
  /\ UNCHANGED <<allowUnbound, chainId, promise, attempts, outcome>>

Resolve(c) == ResolveCached(c) \/ Join(c) \/ Start(c)
Settle(a) == FetchSucceeds(a) \/ FetchFails(a)

Next ==
  \/ \E c \in Callers : Resolve(c) \/ Continue(c)
  \/ \E a \in Attempts : Settle(a)

\* Every fetch is answered or fails, and every settled await continues.
Fairness ==
  /\ \A a \in Attempts : WF_vars(Settle(a))
  /\ \A c \in Callers : WF_vars(Continue(c))

Spec == Init /\ [][Next]_vars /\ Fairness

-----------------------------------------------------------------------------

\* Every variable stays in its type.
TypeOK ==
  /\ allowUnbound \in BOOLEAN
  /\ chainId \in ChainIds \cup {None}
  /\ promise \in 0..MaxAttempts
  /\ attempts \in 0..MaxAttempts
  /\ outcome \in [Attempts -> ChainIds \cup Marks]
  /\ waitsFor \in [Callers -> 0..MaxAttempts]
  /\ result \in [Callers -> ChainIds \cup {"none", "rejected"}]

\* Concurrent submits share a single /status fetch (client.ts:221, 340-342).
SingleFlight ==
  \A a, b \in Attempts :
    outcome[a] = "fetching" /\ outcome[b] = "fetching" => a = b

\* All callers of one client sign for the same chain, the cached one, even when
\* /status names another network later (client.ts:337-341).
OneBinding ==
  \A c \in Callers : result[c] \in ChainIds => result[c] = chainId

\* A failed fetch is never replayed: what later callers are handed is a fetch
\* that still runs, or one that succeeded (client.ts:351-352).
NoDeadPromise ==
  promise # 0 => outcome[promise] = "fetching" \/ chainId = outcome[promise]

\* A binding, once made, is for the life of the client (client.ts:341).
BindingIsForever == [][chainId # None => chainId' = chainId]_vars

=============================================================================
