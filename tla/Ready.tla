------------------------------- MODULE Ready -------------------------------
(***************************************************************************)
(* ExchangeClient.ready() and the first await of broadcastSigned           *)
(* (client.ts): both wait for the WASM core and for the chain id together, *)
(*   Promise.all([initWasm(), this.resolveChainId()])                      *)
(* so a call of either has two awaits under way, which end in any order,   *)
(* and is rejected with the first that is, the other going on by itself.   *)
(***************************************************************************)
EXTENDS ChainBinding

VARIABLES
  cached, initPromise, coreAttempts, coreOutcome, attempt, coreResult

Core == INSTANCE WasmLoader
          WITH attempts <- coreAttempts, outcome <- coreOutcome, result <- coreResult

coreVars == <<cached, initPromise, coreAttempts, coreOutcome, attempt, coreResult>>
all == <<vars, coreVars>>

ReadyInit == Init /\ Core!Init

\* ready() runs up to both awaits in one turn of the event loop.
Ready(c) == Core!Ready(c) /\ Resolve(c)

ReadyNext ==
  \/ \E c \in Callers :
       \/ Ready(c)
       \/ Continue(c) /\ UNCHANGED coreVars
       \/ Core!Continue(c) /\ UNCHANGED vars
  \/ \E a \in Attempts :
       \/ Settle(a) /\ UNCHANGED coreVars
       \/ Core!Settle(a) /\ UNCHANGED vars

\* The fetch and the instantiation end, and every settled await continues.
ReadyFairness ==
  /\ \A a \in Attempts :
       /\ WF_all(Settle(a) /\ UNCHANGED coreVars)
       /\ WF_all(Core!Settle(a) /\ UNCHANGED vars)
  /\ \A c \in Callers :
       /\ WF_all(Continue(c) /\ UNCHANGED coreVars)
       /\ WF_all(Core!Continue(c) /\ UNCHANGED vars)

ReadySpec == ReadyInit /\ [][ReadyNext]_all /\ ReadyFairness

-----------------------------------------------------------------------------

\* What Promise.all has come to for the last call of c: its two halves begin together.
Rejected(c) ==
  (Free(c) /\ result[c] = "rejected") \/ (Core!Free(c) /\ coreResult[c] = "rejected")
Resolved(c) ==
  Free(c) /\ Core!Free(c) /\ result[c] # "none" /\ ~Rejected(c)

\* Concurrent submits share one instantiation too, also after a failure, when the catch
\* blocks of its callers race with the next attempt (wasm-loader.ts:108, 123).
SingleInstantiation == Core!SingleInstantiation

\* Neither half replays a failure: a failed fetch leaves the promise at once, and a
\* failed init as its callers see it, so that a later ready() starts afresh whatever the
\* other half does (client.ts:351-352, wasm-loader.ts:119-122).
FailureIsForgotten == []NoDeadPromise /\ Core!FailureIsForgotten

\* After ready() resolves, getWasm() does not throw and getChainId() is the id this
\* caller was given: what is signed after the await is signed by a loaded core for one
\* chain (client.ts:380-383, 569).
ReadyMeansBound ==
  \A c \in Callers : Resolved(c) => cached /\ chainId # None /\ result[c] = chainId

\* Every call of ready() comes to an end (client.ts:88: with a fetch that ends).
ReadyReturns ==
  \A c \in Callers : ~Free(c) \/ ~Core!Free(c) ~> Resolved(c) \/ Rejected(c)
=============================================================================
