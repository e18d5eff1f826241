----------------------------- MODULE WasmLoader -----------------------------
(***************************************************************************)
(* The lazy initialization of the WASM core (wasm-loader.ts).  ready()     *)
(* shares one instantiation between its callers; each caller of a failed   *)
(* attempt runs the catch block on its own, at a later microtask, when a   *)
(* newer attempt may already have started.                                 *)
(***************************************************************************)
EXTENDS SharedAttempts

VARIABLES
  cached,       \* whether `cached` holds the exports
  initPromise,  \* the attempt initPromise stands for, 0 for null
  attempts,     \* number of instantiations started
  outcome,      \* what each instantiation has come to
  attempt,      \* each caller's local `attempt`, 0 outside the await
  result        \* how ready() ended for each caller

vars == <<cached, initPromise, attempts, outcome, attempt, result>>

Init ==
  /\ cached = FALSE
  /\ initPromise = 0
  /\ attempts = 0
  /\ outcome = [a \in Attempts |-> "none"]
  /\ attempt = [c \in Callers |-> 0]
  /\ result = [c \in Callers |-> "none"]

\* A caller outside ready(): before its first call, or between two.
Free(c) == attempt[c] = 0

\* `if (cached) return`
ReadyCached(c) ==
  /\ Free(c)
  /\ cached
  /\ result' = [result EXCEPT ![c] = "ready"]
  /\ UNCHANGED <<cached, initPromise, attempts, outcome, attempt>>

\* `const attempt = initPromise; await attempt`, joining an attempt that may
\* still run, or may have failed without any catch block having run yet.
Join(c) ==
  /\ Free(c)
  /\ ~cached
  /\ initPromise # 0
  /\ attempt' = [attempt EXCEPT ![c] = initPromise]
  /\ UNCHANGED <<cached, initPromise, attempts, outcome, result>>

\* `initPromise = instantiate()`, and its own await.
Instantiate(c) ==
  /\ Free(c)
  /\ ~cached
  /\ initPromise = 0
  /\ attempts < MaxAttempts
  /\ attempts' = attempts + 1
  /\ initPromise' = attempts'
  /\ outcome' = [outcome EXCEPT ![attempts'] = "loading"]
  /\ attempt' = [attempt EXCEPT ![c] = attempts']
  /\ UNCHANGED <<cached, result>>

\* instantiate(): import, init, then `cached = mod`.
Succeed(a) ==
  /\ outcome[a] = "loading"
  /\ outcome' = [outcome EXCEPT ![a] = "loaded"]
  /\ cached' = TRUE
  /\ UNCHANGED <<initPromise, attempts, attempt, result>>

\* instantiate() throws: the import, the fetch of the binary, or its init.
Fail(a) ==
  /\ outcome[a] = "loading"
  /\ outcome' = [outcome EXCEPT ![a] = "rejected"]
  /\ UNCHANGED <<cached, initPromise, attempts, attempt, result>>

\* The await of a caller returns.
Return(c) ==
  /\ attempt[c] # 0
  /\ outcome[attempt[c]] = "loaded"
  /\ result' = [result EXCEPT ![c] = "ready"]
  /\ attempt' = [attempt EXCEPT ![c] = 0]
  /\ UNCHANGED <<cached, initPromise, attempts, outcome>>

CatchClearingAny(c) ==
  /\ attempt[c] # 0
  /\ outcome[attempt[c]] = "rejected"
  /\ initPromise' = 0
  /\ result' = [result EXCEPT ![c] = "rejected"]
  /\ attempt' = [attempt EXCEPT ![c] = 0]
  /\ UNCHANGED <<cached, attempts, outcome>>

CatchClearingNone(c) ==
  /\ attempt[c] # 0
  /\ outcome[attempt[c]] = "rejected"
  /\ result' = [result EXCEPT ![c] = "rejected"]
  /\ attempt' = [attempt EXCEPT ![c] = 0]
  /\ UNCHANGED <<cached, initPromise, attempts, outcome>>

\* The catch block: `if (initPromise === attempt) initPromise = null; throw e`
Catch(c) ==
  /\ attempt[c] # 0
  /\ outcome[attempt[c]] = "rejected"
  /\ initPromise' = IF initPromise = attempt[c] THEN 0 ELSE initPromise
  /\ result' = [result EXCEPT ![c] = "rejected"]
  /\ attempt' = [attempt EXCEPT ![c] = 0]
  /\ UNCHANGED <<cached, attempts, outcome>>

Ready(c) == ReadyCached(c) \/ Join(c) \/ Instantiate(c)
Continue(c) == Return(c) \/ Catch(c)
Settle(a) == Succeed(a) \/ Fail(a)

Next ==
  \/ \E c \in Callers : Ready(c) \/ Continue(c)
  \/ \E a \in Attempts : Settle(a)

\* Every instantiation ends, and every settled await continues.
Fairness ==
  /\ \A a \in Attempts : WF_vars(Settle(a))
  /\ \A c \in Callers : WF_vars(Continue(c))

Spec == Init /\ [][Next]_vars /\ Fairness

-----------------------------------------------------------------------------

\* Every variable stays in its type.
TypeOK ==
  /\ cached \in BOOLEAN
  /\ initPromise \in 0..MaxAttempts
  /\ attempts \in 0..MaxAttempts
  /\ outcome \in [Attempts -> {"none", "loading", "loaded", "rejected"}]
  /\ attempt \in [Callers -> 0..MaxAttempts]
  /\ result \in [Callers -> {"none", "ready", "rejected"}]

\* "Concurrent callers share a single instantiation", also after a failure, when
\* the catch blocks of its callers race with the next attempt
\* (wasm-loader.ts:108, 123).
SingleInstantiation ==
  \A a, b \in Attempts :
    outcome[a] = "loading" /\ outcome[b] = "loading" => a = b

\* After ready() resolves, getWasm() has exports to return (wasm-loader.ts:6-8).
ReadyMeansCached ==
  \A c \in Callers : result[c] = "ready" => cached

\* A failed init does not stay cached: as its callers see the failure, a later
\* ready() gets to start afresh (wasm-loader.ts:119-122).
FailureIsForgotten ==
  \A a \in Attempts :
    (initPromise = a /\ outcome[a] = "rejected") ~> initPromise # a

\* Only the failure of the attempt it stands for clears the promise
\* (wasm-loader.ts:122-123).
NewerAttemptIsKept ==
  [][initPromise # 0 /\ initPromise' # initPromise
       => outcome[initPromise] = "rejected"]_vars

=============================================================================
