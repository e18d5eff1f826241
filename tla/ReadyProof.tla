----------------------------- MODULE ReadyProof -----------------------------
(***************************************************************************)
(* The chain id binding, the WASM loader, and ready(), which runs both at  *)
(* once: proved one after the other.  A step of ReadyNext is a step or a   *)
(* stutter of each half, so the invariants proved for each carry over; new *)
(* is the one link between them, that a caller begins both halves at once. *)
(***************************************************************************)
EXTENDS Ready, TLAPS

-----------------------------------------------------------------------------
\* The chain id.  The binding of a client is unique and lasting for any number of
\* callers, networks and attempts: the only attempt still fetching is the one
\* `chainIdPromise` stands for, and it is there only while no chain id is cached.

\* A caller that waits, waits for an attempt that was started.
WaitsForStarted ==
  \A c \in Callers : waitsFor[c] # 0 => outcome[waitsFor[c]] # "none"

\* Attempts are numbered in the order they start.
StartedAreNumbered ==
  /\ promise <= attempts
  /\ \A a \in Attempts : outcome[a] # "none" <=> a <= attempts

\* The attempt in flight is the promise, and nothing is cached yet.
FlightIsPromise ==
  \A a \in Attempts :
    outcome[a] = "fetching" => promise = a /\ chainId = None

\* An attempt that brought a chain id brought the cached one.
SettledIsCached ==
  \A a \in Attempts : outcome[a] \in ChainIds => outcome[a] = chainId

IInv ==
  /\ TypeOK
  /\ WaitsForStarted
  /\ StartedAreNumbered
  /\ FlightIsPromise
  /\ SettledIsCached
  /\ OneBinding
  /\ NoDeadPromise

USE NoneAssumption, MarksAssumption, UnboundAssumption, MaxAttemptsAssumption

\* The invariant holds initially, with or without a pinned chain id.
LEMMA InitIInv == Init => IInv
BY DEF Init, IInv, TypeOK, WaitsForStarted, StartedAreNumbered, FlightIsPromise,
       SettledIsCached, OneBinding, NoDeadPromise, ChainIds, Marks, Attempts

\* Starting an attempt keeps the invariant: there was no promise, so nothing
\* was in flight.
LEMMA StartIInv == ASSUME IInv, NEW c \in Callers, Start(c) PROVE IInv'
<1> DEFINE a == attempts + 1
<1>1. /\ a \in Attempts /\ attempts' = a /\ promise' = a
      /\ promise = 0 /\ chainId = None /\ chainId' = None
      /\ outcome' = [outcome EXCEPT ![a] = "fetching"]
      /\ waitsFor' = [waitsFor EXCEPT ![c] = a]
      /\ result' = result /\ allowUnbound' = allowUnbound
  BY DEF Start, IInv, TypeOK, Attempts
<1>2. \A b \in Attempts : outcome[b] # "fetching"
  BY <1>1 DEF IInv, FlightIsPromise, Attempts
<1>3. \A b \in Attempts : outcome[b] \notin ChainIds
  BY <1>1 DEF IInv, SettledIsCached
<1>4. /\ outcome'[a] = "fetching"
      /\ \A b \in Attempts : b # a => outcome'[b] = outcome[b]
  BY <1>1 DEF IInv, TypeOK
<1> HIDE DEF a
<1>5. TypeOK'
  BY <1>1 DEF IInv, TypeOK, Attempts, Marks
<1>6. WaitsForStarted'
  BY <1>1, <1>4 DEF IInv, TypeOK, WaitsForStarted, Attempts
<1>7. StartedAreNumbered'
  BY <1>1, <1>4 DEF IInv, TypeOK, StartedAreNumbered, Attempts, a
<1>8. FlightIsPromise'
  BY <1>1, <1>2, <1>4 DEF FlightIsPromise
<1>9. SettledIsCached'
  BY <1>1, <1>3, <1>4 DEF SettledIsCached, Marks
<1>10. OneBinding' /\ NoDeadPromise'
  BY <1>1, <1>4 DEF IInv, OneBinding, NoDeadPromise
<1> QED
  BY <1>5, <1>6, <1>7, <1>8, <1>9, <1>10 DEF IInv

\* An answer of /status keeps the invariant: the attempt was the only one in
\* flight and no caller had been given a chain id.
LEMMA SettleIInv == ASSUME IInv, NEW a \in Attempts, Settle(a) PROVE IInv'
<1>1. /\ outcome[a] = "fetching" /\ promise = a /\ chainId = None
      /\ a \in Nat /\ a # 0
  BY DEF Settle, FetchSucceeds, FetchFails, IInv, FlightIsPromise, Attempts
<1>2. \A b \in Attempts : b # a => outcome[b] # "fetching"
  BY <1>1 DEF IInv, FlightIsPromise
<1>3. /\ \A b \in Attempts : outcome[b] \notin ChainIds
      /\ \A c \in Callers : result[c] \notin ChainIds
  BY <1>1 DEF IInv, SettledIsCached, OneBinding
<1>4. PICK v \in ChainIds \cup {"rejected"} :
        /\ outcome' = [outcome EXCEPT ![a] = v]
        /\ chainId' = IF v = "rejected" THEN None ELSE v
  BY <1>1 DEF Settle, FetchSucceeds, FetchFails, ChainIds, Marks
<1>5. /\ promise' = a \/ promise' = 0
      /\ promise' = a => v \in ChainIds
      /\ attempts' = attempts /\ waitsFor' = waitsFor /\ result' = result
      /\ allowUnbound' = allowUnbound
  BY <1>1, <1>4 DEF Settle, FetchSucceeds, FetchFails, ChainIds, Marks, IInv, TypeOK
<1>6. /\ outcome'[a] = v
      /\ \A b \in Attempts : b # a => outcome'[b] = outcome[b]
  BY <1>4 DEF IInv, TypeOK
<1>7. TypeOK'
  BY <1>1, <1>4, <1>5 DEF IInv, TypeOK, Attempts, Marks, ChainIds
<1>8. WaitsForStarted'
  BY <1>4, <1>5, <1>6 DEF IInv, TypeOK, WaitsForStarted, Marks, Attempts
<1>9. StartedAreNumbered'
  BY <1>1, <1>4, <1>5, <1>6 DEF IInv, TypeOK, StartedAreNumbered, Marks, Attempts
<1>10. FlightIsPromise'
  BY <1>2, <1>4, <1>6 DEF FlightIsPromise, Marks
<1>11. SettledIsCached'
  BY <1>3, <1>4, <1>6 DEF SettledIsCached, Marks
<1>12. OneBinding' /\ NoDeadPromise'
  BY <1>1, <1>3, <1>4, <1>5, <1>6 DEF OneBinding, NoDeadPromise, Marks
<1> QED
  BY <1>7, <1>8, <1>9, <1>10, <1>11, <1>12 DEF IInv

\* Every step keeps the invariant.
LEMMA NextIInv == IInv /\ [Next]_vars => IInv'
<1> SUFFICES ASSUME IInv, [Next]_vars PROVE IInv'
  OBVIOUS
<1> USE DEF IInv, TypeOK, WaitsForStarted, StartedAreNumbered, FlightIsPromise,
            SettledIsCached, OneBinding, NoDeadPromise
<1>1. ASSUME NEW c \in Callers, ResolveCached(c) PROVE IInv'
  BY <1>1 DEF ResolveCached, Free
<1>2. ASSUME NEW c \in Callers, Join(c) PROVE IInv'
  <2>1. promise \in Attempts /\ outcome[promise] # "none"
    BY <1>2 DEF Join, Attempts
  <2> QED
    BY <1>2, <2>1 DEF Join, Attempts
<1>3. ASSUME NEW c \in Callers, Start(c) PROVE IInv'
  BY <1>3, StartIInv
<1>4. ASSUME NEW a \in Attempts, Settle(a) PROVE IInv'
  BY <1>4, SettleIInv
<1>5. ASSUME NEW c \in Callers, Continue(c) PROVE IInv'
  <2>1. /\ waitsFor[c] \in Attempts
        /\ outcome[waitsFor[c]] \in ChainIds \cup {"rejected"}
    BY <1>5 DEF Continue, Attempts, Marks
  <2> QED
    BY <1>5, <2>1 DEF Continue, Marks
<1>6. ASSUME UNCHANGED vars PROVE IInv'
  BY <1>6 DEF vars
<1> QED
  BY <1>1, <1>2, <1>3, <1>4, <1>5, <1>6 DEF Next, Resolve

\* The inductive invariant, of which the run's invariants are conjuncts or
\* consequences.
THEOREM BindingInvariant == Spec => []IInv
BY InitIInv, NextIInv, PTL DEF Spec

\* Every variable keeps its type.
THEOREM TypeCorrect == Spec => []TypeOK
<1>1. IInv => TypeOK
  BY DEF IInv
<1> QED
  BY <1>1, BindingInvariant, PTL

\* Concurrent callers never have two /status fetches in flight.
THEOREM AtMostOneFetch == Spec => []SingleFlight
<1>1. IInv => SingleFlight
  BY DEF IInv, FlightIsPromise, SingleFlight
<1> QED
  BY <1>1, BindingInvariant, PTL

\* All callers of a client are given the chain id it has cached.
THEOREM CallersAgree == Spec => []OneBinding
<1>1. IInv => OneBinding
  BY DEF IInv
<1> QED
  BY <1>1, BindingInvariant, PTL

\* A failed fetch is never handed to a later caller.
THEOREM FailuresAreForgotten == Spec => []NoDeadPromise
<1>1. IInv => NoDeadPromise
  BY DEF IInv
<1> QED
  BY <1>1, BindingInvariant, PTL

\* A chain id, once cached, is never replaced.
THEOREM BindingLasts == Spec => BindingIsForever
<1>1. IInv /\ [Next]_vars => (chainId # None => chainId' = chainId)
  <2> SUFFICES ASSUME IInv, [Next]_vars, chainId # None PROVE chainId' = chainId
    OBVIOUS
  <2>1. ASSUME NEW a \in Attempts, Settle(a) PROVE FALSE
    BY <2>1 DEF Settle, FetchSucceeds, FetchFails, IInv, FlightIsPromise
  <2> QED
    BY <2>1 DEF Next, Resolve, ResolveCached, Join, Start, Continue, vars
<1> QED
  BY <1>1, BindingInvariant, PTL DEF Spec, BindingIsForever

-----------------------------------------------------------------------------
\* The core.  At most one instantiation runs, for any number of callers and
\* attempts: one that runs is the one initPromise stands for.  The identity test in
\* the catch block is what keeps it: a caller that saw attempt a fail cannot clear a
\* newer promise.

\* Attempts are numbered in the order they start.
CoreStartedAreNumbered ==
  /\ initPromise <= coreAttempts
  /\ \A a \in Core!Attempts : coreOutcome[a] # "none" <=> a <= coreAttempts

\* The running instantiation is the promise, and nothing is cached yet.
RunningIsPromise ==
  \A a \in Core!Attempts : coreOutcome[a] = "loading" => initPromise = a /\ ~cached

\* An instantiation that ended well has filled the cache.
LoadedIsCached ==
  \A a \in Core!Attempts : coreOutcome[a] = "loaded" => cached

CoreInv ==
  /\ Core!TypeOK
  /\ CoreStartedAreNumbered
  /\ RunningIsPromise
  /\ LoadedIsCached
  /\ Core!ReadyMeansCached

\* Starting keeps the invariant: without a promise nothing was running.
LEMMA InstantiateCoreInv ==
  ASSUME CoreInv, NEW c \in Callers, Core!Instantiate(c) PROVE CoreInv'
<1> DEFINE a == coreAttempts + 1
<1>1. /\ a \in Core!Attempts /\ coreAttempts' = a /\ initPromise' = a
      /\ initPromise = 0 /\ ~cached /\ cached' = cached
      /\ coreOutcome' = [coreOutcome EXCEPT ![a] = "loading"]
      /\ attempt' = [attempt EXCEPT ![c] = a]
      /\ coreResult' = coreResult
  BY DEF Core!Instantiate, CoreInv, Core!TypeOK, Core!Attempts
<1>2. \A b \in Core!Attempts : coreOutcome[b] # "loading"
  BY <1>1 DEF CoreInv, RunningIsPromise, Core!Attempts
<1>3. /\ coreOutcome'[a] = "loading"
      /\ \A b \in Core!Attempts : b # a => coreOutcome'[b] = coreOutcome[b]
  BY <1>1 DEF CoreInv, Core!TypeOK
<1> HIDE DEF a
<1>4. Core!TypeOK'
  BY <1>1 DEF CoreInv, Core!TypeOK, Core!Attempts
<1>5. CoreStartedAreNumbered'
  BY <1>1, <1>3 DEF CoreInv, Core!TypeOK, CoreStartedAreNumbered, Core!Attempts, a
<1>6. RunningIsPromise' /\ LoadedIsCached' /\ Core!ReadyMeansCached'
  BY <1>1, <1>2, <1>3 DEF CoreInv, RunningIsPromise, LoadedIsCached, Core!ReadyMeansCached
<1> QED
  BY <1>4, <1>5, <1>6 DEF CoreInv

\* The end of an instantiation keeps the invariant: it was the only one.
LEMMA SettleCoreInv == ASSUME CoreInv, NEW a \in Core!Attempts, Core!Settle(a) PROVE CoreInv'
<1>1. /\ coreOutcome[a] = "loading" /\ initPromise = a
      /\ initPromise' = initPromise /\ coreAttempts' = coreAttempts
      /\ attempt' = attempt /\ coreResult' = coreResult
  BY DEF Core!Settle, Core!Succeed, Core!Fail, CoreInv, RunningIsPromise
<1>2. \A b \in Core!Attempts : b # a => coreOutcome[b] # "loading"
  BY <1>1 DEF CoreInv, RunningIsPromise
<1>3. PICK v \in {"loaded", "rejected"} :
        /\ coreOutcome' = [coreOutcome EXCEPT ![a] = v]
        /\ cached' = (cached \/ v = "loaded")
  BY DEF Core!Settle, Core!Succeed, Core!Fail, CoreInv, Core!TypeOK
<1>4. /\ coreOutcome'[a] = v
      /\ \A b \in Core!Attempts : b # a => coreOutcome'[b] = coreOutcome[b]
  BY <1>3 DEF CoreInv, Core!TypeOK
<1>5. Core!TypeOK'
  BY <1>1, <1>3 DEF CoreInv, Core!TypeOK
<1>6. CoreStartedAreNumbered'
  BY <1>1, <1>4 DEF CoreInv, CoreStartedAreNumbered
<1>7. RunningIsPromise'
  BY <1>2, <1>4 DEF RunningIsPromise
<1>8. LoadedIsCached' /\ Core!ReadyMeansCached'
  BY <1>1, <1>3, <1>4 DEF CoreInv, LoadedIsCached, Core!ReadyMeansCached
<1> QED
  BY <1>5, <1>6, <1>7, <1>8 DEF CoreInv

\* Every step keeps the invariant.
LEMMA NextCoreInv == CoreInv /\ [Core!Next]_(Core!vars) => CoreInv'
<1> SUFFICES ASSUME CoreInv, [Core!Next]_(Core!vars) PROVE CoreInv'
  OBVIOUS
<1> USE DEF CoreInv, Core!TypeOK, CoreStartedAreNumbered, RunningIsPromise, LoadedIsCached,
            Core!ReadyMeansCached
<1>1. ASSUME NEW c \in Callers, Core!ReadyCached(c) PROVE CoreInv'
  BY <1>1 DEF Core!ReadyCached
<1>2. ASSUME NEW c \in Callers, Core!Join(c) PROVE CoreInv'
  BY <1>2 DEF Core!Join
<1>3. ASSUME NEW c \in Callers, Core!Instantiate(c) PROVE CoreInv'
  BY <1>3, InstantiateCoreInv
<1>4. ASSUME NEW a \in Core!Attempts, Core!Settle(a) PROVE CoreInv'
  BY <1>4, SettleCoreInv
<1>5. ASSUME NEW c \in Callers, Core!Return(c) PROVE CoreInv'
  <2>1. attempt[c] \in Core!Attempts
    BY <1>5 DEF Core!Return, Core!Attempts
  <2> QED
    BY <1>5, <2>1 DEF Core!Return
<1>6. ASSUME NEW c \in Callers, Core!Catch(c) PROVE CoreInv'
  <2>1. attempt[c] \in Core!Attempts /\ coreOutcome[attempt[c]] = "rejected"
    BY <1>6 DEF Core!Catch, Core!Attempts
  <2>2. \A a \in Core!Attempts : coreOutcome[a] = "loading" => initPromise' = a
    BY <1>6, <2>1 DEF Core!Catch
  <2>3. initPromise' \in 0..MaxAttempts /\ initPromise' <= coreAttempts
    BY <1>6 DEF Core!Catch
  <2>4. Core!TypeOK'
    BY <1>6, <2>3 DEF Core!Catch
  <2>5. CoreStartedAreNumbered' /\ RunningIsPromise' /\ LoadedIsCached'
    BY <1>6, <2>2, <2>3 DEF Core!Catch
  <2>6. Core!ReadyMeansCached'
    BY <1>6 DEF Core!Catch
  <2> QED
    BY <2>4, <2>5, <2>6
<1>7. ASSUME UNCHANGED Core!vars PROVE CoreInv'
  BY <1>7 DEF Core!vars
<1> QED
  BY <1>1, <1>2, <1>3, <1>4, <1>5, <1>6, <1>7 DEF Core!Next, Core!Ready, Core!Continue

\* Before its first call the loader is in the invariant.
LEMMA InitCoreInv == Core!Init => CoreInv
<1> SUFFICES ASSUME Core!Init PROVE CoreInv
  OBVIOUS
<1>1. Core!TypeOK
  <2>1. cached \in BOOLEAN
    BY DEF Core!Init
  <2>2. /\ initPromise \in 0..MaxAttempts
        /\ coreAttempts \in 0..MaxAttempts
        /\ coreOutcome \in [Core!Attempts -> {"none", "loading", "loaded", "rejected"}]
        /\ attempt \in [Callers -> 0..MaxAttempts]
        /\ coreResult \in [Callers -> {"none", "ready", "rejected"}]
    BY DEF Core!Init
  <2> QED
    BY <2>1, <2>2 DEF Core!TypeOK
<1>2. CoreStartedAreNumbered
  BY DEF Core!Init, CoreStartedAreNumbered, Core!Attempts
<1>3. RunningIsPromise /\ LoadedIsCached /\ Core!ReadyMeansCached
  BY DEF Core!Init, RunningIsPromise, LoadedIsCached, Core!ReadyMeansCached
<1> QED
  BY <1>1, <1>2, <1>3 DEF CoreInv

\* The inductive invariant.
THEOREM LoaderInvariant == Core!Spec => []CoreInv
BY InitCoreInv, NextCoreInv, PTL DEF Core!Spec

\* Every variable keeps its type.
THEOREM CoreTypeCorrect == Core!Spec => []Core!TypeOK
<1>1. CoreInv => Core!TypeOK
  BY DEF CoreInv
<1> QED
  BY <1>1, LoaderInvariant, PTL

\* Concurrent callers share a single instantiation, failures included.
THEOREM InstantiationsAreShared == Core!Spec => []Core!SingleInstantiation
<1>1. CoreInv => Core!SingleInstantiation
  BY DEF CoreInv, RunningIsPromise, Core!SingleInstantiation
<1> QED
  BY <1>1, LoaderInvariant, PTL

\* getWasm() works for every caller whose ready() has resolved.
THEOREM ReadyIsReady == Core!Spec => []Core!ReadyMeansCached
<1>1. CoreInv => Core!ReadyMeansCached
  BY DEF CoreInv
<1> QED
  BY <1>1, LoaderInvariant, PTL

\* No failure clears a promise but its own attempt's.
THEOREM NewerAttemptsSurvive == Core!Spec => Core!NewerAttemptIsKept
<1>1. CoreInv /\ [Core!Next]_(Core!vars) =>
        (initPromise # 0 /\ initPromise' # initPromise
           => coreOutcome[initPromise] = "rejected")
  BY DEF CoreInv, Core!TypeOK, Core!Next, Core!Ready, Core!Continue, Core!Settle, Core!ReadyCached, Core!Join,
         Core!Instantiate, Core!Succeed, Core!Fail, Core!Return, Core!Catch, Core!vars
<1> QED
  BY <1>1, LoaderInvariant, PTL DEF Core!Spec, Core!NewerAttemptIsKept

-----------------------------------------------------------------------------
\* Both together.

\* A caller has called neither half, or both.
CalledTogether ==
  \A c \in Callers :
    (result[c] # "none" \/ waitsFor[c] # 0) => (coreResult[c] # "none" \/ attempt[c] # 0)

RInv == IInv /\ CoreInv /\ CalledTogether

\* A step of ready() is one of the chain id binding and one of the loader, or a stutter.
LEMMA StepsOfBoth == [ReadyNext]_all => [Next]_vars /\ [Core!Next]_(Core!vars)
<1> SUFFICES ASSUME [ReadyNext]_all
             PROVE [Next]_vars /\ [Core!Next]_(Core!vars)
  OBVIOUS
<1>1. ASSUME NEW c \in Callers, Ready(c)
      PROVE Next /\ Core!Next
  BY <1>1 DEF Ready, Next, Core!Next
<1>2. ASSUME NEW c \in Callers, Continue(c), UNCHANGED coreVars
      PROVE Next /\ UNCHANGED Core!vars
  BY <1>2 DEF Next, coreVars, Core!vars
<1>3. ASSUME NEW c \in Callers, Core!Continue(c), UNCHANGED vars
      PROVE Core!Next
  BY <1>3 DEF Core!Next
<1>4. ASSUME NEW a \in Attempts, Settle(a), UNCHANGED coreVars
      PROVE Next /\ UNCHANGED Core!vars
  BY <1>4 DEF Next, coreVars, Core!vars
<1>5. ASSUME NEW a \in Attempts, Core!Settle(a), UNCHANGED vars
      PROVE Core!Next
  BY <1>5 DEF Core!Next, Core!Attempts, Attempts
<1>6. ASSUME UNCHANGED all
      PROVE UNCHANGED vars /\ UNCHANGED Core!vars
  BY <1>6 DEF all, vars, coreVars, Core!vars
<1> QED
  BY <1>1, <1>2, <1>3, <1>4, <1>5, <1>6 DEF ReadyNext

\* Every step keeps the link between the halves.
LEMMA LinkIsKept == RInv /\ [ReadyNext]_all => CalledTogether'
<1> SUFFICES ASSUME RInv, [ReadyNext]_all, NEW d \in Callers,
                    result'[d] # "none" \/ waitsFor'[d] # 0
             PROVE coreResult'[d] # "none" \/ attempt'[d] # 0
  BY DEF CalledTogether
<1> USE DEF RInv, IInv, TypeOK, CoreInv, Core!TypeOK
<1>1. ASSUME NEW c \in Callers, Ready(c)
      PROVE coreResult'[d] # "none" \/ attempt'[d] # 0
  <2>1. CASE d = c
    BY <1>1, <2>1 DEF Ready, Core!Ready, Core!ReadyCached, Core!Join, Core!Instantiate
  <2>2. CASE d # c
    <3>1. result'[d] = result[d] /\ waitsFor'[d] = waitsFor[d]
      BY <1>1, <2>2 DEF Ready, Resolve, ResolveCached, Join, Start
    <3>2. coreResult'[d] = coreResult[d] /\ attempt'[d] = attempt[d]
      BY <1>1, <2>2 DEF Ready, Core!Ready, Core!ReadyCached, Core!Join, Core!Instantiate
    <3> QED
      BY <3>1, <3>2 DEF CalledTogether
  <2> QED
    BY <2>1, <2>2
<1>2. ASSUME NEW c \in Callers, Continue(c), UNCHANGED coreVars
      PROVE coreResult'[d] # "none" \/ attempt'[d] # 0
  <2>1. result[d] # "none" \/ waitsFor[d] # 0
    BY <1>2 DEF Continue
  <2> QED
    BY <1>2, <2>1 DEF coreVars, CalledTogether
<1>3. ASSUME NEW c \in Callers, Core!Continue(c), UNCHANGED vars
      PROVE coreResult'[d] # "none" \/ attempt'[d] # 0
  <2>1. coreResult[d] # "none" \/ attempt[d] # 0
    BY <1>3 DEF vars, CalledTogether
  <2> QED
    BY <1>3, <2>1 DEF Core!Continue, Core!Return, Core!Catch
<1>4. ASSUME NEW a \in Attempts, Settle(a), UNCHANGED coreVars
      PROVE coreResult'[d] # "none" \/ attempt'[d] # 0
  BY <1>4 DEF Settle, FetchSucceeds, FetchFails, coreVars, CalledTogether
<1>5. ASSUME NEW a \in Attempts, Core!Settle(a), UNCHANGED vars
      PROVE coreResult'[d] # "none" \/ attempt'[d] # 0
  BY <1>5 DEF Core!Settle, Core!Succeed, Core!Fail, vars, CalledTogether
<1>6. ASSUME UNCHANGED all PROVE coreResult'[d] # "none" \/ attempt'[d] # 0
  BY <1>6 DEF all, vars, coreVars, CalledTogether
<1> QED
  BY <1>1, <1>2, <1>3, <1>4, <1>5, <1>6 DEF ReadyNext

\* The inductive invariant of the composition.
THEOREM ReadyInvariant == ReadySpec => []RInv
<1>1. ReadyInit => RInv
  <2> SUFFICES ASSUME ReadyInit PROVE RInv
    OBVIOUS
  <2>1. IInv
    BY InitIInv DEF ReadyInit
  <2>2. CoreInv
    BY InitCoreInv, MaxAttemptsAssumption DEF ReadyInit
  <2>3. CalledTogether
    BY DEF ReadyInit, Init, CalledTogether
  <2> QED
    BY <2>1, <2>2, <2>3 DEF RInv
<1>2. RInv /\ [ReadyNext]_all => RInv'
  <2> SUFFICES ASSUME RInv, [ReadyNext]_all PROVE RInv'
    OBVIOUS
  <2>1. IInv'
    BY StepsOfBoth, NextIInv DEF RInv
  <2>2. CoreInv'
    BY StepsOfBoth, NextCoreInv, MaxAttemptsAssumption DEF RInv
  <2> QED
    BY <2>1, <2>2, LinkIsKept DEF RInv
<1> QED
  BY <1>1, <1>2, PTL DEF ReadySpec

\* ready() never has two /status fetches in flight.
THEOREM FetchesAreShared == ReadySpec => []SingleFlight
<1>1. RInv => SingleFlight
  BY DEF RInv, IInv, FlightIsPromise, SingleFlight
<1> QED
  BY <1>1, ReadyInvariant, PTL

\* Nor two instantiations of the core.
THEOREM CoreIsShared == ReadySpec => []SingleInstantiation
<1>1. RInv => SingleInstantiation
  BY DEF RInv, CoreInv, RunningIsPromise, SingleInstantiation,
         Core!SingleInstantiation, Core!Attempts, Attempts
<1> QED
  BY <1>1, ReadyInvariant, PTL

\* Whoever ready() resolves for has a loaded core and the one binding of its client.
THEOREM ReadyIsBound == ReadySpec => []ReadyMeansBound
<1>1. RInv => ReadyMeansBound
  <2> SUFFICES ASSUME RInv, NEW c \in Callers, Resolved(c)
               PROVE cached /\ chainId # None /\ result[c] = chainId
    BY DEF ReadyMeansBound
  <2>1. result[c] \in ChainIds
    BY DEF RInv, IInv, TypeOK, Resolved, Rejected
  <2>2. result[c] = chainId /\ chainId # None
    BY <2>1, NoneAssumption DEF RInv, IInv, OneBinding
  <2>3. coreResult[c] = "ready"
    <3>1. attempt[c] = 0 /\ coreResult[c] # "rejected"
      BY DEF Resolved, Rejected, Core!Free
    <3> QED
      BY <3>1, <2>1 DEF RInv, CalledTogether, Resolved, CoreInv, Core!TypeOK
  <2> QED
    BY <2>2, <2>3 DEF RInv, CoreInv, Core!ReadyMeansCached
<1> QED
  BY <1>1, ReadyInvariant, PTL

-----------------------------------------------------------------------------
\* A failed instantiation that is still the promise waits for the catch block of a
\* caller: the one that started it awaits it until that block has run.

CatcherWaits ==
  \A a \in Core!Attempts :
    initPromise = a /\ coreOutcome[a] # "loaded" => \E c \in Callers : attempt[c] = a

LEMMA CatcherStays ==
  ASSUME CoreInv, CatcherWaits, [Core!Next]_(Core!vars) PROVE CatcherWaits'
<1> USE DEF CoreInv, Core!TypeOK, CatcherWaits
<1>1. ASSUME NEW c \in Callers, Core!ReadyCached(c) PROVE CatcherWaits'
  BY <1>1 DEF Core!ReadyCached
<1>2. ASSUME NEW c \in Callers, Core!Join(c) PROVE CatcherWaits'
  BY <1>2 DEF Core!Join, Core!Free
<1>3. ASSUME NEW c \in Callers, Core!Instantiate(c) PROVE CatcherWaits'
  <2>1. attempt'[c] = initPromise'
    BY <1>3 DEF Core!Instantiate
  <2> QED
    BY <2>1
<1>4. ASSUME NEW b \in Core!Attempts, Core!Settle(b) PROVE CatcherWaits'
  <2>1. /\ initPromise' = initPromise /\ attempt' = attempt
        /\ \A a \in Core!Attempts : coreOutcome'[a] # "loaded" => coreOutcome[a] # "loaded"
    BY <1>4 DEF Core!Settle, Core!Succeed, Core!Fail
  <2> QED
    BY <2>1
<1>5. ASSUME NEW c \in Callers, Core!Return(c) PROVE CatcherWaits'
  <2>1. /\ coreOutcome[attempt[c]] = "loaded" /\ coreOutcome' = coreOutcome
        /\ initPromise' = initPromise
        /\ \A d \in Callers : d # c => attempt'[d] = attempt[d]
    BY <1>5 DEF Core!Return
  <2> QED
    BY <2>1
<1>6. ASSUME NEW c \in Callers, Core!Catch(c) PROVE CatcherWaits'
  <2>1. /\ initPromise' = IF initPromise = attempt[c] THEN 0 ELSE initPromise
        /\ coreOutcome' = coreOutcome
        /\ \A d \in Callers : d # c => attempt'[d] = attempt[d]
    BY <1>6 DEF Core!Catch
  <2> QED
    BY <2>1 DEF Core!Attempts
<1>7. ASSUME UNCHANGED Core!vars PROVE CatcherWaits'
  BY <1>7 DEF Core!vars
<1> QED
  BY <1>1, <1>2, <1>3, <1>4, <1>5, <1>6, <1>7 DEF Core!Next, Core!Ready, Core!Continue

\* Whatever ready() calls overlap, a failed init that a later call would await has a
\* caller whose catch block is still to run: no failure is left in the cache
\* (wasm-loader.ts:119-122).
THEOREM FailedInitsAreCaught == ReadySpec => []CatcherWaits
<1>1. ReadyInit => CatcherWaits
  BY DEF ReadyInit, Core!Init, CatcherWaits, Core!Attempts
<1>2. RInv /\ CatcherWaits /\ [ReadyNext]_all => CatcherWaits'
  BY StepsOfBoth, CatcherStays DEF RInv
<1> QED
  BY <1>1, <1>2, ReadyInvariant, PTL DEF ReadySpec
=============================================================================
