--------------------------- MODULE PyNonceRestart ---------------------------
(***************************************************************************)
(* A process that dies and starts again with the same account.  Nothing is *)
(* persisted (nonce.py:30): the new allocator starts at 0, the threads     *)
(* inside allocate() are gone, the wall clock goes on.                     *)
(***************************************************************************)
EXTENDS PyNonce

CONSTANT MaxRestarts    \* bound: number of restarts

ASSUME MaxRestartsAssumption == MaxRestarts \in Nat

VARIABLES
  restarts,    \* how often the process was restarted
  earlier,     \* history: what the earlier processes were granted
  restartedAt  \* history: the clock at the last restart, 0 before the first

restartVars == <<restarts, earlier, restartedAt>>

RestartInit ==
  /\ Init
  /\ restarts = 0
  /\ earlier = {}
  /\ restartedAt = 0

\* NonceAllocator.__init__ in the new process.
Restart ==
  /\ restarts < MaxRestarts
  /\ restarts' = restarts + 1
  /\ earlier' = earlier \cup {granted[i] : i \in DOMAIN granted}
  /\ restartedAt' = clock
  /\ lock' = NoThread
  /\ last' = 0
  /\ pc' = [t \in Threads |-> "idle"]
  /\ now' = [t \in Threads |-> 0]
  /\ candidate' = [t \in Threads |-> 0]
  /\ granted' = << >>
  /\ UNCHANGED clock

RestartNext ==
  \/ Next /\ UNCHANGED restartVars
  \/ Restart

RestartSpec == RestartInit /\ [][RestartNext]_<<vars, restartVars>>

-----------------------------------------------------------------------------

\* Between restarts the allocator is the abstract nonce service, whatever the
\* threads do: what is handed out only grows by one larger nonce (nonce.py:57).
EachRunImplementsService ==
  Service!Init /\ [][Service!Next \/ Restart]_issuedNonces

\* Unless the clock was set back, a restarted process repeats a nonce of an
\* earlier one only in two cases: the earlier one was in a burst that had outrun
\* the clock, or it read the clock in the very millisecond of the restart
\* (nonce.py:30-34, 63-67).
RepeatsNeedABurst ==
  \A i \in DOMAIN granted, e \in earlier :
    (granted[i].nonce = e.nonce /\ e.now <= restartedAt /\ restartedAt <= granted[i].now)
      => e.nonce > e.now \/ e.now = restartedAt

\* What the class comment says (nonce.py:30-33): the first call after a restart
\* "returns now_ms - always ahead of any pre-crash nonce"; "the only edge case"
\* is a restart within the same millisecond, here a first call whose clock
\* reading is not later than the clock at the restart.
FirstNonceIsAheadOfEarlier ==
  (Len(granted) > 0 /\ granted[1].now > restartedAt)
    => \A e \in earlier : granted[1].nonce > e.nonce
=============================================================================
