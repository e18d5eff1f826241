----------------------------- MODULE Submission -----------------------------
(***************************************************************************)
(* The life of a submission through an ExchangeClient (client.ts): the     *)
(* POST, the gateway and the chain behind it, the verdict, and the two     *)
(* ways of finding out what the chain did when the verdict leaves it open: *)
(* the background verifier of submitTx/submitSignedTx, drained by          *)
(* awaitPendingVerifies(), and the polling of submitTxCommit/              *)
(* submitSignedTxCommit.  The gateway's replies are read as in             *)
(* GatewayReply.  All client code runs on one JavaScript thread and        *)
(* interleaves where it awaits a reply, a timer or another promise.        *)
(***************************************************************************)
EXTENDS GatewayReply, Sequences

CONSTANTS
  Calls,     \* the submissions, each with a transaction hash of its own
  Waiters,   \* concurrent callers of awaitPendingVerifies()
  MaxPolls   \* bound: polls of /tx before a poller's deadline

ASSUME MaxPollsAssumption == MaxPolls \in Nat \ {0}

VARIABLES
  pc,        \* where each call is: idle, posted, polling, done or thrown
  commit,    \* whether the call is one of the ...Commit methods
  tx,        \* what became of the call's transaction
  reply,     \* the gateway's reply on its way to the client
  result,    \* what the call returned
  polls,     \* polls of /tx made so far on behalf of the call
  auto,      \* this.autoVerifyDelivery
  pending,   \* this.pendingVerifies: the calls whose verifier is running
  verifier,  \* history: what became of each call's verifier
  delivered, \* this.deliveryResults
  snapshot,  \* the verifiers each waiter's allSettled() is about
  waiting,   \* the waiters inside awaitPendingVerifies()
  drained    \* history: what each waiter was given, in all its calls

clientVars == <<pc, commit, result, polls>>
verifierVars == <<auto, pending, verifier, delivered>>
waiterVars == <<snapshot, waiting, drained>>
vars == <<clientVars, tx, reply, verifierVars, waiterVars>>

NoResult == [outcome |-> "none", code |-> Absent, final |-> FALSE]

Outcomes == {"executed", "failed"}                 \* in a block
Fates == {"unsent", "refused", "rejected", "mempool", "dropped"} \cup Outcomes

Init ==
  /\ pc = [c \in Calls |-> "idle"]
  /\ commit = [c \in Calls |-> FALSE]
  /\ tx = [c \in Calls |-> "unsent"]
  /\ reply = [c \in Calls |-> Absent]
  /\ result = [c \in Calls |-> NoResult]
  /\ polls = [c \in Calls |-> 0]
  /\ auto = TRUE
  /\ pending = {}
  /\ verifier = [c \in Calls |-> "none"]
  /\ delivered = << >>
  /\ snapshot = [w \in Waiters |-> {}]
  /\ waiting = {}
  /\ drained = [w \in Waiters |-> {}]

-----------------------------------------------------------------------------
\* The gateway and the chain, as far as README.md "Transaction results" and the
\* branches of submitViaGateway tell.

ObjectReply(code, status, text, hash, height) ==
  [http |-> 200,
   body |-> [form |-> "object",
             object |-> [code |-> code, status |-> status, error |-> text,
                         message |-> Absent, log |-> Absent, txHash |-> hash,
                         tx_hash |-> FALSE, height |-> height]]]
HttpReply(status) ==
  [http |-> status,
   body |-> [form |-> "raw", text |-> OtherText]]

NetworkError == HttpReply(0)    \* no reply at all: fetch() rejects

Committed(code) == ObjectReply(code, "ok", Absent, TRUE, TRUE)
CheckTxResult(code) == ObjectReply(code, "ok", Absent, TRUE, FALSE)
InFlight == ObjectReply(Absent, "error", OtherText, TRUE, FALSE)
LegacyOk == ObjectReply(Absent, "ok", Absent, FALSE, FALSE)
LegacyReject == ObjectReply(Absent, "error", CompatText(1), FALSE, FALSE)

\* What can be answered for a transaction with this fate.  A 5xx of the gateway or
\* a proxy, and a broken connection, can come at any time.
AnswersTo(fate) ==
  LET only(fates, answers) == IF fate \in fates THEN answers ELSE {}
  IN  {HttpReply(503), NetworkError}
        \cup only({"refused"}, {HttpReply(400), HttpReply(401), HttpReply(413), HttpReply(429)})
        \cup only({"rejected"}, {CheckTxResult(1), LegacyReject})
        \cup only({"executed"}, {Committed(0)})
        \cup only({"failed"}, {Committed(1)})
        \cup only({"mempool", "dropped"} \cup Outcomes, {InFlight, LegacyOk, CheckTxResult(0)})

\* The POST is refused before it gets to the chain, or is broadcast: CheckTx
\* accepts or rejects it.
Arrive(c) ==
  /\ pc[c] = "posted"
  /\ tx[c] = "unsent"
  /\ reply[c] = Absent
  /\ \E fate \in {"refused", "rejected", "mempool"} : tx' = [tx EXCEPT ![c] = fate]
  /\ UNCHANGED <<clientVars, reply, verifierVars, waiterVars>>

\* A transaction in the mempool is executed in a block, fails there, or is lost.
Decide(c) ==
  /\ tx[c] = "mempool"
  /\ \E fate \in Outcomes \cup {"dropped"} : tx' = [tx EXCEPT ![c] = fate]
  /\ UNCHANGED <<clientVars, reply, verifierVars, waiterVars>>

Answer(c) ==
  /\ pc[c] = "posted"
  /\ reply[c] = Absent
  /\ \E r \in AnswersTo(tx[c]) : reply' = [reply EXCEPT ![c] = r]
  /\ UNCHANGED <<clientVars, tx, verifierVars, waiterVars>>

-----------------------------------------------------------------------------
\* The client.

\* submitTx, submitSignedTx, submitTxCommit or submitSignedTxCommit is called
\* and gets as far as its POST.
Submit(c) ==
  /\ pc[c] = "idle"
  /\ pc' = [pc EXCEPT ![c] = "posted"]
  /\ \E k \in BOOLEAN : commit' = [commit EXCEPT ![c] = k]
  /\ UNCHANGED <<tx, reply, result, polls, verifierVars, waiterVars>>

\* fetch() rejects: the exception goes to the caller.
FetchThrows(c) ==
  /\ pc[c] = "posted"
  /\ reply[c] = NetworkError
  /\ reply' = [reply EXCEPT ![c] = Absent]
  /\ pc' = [pc EXCEPT ![c] = "thrown"]
  /\ UNCHANGED <<commit, tx, result, polls, verifierVars, waiterVars>>

Received(c) == pc[c] = "posted" /\ reply[c] \notin {Absent, NetworkError}

\* The end of submitTx and submitSignedTx: return the verdict, and leave a
\* verifier behind when it is not final (every open verdict has a hash).
ReturnSync(c) ==
  LET verdict == TsVerdict(reply[c]) IN
  /\ Received(c)
  /\ ~commit[c]
  /\ reply' = [reply EXCEPT ![c] = Absent]
  /\ pc' = [pc EXCEPT ![c] = "done"]
  /\ result' = [result EXCEPT ![c] = verdict]
  /\ IF auto /\ ~verdict.final
       THEN /\ pending' = pending \cup {c}
            /\ verifier' = [verifier EXCEPT ![c] = "running"]
       ELSE UNCHANGED <<pending, verifier>>
  /\ UNCHANGED <<commit, tx, polls, auto, delivered, waiterVars>>

CommitOnAck(c) ==
  LET verdict == TsVerdict(reply[c]) IN
  /\ Received(c)
  /\ commit[c]
  /\ reply' = [reply EXCEPT ![c] = Absent]
  /\ pc' = [pc EXCEPT ![c] = IF verdict.outcome = "timeout" THEN "polling" ELSE "done"]
  /\ result' = [result EXCEPT ![c] = verdict]
  /\ UNCHANGED <<commit, tx, polls, verifierVars, waiterVars>>

\* awaitCommit: a final verdict is returned, any other is polled for.
AwaitCommit(c) ==
  LET verdict == TsVerdict(reply[c]) IN
  /\ Received(c)
  /\ commit[c]
  /\ reply' = [reply EXCEPT ![c] = Absent]
  /\ pc' = [pc EXCEPT ![c] = IF verdict.final THEN "done" ELSE "polling"]
  /\ result' = [result EXCEPT ![c] = verdict]
  /\ UNCHANGED <<commit, tx, polls, verifierVars, waiterVars>>

ExecResult(c) == FromEngineCode(IF tx[c] = "executed" THEN 0 ELSE 1, TRUE)

\* awaitCommit's loop finds the transaction in a block.
CommitFound(c) ==
  /\ pc[c] = "polling"
  /\ tx[c] \in Outcomes
  /\ pc' = [pc EXCEPT ![c] = "done"]
  /\ result' = [result EXCEPT ![c] = ExecResult(c)]
  /\ UNCHANGED <<commit, tx, reply, polls, verifierVars, waiterVars>>

CommitNeverGivesUp(c) ==
  /\ pc[c] = "polling"
  /\ polls[c] + 1 < MaxPolls
  /\ polls' = [polls EXCEPT ![c] = @ + 1]
  /\ UNCHANGED <<pc, commit, tx, reply, result, verifierVars, waiterVars>>

CommitGivesUpAsRejected(c) ==
  /\ pc[c] = "polling"
  /\ \/ /\ polls[c] + 1 < MaxPolls
        /\ polls' = [polls EXCEPT ![c] = @ + 1]
        /\ UNCHANGED <<pc, result>>
     \/ /\ pc' = [pc EXCEPT ![c] = "done"]
        /\ result' = [result EXCEPT ![c] = Engine(1)]
        /\ UNCHANGED polls
  /\ UNCHANGED <<commit, tx, reply, verifierVars, waiterVars>>

\* ... or does not: not indexed yet, or the request failed.  The loop goes on
\* until its deadline and then returns a timeout.
CommitMissed(c) ==
  /\ pc[c] = "polling"
  /\ \/ /\ polls[c] + 1 < MaxPolls
        /\ polls' = [polls EXCEPT ![c] = @ + 1]
        /\ UNCHANGED <<pc, result>>
     \/ /\ pc' = [pc EXCEPT ![c] = "done"]
        /\ result' = [result EXCEPT ![c] = Timeout]
        /\ UNCHANGED polls
  /\ UNCHANGED <<commit, tx, reply, verifierVars, waiterVars>>

Delivery(c) == [call |-> c, result |-> ExecResult(c)]

\* A verifier finds its transaction, pushes the result and leaves the set in
\* its finally block.
VerifierFound(c) ==
  /\ c \in pending
  /\ tx[c] \in Outcomes
  /\ delivered' = Append(delivered, Delivery(c))
  /\ pending' = pending \ {c}
  /\ verifier' = [verifier EXCEPT ![c] = "found"]
  /\ UNCHANGED <<clientVars, tx, reply, auto, waiterVars>>

VerifierNeverExpires(c) ==
  /\ c \in pending
  /\ polls[c] + 1 < MaxPolls
  /\ polls' = [polls EXCEPT ![c] = @ + 1]
  /\ UNCHANGED <<pc, commit, tx, reply, result, verifierVars, waiterVars>>

\* A verifier polls in vain; at its deadline it ends without a result.
VerifierMissed(c) ==
  /\ c \in pending
  /\ \/ /\ polls[c] + 1 < MaxPolls
        /\ polls' = [polls EXCEPT ![c] = @ + 1]
        /\ UNCHANGED <<pending, verifier>>
     \/ /\ pending' = pending \ {c}
        /\ verifier' = [verifier EXCEPT ![c] = "expired"]
        /\ UNCHANGED polls
  /\ UNCHANGED <<pc, commit, tx, reply, result, auto, delivered, waiterVars>>

\* setUnsafeFastSubmit()
SetUnsafeFastSubmit ==
  /\ auto' = ~auto
  /\ UNCHANGED <<clientVars, tx, reply, pending, verifier, delivered, waiterVars>>

Buffered == {delivered[i] : i \in DOMAIN delivered}

DrainKeepingBuffer(w) ==
  /\ drained' = [drained EXCEPT ![w] = @ \cup Buffered]
  /\ UNCHANGED delivered

\* `results = [...this.deliveryResults]; this.deliveryResults = []; return results`
Drain(w) ==
  /\ drained' = [drained EXCEPT ![w] = @ \cup Buffered]
  /\ delivered' = << >>

\* awaitPendingVerifies() is called: it returns at once, or waits for the
\* verifiers of this moment.
AwaitPendingVerifies(w) ==
  /\ w \notin waiting
  /\ IF pending = {}
       THEN Drain(w) /\ UNCHANGED <<snapshot, waiting>>
       ELSE /\ waiting' = waiting \cup {w}
            /\ snapshot' = [snapshot EXCEPT ![w] = pending]
            /\ UNCHANGED <<drained, delivered>>
  /\ UNCHANGED <<clientVars, tx, reply, auto, pending, verifier>>

DrainAfterFirstSnapshot(w) ==
  /\ w \in waiting
  /\ snapshot[w] \cap pending = {}
  /\ Drain(w)
  /\ waiting' = waiting \ {w}
  /\ snapshot' = [snapshot EXCEPT ![w] = {}]
  /\ UNCHANGED <<clientVars, tx, reply, auto, pending, verifier>>

\* All of the snapshot has settled: wait for those spawned meanwhile, or drain.
AllSettled(w) ==
  /\ w \in waiting
  /\ snapshot[w] \cap pending = {}
  /\ IF pending = {}
       THEN /\ Drain(w)
            /\ waiting' = waiting \ {w}
            /\ snapshot' = [snapshot EXCEPT ![w] = {}]
       ELSE /\ snapshot' = [snapshot EXCEPT ![w] = pending]
            /\ UNCHANGED <<waiting, drained, delivered>>
  /\ UNCHANGED <<clientVars, tx, reply, auto, pending, verifier>>

Client(c) ==
  \/ FetchThrows(c) \/ ReturnSync(c) \/ AwaitCommit(c)
  \/ CommitFound(c) \/ CommitMissed(c) \/ VerifierFound(c) \/ VerifierMissed(c)

Next ==
  \/ \E c \in Calls : Submit(c) \/ Arrive(c) \/ Decide(c) \/ Answer(c) \/ Client(c)
  \/ \E w \in Waiters : AwaitPendingVerifies(w) \/ AllSettled(w)
  \/ SetUnsafeFastSubmit

\* Every POST is answered or breaks, and promises and timers continue.  That a
\* transaction is ever decided, or its result found, is not assumed.
Fairness ==
  /\ \A c \in Calls : WF_vars(Answer(c)) /\ WF_vars(Client(c))
  /\ \A w \in Waiters : WF_vars(AllSettled(w))

Spec == Init /\ [][Next]_vars /\ Fairness

-----------------------------------------------------------------------------

\* A rejection the caller is told of is one: the transaction was rejected or
\* failed in its block and never executes later; and a final success is in a
\* block (client.ts:702-708, 729-731).
FinalVerdictsAreTrue ==
  \A c \in Calls :
    /\ result[c].outcome = "engine" => tx[c] \in {"rejected", "failed"}
    /\ (result[c].outcome = "ok" /\ result[c].final) => tx[c] = "executed"

\* "submitTxCommit ... definitively": when a ...Commit call says ok, the
\* transaction is executed, whichever gateway answered (client.ts:486, 883-885).
CommitOkMeansExecuted ==
  \A c \in Calls :
    (commit[c] /\ pc[c] = "done" /\ result[c].outcome = "ok") => tx[c] = "executed"

CallsOf(deliveries) == {d.call : d \in deliveries}

\* What a verifier found is handed to one waiter and once, or still lies in the
\* buffer; what it reports is what happened (client.ts:832-845).
HandedOverOnce ==
  /\ \A i, j \in DOMAIN delivered : delivered[i].call = delivered[j].call => i = j
  /\ \A v, w \in Waiters : v # w => CallsOf(drained[v]) \cap CallsOf(drained[w]) = {}
  /\ \A w \in Waiters : CallsOf(drained[w]) \cap CallsOf(Buffered) = {}
  /\ {c \in Calls : verifier[c] = "found"} =
       CallsOf(Buffered) \cup UNION {CallsOf(drained[w]) : w \in Waiters}
  /\ \A d \in Buffered \cup UNION {drained[w] : w \in Waiters} : d.result = ExecResult(d.call)

\* When awaitPendingVerifies() returns, no verifier is running, not even one
\* spawned during the wait, and no result is left behind (client.ts:825-838).
WaitEndsWithNothingPending ==
  [][\A w \in waiting \ waiting' :
       /\ \A c \in Calls : verifier[c] # "running"
       /\ Buffered \subseteq drained'[w]
       /\ delivered' = << >>]_vars

\* "A transport failure never reached the chain at all" (client.ts:732).
TransportNeverReachedTheChain ==
  \A c \in Calls :
    result[c].outcome = "transport" => tx[c] \notin Outcomes

\* Every call returns or throws, with a gateway that answers late, early or not
\* at all, and a chain that never decides (client.ts:919-944).
CallsReturn ==
  \A c \in Calls : pc[c] = "posted" ~> pc[c] \in {"done", "thrown"}

\* No verifier runs for ever, so with finitely many submissions
\* awaitPendingVerifies() returns (client.ts:784-787, 816, 835-841).
WaitersReturn == \A w \in Waiters : w \in waiting ~> w \notin waiting
=============================================================================
