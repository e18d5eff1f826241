---------------------------- MODULE GatewayProof ----------------------------
(***************************************************************************)
(* What a client may conclude from the gateway's replies, for any set of   *)
(* engine codes, any number of calls, waiters and polls.  Submission: a    *)
(* final verdict is the truth about its transaction, because every reply   *)
(* is true of the transaction's fate when it is sent, and a fate that a    *)
(* reply may call final changes no more.  What a verifier finds is handed  *)
(* over once, because a call's verifier is running, found or over, and the *)
(* found ones are exactly those in the buffer or with one of the waiters.  *)
(***************************************************************************)
EXTENDS Submission, GatewayVerdict, TLAPS

-----------------------------------------------------------------------------
\* Submission.

Results ==
  {NoResult, Transport, Timeout} \cup {Ok(final) : final \in BOOLEAN}
    \cup {Engine(k) : k \in EngineCodes}

SubmissionTypes ==
  /\ pc \in [Calls -> {"idle", "posted", "polling", "done", "thrown"}]
  /\ commit \in [Calls -> BOOLEAN]
  /\ tx \in [Calls -> Fates]
  /\ reply \in [Calls -> {Absent} \cup UNION {AnswersTo(fate) : fate \in Fates}]
  /\ result \in [Calls -> Results]
  /\ polls \in [Calls -> Nat]
  /\ pending \in SUBSET Calls
  /\ verifier \in [Calls -> {"none", "running", "found", "expired"}]
  /\ delivered \in Seq([call : Calls, result : Results])
  /\ snapshot \in [Waiters -> SUBSET Calls]
  /\ waiting \in SUBSET Waiters
  /\ drained \in [Waiters -> SUBSET [call : Calls, result : Results]]

\* What a verdict that is not open says of the transaction.
TrueOf(verdict, fate) ==
  /\ verdict.outcome = "engine" => fate \in {"rejected", "failed"}
  /\ (verdict.outcome = "ok" /\ verdict.final) => fate = "executed"

\* A reply on its way is read as something true.
RepliesAreTrue ==
  \A c \in Calls : reply[c] # Absent => TrueOf(TsVerdict(reply[c]), tx[c])

\* A ...Commit call does not end with an ok that is still open.
CommitOkIsFinal ==
  \A c \in Calls :
    (commit[c] /\ pc[c] = "done" /\ result[c].outcome = "ok") => result[c].final

\* this.pendingVerifies holds the verifiers that run, each left behind by a call
\* that has returned; one that found its transaction found it in a block.
VerifiersAreTracked ==
  \A c \in Calls :
    /\ c \in pending <=> verifier[c] = "running"
    /\ verifier[c] # "none" => pc[c] = "done"
    /\ verifier[c] = "found" => tx[c] \in Outcomes

SubmissionInv ==
  /\ SubmissionTypes
  /\ RepliesAreTrue
  /\ FinalVerdictsAreTrue
  /\ CommitOkIsFinal
  /\ VerifiersAreTracked
  /\ HandedOverOnce

USE EngineCodesAssumption, MaxPollsAssumption

\* The fields of results, so that proofs need not open the records.
LEMMA OkFields ==
  ASSUME NEW final \in BOOLEAN
  PROVE  Ok(final) \in Results /\ Ok(final).outcome = "ok" /\ (Ok(final).final <=> final)
<1>1. Ok(final) \in Results
  BY DEF Results
<1>2. Ok(final).outcome = "ok" /\ (Ok(final).final <=> final)
  BY DEF Ok
<1> QED
  BY <1>1, <1>2

LEMMA EngineFields ==
  ASSUME NEW k \in EngineCodes
  PROVE  Engine(k) \in Results /\ Engine(k).outcome = "engine" /\ Engine(k).final
<1>1. Engine(k) \in Results
  BY DEF Results
<1>2. Engine(k).outcome = "engine" /\ Engine(k).final
  BY DEF Engine
<1> QED
  BY <1>1, <1>2

LEMMA OpenFields ==
  /\ Timeout \in Results /\ Timeout.outcome = "timeout" /\ ~Timeout.final
  /\ Transport \in Results /\ Transport.outcome = "transport"
  /\ NoResult \in Results /\ NoResult.outcome = "none"
<1>1. {Timeout, Transport, NoResult} \subseteq Results
  BY DEF Results
<1>2. Timeout.outcome = "timeout" /\ ~Timeout.final
  BY DEF Timeout
<1>3. Transport.outcome = "transport" /\ NoResult.outcome = "none"
  BY DEF Transport, NoResult
<1> QED
  BY <1>1, <1>2, <1>3

LEMMA EngineCodeValues ==
  /\ 0 \in EngineCodes /\ 0 \notin {Absent, NotANumber}
  /\ 1 \in EngineCodes /\ 1 \notin {Absent, NotANumber}
BY AbsentAssumption DEF NotANumber

\* A text is something.
LEMMA TextsArePresent ==
  /\ \A words \in CanonicalTexts \cup {"empty", "other"} : Starts(words) # Absent
  /\ \A k \in Nat : CompatText(k) # Absent
<1> DEFINE Words == CanonicalTexts \cup {"empty", "other"}
<1>1. ASSUME NEW words \in Words
      PROVE  Starts(words) \in [lead : Int \cup {Absent}, starts : Words]
  BY DEF Starts
<1>2. ASSUME NEW k \in Nat
      PROVE  CompatText(k) \in [lead : Int \cup {Absent}, starts : Words]
  BY DEF CompatText
<1> QED
  BY <1>1, <1>2, AbsentAssumption

\* The branches of submitViaGateway on the objects the gateway answers with.
LEMMA ObjectVerdict ==
  ASSUME NEW k, NEW status, NEW text, NEW hash \in BOOLEAN, NEW height \in BOOLEAN,
         NEW r, r = ObjectReply(k, status, text, hash, height)
  PROVE  /\ k \notin {Absent, NotANumber} => TsVerdict(r) = FromEngineCode(k, height)
         /\ (k = Absent /\ status = "ok") => TsVerdict(r) = Ok(FALSE)
         /\ (k = Absent /\ status # "ok" /\ hash) => TsVerdict(r) = Timeout
<1>1. /\ r.http \in OkStatuses /\ r.body.form = "object"
      /\ r.body.object.code = k /\ r.body.object.status = status
      /\ r.body.object.error = text /\ r.body.object.txHash = hash
      /\ r.body.object.height = height
  BY DEF ObjectReply, OkStatuses
<1>2. TsVerdict(r) = TsObject(r.body)
  BY <1>1 DEF TsVerdict
<1>3. HasNumber(r.body.object) <=> k \notin {Absent, NotANumber}
  BY <1>1 DEF HasNumber
<1>4. k \notin {Absent, NotANumber} => TsVerdict(r) = FromEngineCode(k, height)
  BY <1>1, <1>2, <1>3 DEF TsObject
<1>5. (k = Absent /\ status = "ok") => TsVerdict(r) = Ok(FALSE)
  BY <1>1, <1>2, <1>3 DEF TsObject
<1>6. (k = Absent /\ status # "ok" /\ hash) => TsVerdict(r) = Timeout
  BY <1>1, <1>2, <1>3 DEF TsObject
<1> QED
  BY <1>4, <1>5, <1>6

LEMMA ErrorTextVerdict ==
  ASSUME NEW text, text # Absent,
         NEW r, r = ObjectReply(Absent, "error", text, FALSE, FALSE)
  PROVE  TsVerdict(r) = Engine(CodeOr1(text.lead))
<1>1. /\ r.http \in OkStatuses /\ r.body.form = "object"
      /\ r.body.object.code = Absent /\ r.body.object.status = "error"
      /\ r.body.object.error = text /\ ~r.body.object.txHash
  BY DEF ObjectReply, OkStatuses
<1>2. TsVerdict(r) = TsObject(r.body)
  BY <1>1 DEF TsVerdict
<1> QED
  BY <1>1, <1>2 DEF TsObject, HasNumber, TsErrorText, LeadingCode

\* Every answer is read as something true of the fate it is an answer to.
LEMMA AnswersAreTrue ==
  ASSUME NEW fate \in Fates, NEW r \in AnswersTo(fate)
  PROVE  TsVerdict(r) \in Results /\ TrueOf(TsVerdict(r), fate)
<1>1. CASE \E k \in {400, 401, 413, 429, 503, 0} : r = HttpReply(k)
  <2>1. TsVerdict(r) = Transport
    BY <1>1 DEF HttpReply, TsVerdict, OkStatuses
  <2> QED
    BY <2>1, OpenFields DEF TrueOf
<1>2. CASE \/ fate = "rejected" /\ r = CheckTxResult(1)
           \/ fate = "failed" /\ r = Committed(1)
  <2>1. \/ r = ObjectReply(1, "ok", Absent, TRUE, FALSE)
        \/ r = ObjectReply(1, "ok", Absent, TRUE, TRUE)
    BY <1>2 DEF CheckTxResult, Committed
  <2>2. CASE r = ObjectReply(1, "ok", Absent, TRUE, FALSE)
    <3>1. TsVerdict(r) = FromEngineCode(1, FALSE)
      BY <2>2, EngineCodeValues, ObjectVerdict
    <3>2. TsVerdict(r) = Engine(1)
      BY <3>1 DEF FromEngineCode
    <3> QED
      BY <3>2, <1>2, EngineCodeValues, EngineFields DEF TrueOf
  <2>3. CASE r = ObjectReply(1, "ok", Absent, TRUE, TRUE)
    <3>1. TsVerdict(r) = FromEngineCode(1, TRUE)
      BY <2>3, EngineCodeValues, ObjectVerdict
    <3>2. TsVerdict(r) = Engine(1)
      BY <3>1 DEF FromEngineCode
    <3> QED
      BY <3>2, <1>2, EngineCodeValues, EngineFields DEF TrueOf
  <2> QED
    BY <2>1, <2>2, <2>3
<1>3. CASE fate = "rejected" /\ r = LegacyReject
  <2>1. CompatText(1).lead = 1 /\ CompatText(1) # Absent
    BY TextsArePresent DEF CompatText
  <2>2. r = ObjectReply(Absent, "error", CompatText(1), FALSE, FALSE)
    BY <1>3 DEF LegacyReject
  <2>3. TsVerdict(r) = Engine(CodeOr1(CompatText(1).lead))
    BY <2>1, <2>2, ErrorTextVerdict
  <2>4. TsVerdict(r) = Engine(1)
    BY <2>1, <2>3, EngineCodeValues DEF CodeOr1
  <2> QED
    BY <1>3, <2>4, EngineCodeValues, EngineFields DEF TrueOf
<1>4. CASE fate = "executed" /\ r = Committed(0)
  <2>1. r = ObjectReply(0, "ok", Absent, TRUE, TRUE)
    BY <1>4 DEF Committed
  <2>2. TsVerdict(r) = FromEngineCode(0, TRUE)
    BY <2>1, EngineCodeValues, ObjectVerdict
  <2>3. TsVerdict(r) = Ok(TRUE)
    BY <2>2 DEF FromEngineCode
  <2> QED
    BY <1>4, <2>3, OkFields DEF TrueOf
<1>5. CASE r = InFlight
  <2>1. r = ObjectReply(Absent, "error", OtherText, TRUE, FALSE)
    BY <1>5 DEF InFlight
  <2>2. "error" # "ok" /\ TRUE \in BOOLEAN /\ FALSE \in BOOLEAN
    OBVIOUS
  <2>3. TsVerdict(r) = Timeout
    BY <2>1, <2>2, ObjectVerdict
  <2> QED
    BY <2>3, OpenFields DEF TrueOf
<1>6. CASE r = LegacyOk
  <2>1. r = ObjectReply(Absent, "ok", Absent, FALSE, FALSE)
    BY <1>6 DEF LegacyOk
  <2>2. TsVerdict(r) = Ok(FALSE)
    BY <2>1, ObjectVerdict
  <2> QED
    BY <2>2, OkFields DEF TrueOf
<1>7. CASE r = CheckTxResult(0)
  <2>1. r = ObjectReply(0, "ok", Absent, TRUE, FALSE)
    BY <1>7 DEF CheckTxResult
  <2>2. TsVerdict(r) = FromEngineCode(0, FALSE)
    BY <2>1, EngineCodeValues, ObjectVerdict
  <2>3. TsVerdict(r) = Ok(FALSE)
    BY <2>2 DEF FromEngineCode
  <2> QED
    BY <2>3, OkFields DEF TrueOf
<1> QED
  BY <1>1, <1>2, <1>3, <1>4, <1>5, <1>6, <1>7 DEF AnswersTo, Outcomes, NetworkError

\* What the chain decided, as a poller reads it.
LEMMA ExecResultIsTrue ==
  ASSUME NEW c \in Calls, tx[c] \in Outcomes
  PROVE  /\ ExecResult(c) \in Results
         /\ TrueOf(ExecResult(c), tx[c])
         /\ ExecResult(c).final
<1>1. CASE tx[c] = "executed"
  BY <1>1, OkFields DEF ExecResult, FromEngineCode, TrueOf
<1>2. CASE tx[c] = "failed"
  BY <1>2, EngineCodeValues, EngineFields DEF ExecResult, FromEngineCode, TrueOf
<1> QED
  BY <1>1, <1>2 DEF Outcomes

LEMMA InitSubmissionInv == Init => SubmissionInv
<1> SUFFICES ASSUME Init PROVE SubmissionInv
  OBVIOUS
<1>1. SubmissionTypes
  BY DEF Init, SubmissionTypes, Fates, Results
<1>2. RepliesAreTrue /\ FinalVerdictsAreTrue /\ CommitOkIsFinal
  BY DEF Init, RepliesAreTrue, FinalVerdictsAreTrue, CommitOkIsFinal, NoResult
<1>3. VerifiersAreTracked
  BY DEF Init, VerifiersAreTracked
<1>4. HandedOverOnce
  BY DEF Init, HandedOverOnce, Buffered, CallsOf
<1> QED
  BY <1>1, <1>2, <1>3, <1>4 DEF SubmissionInv

\* A reply on its way is read as a result.
LEMMA VerdictIsResult ==
  ASSUME SubmissionTypes, NEW c \in Calls, reply[c] # Absent
  PROVE  TsVerdict(reply[c]) \in Results
<1>1. PICK fate \in Fates : reply[c] \in AnswersTo(fate)
  BY DEF SubmissionTypes
<1> QED
  BY <1>1, AnswersAreTrue

\* A step that lets verifiers and deliveries be, and decides no transaction twice,
\* hands nothing over.
LEMMA HandedOverStays ==
  ASSUME HandedOverOnce, UNCHANGED <<delivered, drained>>,
         \A c \in Calls : verifier'[c] = "found" <=> verifier[c] = "found",
         \A c \in Calls : verifier[c] = "found" => tx'[c] = tx[c]
  PROVE  HandedOverOnce'
<1>1. Buffered' = Buffered
  BY DEF Buffered
<1>2. ASSUME NEW d \in Buffered \cup UNION {drained[w] : w \in Waiters}
      PROVE  d.result = ExecResult(d.call)'
  <2>1. d.call \in CallsOf(Buffered) \cup UNION {CallsOf(drained[w]) : w \in Waiters}
    BY DEF CallsOf
  <2>2. d.call \in Calls /\ verifier[d.call] = "found"
    BY <2>1 DEF HandedOverOnce
  <2> QED
    BY <2>2 DEF HandedOverOnce, ExecResult
<1>3. {c \in Calls : verifier'[c] = "found"} = {c \in Calls : verifier[c] = "found"}
  OBVIOUS
<1> QED
  BY <1>1, <1>2, <1>3 DEF HandedOverOnce

\* What is true of a verdict stays true, since a transaction whose fate a final
\* verdict may tell is decided for good.
LEMMA FatesAreFinal ==
  ASSUME SubmissionInv, NEW c \in Calls, NEW verdict,
         tx'[c] = tx[c] \/ tx[c] \in {"unsent", "mempool"}
  PROVE  /\ TrueOf(verdict, tx[c]) => TrueOf(verdict, tx'[c])
         /\ verifier[c] = "found" => tx'[c] = tx[c]
BY DEF SubmissionInv, VerifiersAreTracked, TrueOf, Outcomes

\* Submit, Arrive, Decide and Answer.
LEMMA ChainSteps ==
  ASSUME SubmissionInv, NEW c \in Calls,
         Submit(c) \/ Arrive(c) \/ Decide(c) \/ Answer(c)
  PROVE  SubmissionInv'
<1> USE DEF SubmissionInv
<1>1. CASE Submit(c)
  <2>1. SubmissionTypes'
    BY <1>1 DEF Submit, SubmissionTypes, verifierVars, waiterVars
  <2>2. RepliesAreTrue' /\ FinalVerdictsAreTrue' /\ CommitOkIsFinal'
    BY <1>1 DEF Submit, SubmissionTypes, verifierVars, waiterVars, RepliesAreTrue,
                FinalVerdictsAreTrue, CommitOkIsFinal
  <2>3. VerifiersAreTracked'
    BY <1>1 DEF Submit, SubmissionTypes, verifierVars, VerifiersAreTracked
  <2>4. HandedOverOnce'
    BY <1>1, HandedOverStays DEF Submit, verifierVars, waiterVars
  <2> QED
    BY <2>1, <2>2, <2>3, <2>4
<1>2. CASE Arrive(c) \/ Decide(c)
  <2> USE DEF Arrive, Decide, clientVars, verifierVars, waiterVars
  <2>1. SubmissionTypes'
    BY <1>2 DEF SubmissionTypes, Fates, Outcomes
  <2>2. /\ \A b \in Calls : tx'[b] = tx[b] \/ tx[b] \in {"unsent", "mempool"}
        /\ UNCHANGED <<clientVars, reply, verifierVars, waiterVars>>
    BY <1>2 DEF SubmissionTypes
  <2>3. RepliesAreTrue'
    BY <2>2, FatesAreFinal DEF RepliesAreTrue
  <2>4. FinalVerdictsAreTrue'
    BY <2>2, FatesAreFinal DEF FinalVerdictsAreTrue, TrueOf
  <2>5. CommitOkIsFinal'
    BY <2>2 DEF CommitOkIsFinal
  <2>6. VerifiersAreTracked'
    BY <2>2, FatesAreFinal DEF VerifiersAreTracked
  <2>7. HandedOverOnce'
    BY <2>2, FatesAreFinal, HandedOverStays
  <2> QED
    BY <2>1, <2>3, <2>4, <2>5, <2>6, <2>7
<1>3. CASE Answer(c)
  <2> USE DEF Answer, clientVars, verifierVars, waiterVars
  <2>1. PICK r \in AnswersTo(tx[c]) : reply' = [reply EXCEPT ![c] = r]
    BY <1>3
  <2>2. tx[c] \in Fates
    BY DEF SubmissionTypes
  <2>3. SubmissionTypes'
    BY <1>3, <2>1, <2>2 DEF SubmissionTypes
  <2>4. RepliesAreTrue'
    BY <1>3, <2>1, <2>2, AnswersAreTrue DEF RepliesAreTrue, SubmissionTypes
  <2>5. FinalVerdictsAreTrue' /\ CommitOkIsFinal' /\ VerifiersAreTracked'
    BY <1>3 DEF FinalVerdictsAreTrue, CommitOkIsFinal, VerifiersAreTracked
  <2>6. HandedOverOnce'
    BY <1>3, HandedOverStays
  <2> QED
    BY <2>3, <2>4, <2>5, <2>6
<1> QED
  BY <1>1, <1>2, <1>3

\* FetchThrows, ReturnSync and AwaitCommit: a reply has come.
LEMMA ReplySteps ==
  ASSUME SubmissionInv, NEW c \in Calls,
         FetchThrows(c) \/ ReturnSync(c) \/ AwaitCommit(c)
  PROVE  SubmissionInv'
<1> DEFINE verdict == TsVerdict(reply[c])
<1> USE DEF SubmissionInv
<1>1. CASE FetchThrows(c)
  <2> USE DEF FetchThrows, verifierVars, waiterVars
  <2>1. SubmissionTypes'
    BY <1>1 DEF SubmissionTypes
  <2>2. RepliesAreTrue' /\ FinalVerdictsAreTrue' /\ CommitOkIsFinal' /\ VerifiersAreTracked'
    BY <1>1 DEF SubmissionTypes, RepliesAreTrue, FinalVerdictsAreTrue, CommitOkIsFinal,
                VerifiersAreTracked
  <2>3. HandedOverOnce'
    BY <1>1, HandedOverStays
  <2> QED
    BY <2>1, <2>2, <2>3
<1>2. CASE ReturnSync(c) \/ AwaitCommit(c)
  <2>1. verdict \in Results /\ TrueOf(verdict, tx[c])
    BY <1>2, VerdictIsResult DEF ReturnSync, AwaitCommit, Received, RepliesAreTrue
  <2> HIDE DEF verdict
  <2>2. /\ pc[c] = "posted"
        /\ reply' = [reply EXCEPT ![c] = Absent]
        /\ result' = [result EXCEPT ![c] = verdict]
        /\ UNCHANGED <<commit, tx, polls, auto, delivered, waiterVars>>
    BY <1>2 DEF ReturnSync, AwaitCommit, Received, verifierVars, verdict
  <2>3. \/ commit[c] /\ verdict.final /\ pc' = [pc EXCEPT ![c] = "done"]
        \/ commit[c] /\ pc' = [pc EXCEPT ![c] = "polling"]
        \/ ~commit[c] /\ pc' = [pc EXCEPT ![c] = "done"]
    BY <1>2 DEF ReturnSync, AwaitCommit, verdict
  <2>4. \/ UNCHANGED <<pending, verifier>>
        \/ /\ pc' = [pc EXCEPT ![c] = "done"]
           /\ pending' = pending \cup {c}
           /\ verifier' = [verifier EXCEPT ![c] = "running"]
    BY <1>2 DEF ReturnSync, AwaitCommit, verifierVars, verdict
  <2>5. verifier[c] = "none"
    BY <2>2 DEF VerifiersAreTracked, SubmissionTypes
  <2>6. SubmissionTypes'
    BY <2>1, <2>2, <2>3, <2>4 DEF SubmissionTypes, waiterVars
  <2>7. RepliesAreTrue'
    BY <2>2 DEF RepliesAreTrue, SubmissionTypes
  <2>8. FinalVerdictsAreTrue'
    BY <2>1, <2>2 DEF FinalVerdictsAreTrue, TrueOf, SubmissionTypes
  <2>9. CommitOkIsFinal'
    BY <2>2, <2>3 DEF CommitOkIsFinal, SubmissionTypes
  <2>10. VerifiersAreTracked'
    BY <2>2, <2>3, <2>4, <2>5 DEF VerifiersAreTracked, SubmissionTypes
  <2>11. HandedOverOnce'
    BY <2>2, <2>4, <2>5, HandedOverStays DEF waiterVars, SubmissionTypes
  <2> QED
    BY <2>6, <2>7, <2>8, <2>9, <2>10, <2>11
<1> QED
  BY <1>1, <1>2

\* CommitFound and CommitMissed: the poller of a ...Commit call.
LEMMA PollerSteps ==
  ASSUME SubmissionInv, NEW c \in Calls, CommitFound(c) \/ CommitMissed(c)
  PROVE  SubmissionInv'
<1> USE DEF SubmissionInv
<1>1. PICK verdict \in Results :
        /\ TrueOf(verdict, tx[c])
        /\ verdict.outcome = "ok" => verdict.final
        /\ \/ pc' = [pc EXCEPT ![c] = "done"] /\ result' = [result EXCEPT ![c] = verdict]
           \/ UNCHANGED <<pc, result>>
  <2>1. CASE CommitFound(c)
    BY <2>1, ExecResultIsTrue DEF CommitFound
  <2>2. CASE CommitMissed(c)
    <3>1. TrueOf(Timeout, tx[c]) /\ Timeout.outcome # "ok"
      BY OpenFields DEF TrueOf
    <3> QED
      BY <2>2, <3>1, OpenFields DEF CommitMissed
  <2> QED
    BY <2>1, <2>2
<1>2. /\ pc[c] = "polling"
      /\ UNCHANGED <<commit, tx, reply, verifierVars, waiterVars>>
      /\ polls' \in [Calls -> Nat]
  BY DEF CommitFound, CommitMissed, SubmissionTypes
<1>3. SubmissionTypes'
  <2>1. pc' \in [Calls -> {"idle", "posted", "polling", "done", "thrown"}]
    BY <1>1 DEF SubmissionTypes
  <2>2. result' \in [Calls -> Results]
    BY <1>1 DEF SubmissionTypes
  <2> QED
    BY <2>1, <2>2, <1>2 DEF SubmissionTypes, verifierVars, waiterVars
<1>4. RepliesAreTrue'
  BY <1>2 DEF RepliesAreTrue
<1>5. FinalVerdictsAreTrue' /\ CommitOkIsFinal'
  BY <1>1, <1>2 DEF FinalVerdictsAreTrue, CommitOkIsFinal, TrueOf, SubmissionTypes
<1>6. VerifiersAreTracked'
  BY <1>1, <1>2 DEF VerifiersAreTracked, verifierVars, SubmissionTypes
<1>7. HandedOverOnce'
  BY <1>2, HandedOverStays DEF verifierVars, waiterVars
<1> QED
  BY <1>3, <1>4, <1>5, <1>6, <1>7

\* VerifierFound: the buffer gets one delivery more, that of a call without one.
LEMMA FoundStep ==
  ASSUME SubmissionInv, NEW c \in Calls, VerifierFound(c)
  PROVE  SubmissionInv'
<1> USE DEF SubmissionInv
<1> DEFINE new == Delivery(c)
           Deliveries == [call : Calls, result : Results]
<1>1. /\ verifier[c] = "running" /\ tx[c] \in Outcomes
      /\ pending' = pending \ {c}
      /\ verifier' = [verifier EXCEPT ![c] = "found"]
      /\ UNCHANGED <<clientVars, tx, reply, auto, waiterVars>>
      /\ delivered' = Append(delivered, new)
  BY DEF VerifierFound, VerifiersAreTracked
<1>2. new \in Deliveries /\ new.call = c /\ new.result = ExecResult(c)
  BY <1>1, ExecResultIsTrue DEF Delivery
<1>3. delivered \in Seq(Deliveries)
  BY DEF SubmissionTypes
<1> HIDE DEF new, Deliveries
<1>4. /\ delivered' \in Seq(Deliveries)
      /\ Len(delivered') = Len(delivered) + 1
      /\ DOMAIN delivered = 1..Len(delivered)
      /\ DOMAIN delivered' = 1..Len(delivered) + 1
      /\ Len(delivered) \in Nat
      /\ \A i \in DOMAIN delivered : delivered'[i] = delivered[i]
      /\ delivered'[Len(delivered) + 1] = new
  BY <1>1, <1>2, <1>3
<1>5. Buffered' = Buffered \cup {new}
  BY <1>4 DEF Buffered
<1>6. CallsOf(Buffered)' = CallsOf(Buffered) \cup {c}
  BY <1>2, <1>5 DEF CallsOf
<1>7. /\ c \notin CallsOf(Buffered)
      /\ \A w \in Waiters : c \notin CallsOf(drained[w])
  BY <1>1 DEF HandedOverOnce
<1>8. SubmissionTypes'
  BY <1>1, <1>4 DEF SubmissionTypes, clientVars, waiterVars, Deliveries
<1>9. RepliesAreTrue' /\ FinalVerdictsAreTrue' /\ CommitOkIsFinal'
  BY <1>1 DEF RepliesAreTrue, FinalVerdictsAreTrue, CommitOkIsFinal, clientVars
<1>10. VerifiersAreTracked'
  BY <1>1 DEF VerifiersAreTracked, clientVars, SubmissionTypes
<1>11. HandedOverOnce'
  <2>1. \A i \in DOMAIN delivered : delivered[i].call # c
    BY <1>7 DEF CallsOf, Buffered
  <2>2. \A i, j \in DOMAIN delivered' : delivered'[i].call = delivered'[j].call => i = j
    BY <2>1, <1>2, <1>4 DEF HandedOverOnce
  <2>3. \A v, w \in Waiters : v # w => CallsOf(drained'[v]) \cap CallsOf(drained'[w]) = {}
    BY <1>1 DEF HandedOverOnce, waiterVars
  <2>4. \A w \in Waiters : CallsOf(drained'[w]) \cap CallsOf(Buffered)' = {}
    BY <1>1, <1>6, <1>7 DEF HandedOverOnce, waiterVars
  <2>5. {b \in Calls : verifier'[b] = "found"} = {b \in Calls : verifier[b] = "found"} \cup {c}
    BY <1>1 DEF SubmissionTypes
  <2>6. {b \in Calls : verifier'[b] = "found"} =
          CallsOf(Buffered)' \cup UNION {CallsOf(drained'[w]) : w \in Waiters}
    BY <2>5, <1>1, <1>6 DEF HandedOverOnce, waiterVars
  <2>7. ASSUME NEW d \in Buffered' \cup UNION {drained'[w] : w \in Waiters}
        PROVE  d.result = ExecResult(d.call)'
    BY <1>1, <1>2, <1>5 DEF HandedOverOnce, waiterVars, ExecResult
  <2> QED
    BY <2>2, <2>3, <2>4, <2>6, <2>7 DEF HandedOverOnce
<1> QED
  BY <1>8, <1>9, <1>10, <1>11

\* VerifierMissed: one verifier less at most, and nothing found.
LEMMA MissedStep ==
  ASSUME SubmissionInv, NEW c \in Calls, VerifierMissed(c)
  PROVE  SubmissionInv'
<1> USE DEF SubmissionInv
<1>1. /\ verifier[c] = "running"
      /\ \/ UNCHANGED <<pending, verifier>>
         \/ /\ pending' = pending \ {c}
            /\ verifier' = [verifier EXCEPT ![c] = "expired"]
      /\ polls' \in [Calls -> Nat]
      /\ UNCHANGED <<pc, commit, tx, reply, result, auto, delivered, waiterVars>>
  <2>1. verifier[c] = "running"
    BY DEF VerifierMissed, VerifiersAreTracked
  <2>2. polls' \in [Calls -> Nat]
    <3>1. polls \in [Calls -> Nat]
      BY DEF SubmissionTypes
    <3>2. polls' = [polls EXCEPT ![c] = @ + 1] \/ polls' = polls
      BY DEF VerifierMissed
    <3> QED
      BY <3>1, <3>2
  <2> QED
    BY <2>1, <2>2 DEF VerifierMissed
<1>2. SubmissionTypes'
  BY <1>1 DEF SubmissionTypes, waiterVars
<1>3. RepliesAreTrue' /\ FinalVerdictsAreTrue' /\ CommitOkIsFinal'
  BY <1>1 DEF RepliesAreTrue, FinalVerdictsAreTrue, CommitOkIsFinal
<1>4. VerifiersAreTracked'
  BY <1>1 DEF VerifiersAreTracked, SubmissionTypes
<1>5. HandedOverOnce'
  BY <1>1, HandedOverStays DEF waiterVars, SubmissionTypes
<1> QED
  BY <1>2, <1>3, <1>4, <1>5

\* The whole buffer goes to one waiter.
LEMMA DrainHandsOver ==
  ASSUME SubmissionTypes, HandedOverOnce, NEW w \in Waiters, Drain(w), UNCHANGED <<tx, verifier>>
  PROVE  /\ HandedOverOnce'
         /\ drained' \in [Waiters -> SUBSET [call : Calls, result : Results]]
         /\ delivered' \in Seq([call : Calls, result : Results])
<1> DEFINE Deliveries == [call : Calls, result : Results]
<1>1. /\ drained' = [drained EXCEPT ![w] = drained[w] \cup Buffered]
      /\ delivered' = << >>
      /\ drained \in [Waiters -> SUBSET Deliveries]
      /\ delivered \in Seq(Deliveries)
  BY DEF Drain, SubmissionTypes
<1> HIDE DEF Deliveries
<1>2. Buffered \subseteq Deliveries /\ Buffered' = {}
  BY <1>1 DEF Buffered
<1>3. /\ drained' \in [Waiters -> SUBSET Deliveries]
      /\ drained'[w] = drained[w] \cup Buffered
      /\ \A v \in Waiters \ {w} : drained'[v] = drained[v]
  BY <1>1, <1>2
<1>4. CallsOf(drained'[w]) = CallsOf(drained[w]) \cup CallsOf(Buffered)
  BY <1>3 DEF CallsOf
<1>5. CallsOf(Buffered)' = {}
  BY <1>2 DEF CallsOf
<1>6. \A i, j \in DOMAIN delivered' : delivered'[i].call = delivered'[j].call => i = j
  BY <1>1
<1>7. \A u, v \in Waiters : u # v => CallsOf(drained'[u]) \cap CallsOf(drained'[v]) = {}
  BY <1>3, <1>4 DEF HandedOverOnce
<1>8. UNION {CallsOf(drained'[v]) : v \in Waiters} =
        CallsOf(Buffered) \cup UNION {CallsOf(drained[v]) : v \in Waiters}
  BY <1>3, <1>4
<1>9. ASSUME NEW d \in UNION {drained'[v] : v \in Waiters}
      PROVE  d.result = ExecResult(d.call)'
  <2>1. d \in Buffered \cup UNION {drained[v] : v \in Waiters}
    BY <1>3
  <2>2. d.result = ExecResult(d.call)
    BY <2>1 DEF HandedOverOnce
  <2> QED
    BY <2>2 DEF ExecResult
<1>10. HandedOverOnce'
  BY <1>2, <1>5, <1>6, <1>7, <1>8, <1>9 DEF HandedOverOnce
<1> QED
  BY <1>1, <1>3, <1>10 DEF Deliveries

\* AwaitPendingVerifies and AllSettled.
LEMMA WaiterSteps ==
  ASSUME SubmissionInv, NEW w \in Waiters, AwaitPendingVerifies(w) \/ AllSettled(w)
  PROVE  SubmissionInv'
<1> USE DEF SubmissionInv
<1>1. /\ UNCHANGED <<clientVars, tx, reply, auto, pending, verifier>>
      /\ Drain(w) \/ UNCHANGED <<delivered, drained>>
      /\ snapshot' \in [Waiters -> SUBSET Calls]
      /\ waiting' \in SUBSET Waiters
  BY DEF AwaitPendingVerifies, AllSettled, SubmissionTypes
<1>2. /\ HandedOverOnce'
      /\ drained' \in [Waiters -> SUBSET [call : Calls, result : Results]]
      /\ delivered' \in Seq([call : Calls, result : Results])
  <2>1. CASE Drain(w)
    BY <2>1, <1>1, DrainHandsOver
  <2>2. CASE UNCHANGED <<delivered, drained>>
    BY <2>2, <1>1, HandedOverStays DEF SubmissionTypes
  <2> QED
    BY <1>1, <2>1, <2>2
<1>3. SubmissionTypes'
  BY <1>1, <1>2 DEF SubmissionTypes, clientVars
<1>4. RepliesAreTrue' /\ FinalVerdictsAreTrue' /\ CommitOkIsFinal' /\ VerifiersAreTracked'
  BY <1>1 DEF RepliesAreTrue, FinalVerdictsAreTrue, CommitOkIsFinal, VerifiersAreTracked,
              clientVars
<1> QED
  BY <1>2, <1>3, <1>4

LEMMA NextSubmissionInv == SubmissionInv /\ [Next]_vars => SubmissionInv'
<1> SUFFICES ASSUME SubmissionInv, [Next]_vars PROVE SubmissionInv'
  OBVIOUS
<1>1. CASE \E c \in Calls : Submit(c) \/ Arrive(c) \/ Decide(c) \/ Answer(c)
  BY <1>1, ChainSteps
<1>2. CASE \E c \in Calls : Client(c)
  <2>1. PICK c \in Calls : Client(c)
    BY <1>2
  <2>2. CASE FetchThrows(c) \/ ReturnSync(c) \/ AwaitCommit(c)
    BY <2>2, ReplySteps
  <2>3. CASE CommitFound(c) \/ CommitMissed(c)
    BY <2>3, PollerSteps
  <2>4. CASE VerifierFound(c)
    BY <2>4, FoundStep
  <2>5. CASE VerifierMissed(c)
    BY <2>5, MissedStep
  <2> QED
    BY <2>1, <2>2, <2>3, <2>4, <2>5 DEF Client
<1>3. CASE \E w \in Waiters : AwaitPendingVerifies(w) \/ AllSettled(w)
  BY <1>3, WaiterSteps
<1>4. CASE SetUnsafeFastSubmit \/ UNCHANGED vars
  <2>1. UNCHANGED <<pc, commit, result, polls, tx, reply, pending, verifier, delivered, waiterVars>>
    BY <1>4 DEF SetUnsafeFastSubmit, vars, clientVars, verifierVars
  <2>2. SubmissionTypes'
    BY <2>1 DEF SubmissionInv, SubmissionTypes, waiterVars
  <2>3. RepliesAreTrue' /\ FinalVerdictsAreTrue' /\ CommitOkIsFinal' /\ VerifiersAreTracked'
    BY <2>1 DEF SubmissionInv, RepliesAreTrue, FinalVerdictsAreTrue, CommitOkIsFinal,
                VerifiersAreTracked
  <2>4. HandedOverOnce'
    BY <2>1, HandedOverStays DEF SubmissionInv, waiterVars
  <2> QED
    BY <2>2, <2>3, <2>4 DEF SubmissionInv
<1> QED
  BY <1>1, <1>2, <1>3, <1>4 DEF Next

LEMMA SubmissionInvariant == Spec => []SubmissionInv
<1> QED
  BY InitSubmissionInv, NextSubmissionInv, PTL DEF Spec

\* A rejection the caller was told of is one, for good, and a final success is in
\* a block, for any number of calls and whatever the gateway answered.
THEOREM FinalVerdictsHold == Spec => []FinalVerdictsAreTrue
<1>1. SubmissionInv => FinalVerdictsAreTrue
  BY DEF SubmissionInv
<1> QED
  BY <1>1, SubmissionInvariant, PTL

\* A ...Commit call that says ok speaks of an executed transaction: its ok is
\* final, and final verdicts are true.
THEOREM CommitIsDefinite == Spec => []CommitOkMeansExecuted
<1>1. SubmissionInv => CommitOkMeansExecuted
  BY DEF SubmissionInv, CommitOkIsFinal, FinalVerdictsAreTrue, CommitOkMeansExecuted
<1> QED
  BY <1>1, SubmissionInvariant, PTL

\* Each delivery a verifier found is in the buffer or with one waiter, once, and
\* says what happened.
THEOREM DeliveriesAreHandedOverOnce == Spec => []HandedOverOnce
<1>1. SubmissionInv => HandedOverOnce
  BY DEF SubmissionInv
<1> QED
  BY <1>1, SubmissionInvariant, PTL

\* A waiter that returns leaves no verifier running and no delivery behind.
THEOREM WaitersLeaveNothing == Spec => WaitEndsWithNothingPending
<1>1. SubmissionInv /\ [Next]_vars =>
        [\A w \in waiting \ waiting' :
           /\ \A c \in Calls : verifier[c] # "running"
           /\ Buffered \subseteq drained'[w]
           /\ delivered' = << >>]_vars
  <2> SUFFICES ASSUME SubmissionInv, Next, NEW w \in waiting \ waiting'
               PROVE  /\ \A c \in Calls : verifier[c] # "running"
                      /\ Buffered \subseteq drained'[w]
                      /\ delivered' = << >>
    BY DEF vars
  <2>1. w \in Waiters
    BY DEF SubmissionInv, SubmissionTypes
  <2>2. AllSettled(w) /\ pending = {}
    BY DEF Next, Client, Submit, Arrive, Decide, Answer, FetchThrows, ReturnSync, AwaitCommit,
           CommitFound, CommitMissed, VerifierFound, VerifierMissed, AwaitPendingVerifies,
           AllSettled, SetUnsafeFastSubmit, waiterVars
  <2> QED
    BY <2>1, <2>2 DEF AllSettled, Drain, SubmissionInv, SubmissionTypes, VerifiersAreTracked
<1> QED
  BY <1>1, SubmissionInvariant, PTL DEF Spec, WaitEndsWithNothingPending

-----------------------------------------------------------------------------
\* GatewayVerdict.  What the bindings make of a reply does not depend on where it
\* came from, so the first three results hold of any value at all for a reply.

\* Every documented reply, and every HTTP failure, is read alike by both bindings.
LEMMA DocumentedVerdicts ==
  ASSUME NEW r, Documented(r)
  PROVE  TsVerdict(r) = PyVerdict(r)
<1>1. CASE r.http \notin OkStatuses
  BY <1>1 DEF TsVerdict, PyVerdict
<1>2. CASE r.http \in OkStatuses /\ r.body.form = "raw"
  <2>1. r.body.text.lead # 0
    BY <1>2 DEF Documented, DocumentedBody
  <2> QED
    BY <1>2, <2>1
       DEF TsVerdict, PyVerdict, TsErrorText, LeadingCode, CodeOr1, NonzeroCodeOr1
<1>3. CASE r.http \in OkStatuses /\ r.body.form = "object"
  <2> DEFINE o == r.body.object
  <2>1. TsVerdict(r) = TsObject(r.body) /\ PyVerdict(r) = PyObject(o)
    BY <1>3 DEF TsVerdict, PyVerdict
  <2>2. Structured(o) \/ Pending(o) \/ LegacyAck(o) \/ LegacyError(o)
    BY <1>3 DEF Documented, DocumentedBody
  <2>3. CASE HasNumber(o)
    BY <2>1, <2>3 DEF TsObject, PyObject, FromEngineCode
  <2>4. CASE ~HasNumber(o) /\ o.status = "ok"
    BY <2>1, <2>4 DEF TsObject, PyObject
  <2>5. CASE ~HasNumber(o) /\ o.status # "ok" /\ o.txHash
    BY <2>1, <2>5 DEF TsObject, PyObject
  <2>6. CASE ~HasNumber(o) /\ o.status # "ok" /\ ~o.txHash
    <3>1. LegacyError(o)
      BY <2>2, <2>6 DEF Structured, Pending, LegacyAck
    <3>2. /\ o.error # Absent /\ NonEmpty(o.error) /\ o.error.lead # 0 /\ ~o.tx_hash
      BY <3>1 DEF LegacyError, NonEmpty
    <3>3. TsVerdict(r) = Engine(CodeOr1(o.error.lead))
      BY <1>3, <2>1, <2>6, <3>2 DEF TsObject, TsErrorText, LeadingCode
    <3>4. PyVerdict(r) = Engine(NonzeroCodeOr1(o.error.lead))
      BY <2>1, <2>6, <3>2 DEF PyObject, PyErrorText, LeadingCode
    <3> QED
      BY <3>2, <3>3, <3>4 DEF CodeOr1, NonzeroCodeOr1
  <2> QED
    BY <2>3, <2>4, <2>5, <2>6
<1> QED
  BY <1>1, <1>2, <1>3 DEF Documented, DocumentedBody

\* The two bindings never disagree on a reply the README documents.
THEOREM BindingsAgree == VerdictSpec => []BindingsAgreeWhereDocumented
<1>1. BindingsAgreeWhereDocumented
  BY DocumentedVerdicts DEF BindingsAgreeWhereDocumented
<1> QED
  BY <1>1, PTL

\* A broadcast transaction without a verdict is pending for both bindings.
THEOREM PendingIsNoRejection == VerdictSpec => []NoPhantomRejection
<1>1. NoPhantomRejection
  <2> SUFFICES ASSUME AnsweredObject, answer.body.object.txHash,
                      ~HasNumber(answer.body.object), answer.body.object.status # "ok"
               PROVE  /\ TsVerdict(answer).outcome = "timeout"
                      /\ ~TsVerdict(answer).final
                      /\ PyVerdict(answer).outcome = "timeout"
    BY DEF NoPhantomRejection
  <2>1. TsVerdict(answer) = Timeout /\ PyVerdict(answer) = Timeout
    BY DEF AnsweredObject, AnsweredOk, TsVerdict, PyVerdict, TsObject, PyObject
  <2> QED
    BY <2>1, OpenFields
<1> QED
  BY <1>1, PTL

\* Only an ok is read as one: a code of 0 or a status "ok" in a JSON object.
THEOREM SuccessIsAcknowledged == VerdictSpec => []SuccessNeedsAnAck
<1>1. ASSUME NEW k PROVE Engine(k).outcome # "ok"
  BY DEF Engine
<1>2. Transport.outcome # "ok" /\ Timeout.outcome # "ok"
  BY OpenFields
<1>3. SuccessNeedsAnAck
  <2> SUFFICES ASSUME Answered,
                      TsVerdict(answer).outcome = "ok" \/ PyVerdict(answer).outcome = "ok"
               PROVE  /\ AnsweredObject
                      /\ answer.body.object.code = 0 \/ answer.body.object.status = "ok"
    BY DEF SuccessNeedsAnAck
  <2>1. AnsweredObject
    BY <1>1, <1>2 DEF AnsweredObject, AnsweredOk, TsVerdict, PyVerdict
  <2>2. TsVerdict(answer) = TsObject(answer.body) /\ PyVerdict(answer) = PyObject(answer.body.object)
    BY <2>1 DEF AnsweredObject, AnsweredOk, TsVerdict, PyVerdict
  <2>3. answer.body.object.code = 0 \/ answer.body.object.status = "ok"
    <3> DEFINE o == answer.body.object
    <3> SUFFICES ASSUME o.code # 0, o.status # "ok" PROVE FALSE
      OBVIOUS
    <3>1. FromEngineCode(o.code, o.height) = Engine(o.code)
      BY DEF FromEngineCode
    <3>2. TsObject(answer.body).outcome # "ok"
      BY <1>1, <1>2, <3>1 DEF TsObject
    <3>3. PyObject(o).outcome # "ok"
      BY <1>1, <1>2 DEF PyObject
    <3> QED
      BY <2>2, <3>2, <3>3
  <2> QED
    BY <2>1, <2>3
<1> QED
  BY <1>3, PTL

\* The tables agree: the code of a rejection that is not 50 is decoded to its kind,
\* whether a split or an older engine gave it, and 50 is one of two.
LEMMA CodesAreNames ==
  ASSUME NEW e \in ExecErrors, NEW k,
         k = code[e] \/ (e \in LegacyErrors /\ k = legacy_code[e])
  PROVE  /\ k \in 1 .. 255
         /\ k # 50 => KnownKind(k) = KindOf(e)
         /\ k = 50 => e \in {"SlippageExceeded", "OpenInterestLimitExceeded"}
         /\ k = 50 /\ k = code[e] => e = "SlippageExceeded"
<1>1. ASSUME NEW d \in OrderAndConfigErrors
      PROVE  code[d] \in 1 .. 53 /\ (code[d] = 50 <=> d = "SlippageExceeded")
  BY DEF OrderAndConfigErrors, code
<1>2. ASSUME NEW d \in AccountAndMarketErrors \ {"InternalError"}
      PROVE  code[d] \in 1 .. 53 /\ code[d] # 50
  BY DEF AccountAndMarketErrors, code
<1>3. code["InternalError"] = 255
  BY DEF code
<1>4. ASSUME NEW d \in OrderAndConfigErrors
      PROVE  ErrorKindNames[code[d]] = KindOf(d)
  BY DEF OrderAndConfigErrors, code, ErrorKindNames, KindOf
<1>5. ASSUME NEW d \in AccountAndMarketErrors \ {"InternalError"}
      PROVE  ErrorKindNames[code[d]] = KindOf(d)
  BY DEF AccountAndMarketErrors, code, ErrorKindNames, KindOf
<1>6. Len(ErrorKindNames) = 53
  BY DEF ErrorKindNames
<1>7. legacy_code[e] = IF e = "OpenInterestLimitExceeded" THEN 50 ELSE code[e]
  BY DEF ExecErrors, OrderAndConfigErrors, AccountAndMarketErrors, legacy_code, code
<1>8. ASSUME NEW d \in ExecErrors
      PROVE  code[d] \in 1 .. 255 /\ KnownKind(code[d]) = KindOf(d)
  <2>1. CASE d = "InternalError"
    BY <1>3, <1>6, <2>1 DEF KnownKind, ERROR_KINDS, KindOf
  <2>2. CASE d # "InternalError"
    <3>1. code[d] \in 1 .. 53 /\ ErrorKindNames[code[d]] = KindOf(d)
      BY <1>1, <1>2, <1>4, <1>5, <2>2 DEF ExecErrors
    <3> QED
      BY <3>1, <1>6 DEF KnownKind, ERROR_KINDS
  <2> QED
    BY <2>1, <2>2
<1>9. code[e] = 50 => e = "SlippageExceeded"
  BY <1>1, <1>2, <1>3 DEF ExecErrors
<1> QED
  BY <1>7, <1>8, <1>9

\* What the engine was asked for, and what the gateway made of it.
RejectionIsRaised ==
  rejection # Absent =>
    /\ rejection.cause \in ExecErrors
    /\ rejection.log = Starts(Display(rejection.cause))
    /\ \/ rejection.code = code[rejection.cause]
       \/ /\ ~rejection.split
          /\ rejection.cause \in LegacyErrors
          /\ rejection.code = legacy_code[rejection.cause]

IsCompat(r, k) ==
  \/ r.body.form = "raw" /\ r.body.text = CompatText(k)
  \/ /\ r.body.form = "object"
     /\ r.body.object.code = Absent
     /\ r.body.object.status = "error"
     /\ r.body.object.error = CompatText(k)
     /\ r.body.object.log = Absent
     /\ ~r.body.object.txHash
     /\ ~r.body.object.tx_hash

IsStructured(r, k, log) ==
  /\ r.body.form = "object"
  /\ r.body.object.code = k
  /\ r.body.object.error \in {CompatText(k), Absent}
  /\ r.body.object.message = Absent
  /\ r.body.object.log \in {log, EmptyText, Absent}

AnswerTells ==
  Told =>
    /\ answer.http \in OkStatuses
    /\ \/ IsCompat(answer, rejection.code)
       \/ IsStructured(answer, rejection.code, rejection.log)

VerdictInv == RejectionIsRaised /\ AnswerTells

LEMMA VerdictInvariant == VerdictSpec => []VerdictInv
<1>1. VerdictInit => VerdictInv
  BY DEF VerdictInit, VerdictInv, RejectionIsRaised, AnswerTells, Told
<1>2. VerdictInv /\ [VerdictNext]_verdictVars => VerdictInv'
  <2> SUFFICES ASSUME VerdictInv, [VerdictNext]_verdictVars PROVE VerdictInv'
    OBVIOUS
  <2> USE DEF VerdictInv
  <2>1. CASE UNCHANGED <<rejection, answer>>
    BY <2>1 DEF RejectionIsRaised, AnswerTells, Told, IsCompat, IsStructured
  <2>2. ASSUME NEW node \in Nodes, NEW e \in ExecErrors, Raise(node, e)
        PROVE  VerdictInv'
    <3>1. answer' = Absent
      BY <2>2 DEF Raise
    <3>2. /\ rejection'.cause = e
          /\ rejection'.log = Starts(Display(e))
          /\ rejection'.split <=> node \in upgraded
          /\ rejection'.code = IF node \in upgraded THEN code[e] ELSE legacy_code[e]
      BY <2>2 DEF Raise
    <3>3. node \in upgraded \/ e \in LegacyErrors
      BY <2>2 DEF Raise
    <3> QED
      BY <3>1, <3>2, <3>3 DEF RejectionIsRaised, AnswerTells, Told
  <2>3. \A e : FromStateError(e) \in ExecErrors
    BY DEF FromStateError, ExecErrors, AccountAndMarketErrors
  <2>4. CASE AnswerRejection
    <3> DEFINE k == rejection.code
    <3>1. PICK body \in CompatAnswers(rejection)
                 \cup [form : {"object"}, object : StructuredAnswers(rejection)] :
            answer' = [http |-> 200, body |-> body]
      BY <2>4 DEF AnswerRejection
    <3>2. rejection' = rejection /\ answer'.http \in OkStatuses /\ answer'.body = body
      BY <2>4, <3>1 DEF AnswerRejection, OkStatuses
    <3>3. IsCompat(answer', k) \/ IsStructured(answer', k, rejection.log)
      BY <3>1, <3>2 DEF CompatAnswers, StructuredAnswers, IsCompat, IsStructured
    <3> QED
      BY <3>2, <3>3 DEF RejectionIsRaised, AnswerTells, IsCompat, IsStructured
  <2>5. CASE AnswerAnything \/ Post
    BY <2>5 DEF AnswerAnything, Post, RejectionIsRaised, AnswerTells, Told
  <2> QED
    BY <2>1, <2>2, <2>3, <2>4, <2>5
       DEF VerdictNext, verdictVars, Upgrade, RaiseExecError, RaiseStateError
<1> QED
  BY <1>1, <1>2, PTL DEF VerdictSpec

\* Both bindings read the engine's code, and name it with a text that starts like
\* the engine's log or like none of the canonical rejections.
LEMMA ToldVerdicts ==
  ASSUME VerdictInv, Told
  PROVE  /\ rejection.code \in 1 .. 255
         /\ TsVerdict(answer).code = rejection.code
         /\ PyVerdict(answer).code = rejection.code
         /\ {StartOf(TsLog(answer)), StartOf(PyMessage(answer))}
              \subseteq {Display(rejection.cause), "empty", "other", "nothing"}
<1> DEFINE k == rejection.code
           log == rejection.log
           o == answer.body.object
           Other == {Display(rejection.cause), "empty", "other", "nothing"}
<1>1. k \in 1 .. 255
  BY CodesAreNames DEF VerdictInv, RejectionIsRaised, Told
<1>2. k \notin {Absent, NotANumber, 0} /\ CompatText(k) # Absent
  BY <1>1, TextsArePresent, AbsentAssumption DEF NotANumber
<1>3. CompatText(k).lead = k /\ CompatText(k).starts = "other" /\ NonEmpty(CompatText(k))
  BY <1>2 DEF CompatText, NonEmpty, EmptyText, Starts
<1>4. Engine(k).code = k
  BY DEF Engine
<1>5. answer.http \in OkStatuses /\ (IsCompat(answer, k) \/ IsStructured(answer, k, log))
  BY DEF VerdictInv, AnswerTells
<1>6. CASE answer.body.form = "raw" /\ answer.body.text = CompatText(k)
  <2>1. TsVerdict(answer) = Engine(k) /\ PyVerdict(answer) = Engine(k)
    BY <1>2, <1>3, <1>5, <1>6
       DEF TsVerdict, PyVerdict, TsErrorText, LeadingCode, CodeOr1, NonzeroCodeOr1
  <2>2. TsLog(answer) = CompatText(k) /\ PyMessage(answer) = CompatText(k)
    BY <1>6 DEF TsLog, PyMessage, TsErrorText
  <2> QED
    BY <1>1, <1>2, <1>3, <1>4, <2>1, <2>2 DEF StartOf
<1>7. CASE answer.body.form = "object" /\ IsCompat(answer, k)
  <2>1. /\ o.code = Absent /\ o.status = "error" /\ o.error = CompatText(k)
        /\ ~o.txHash /\ ~o.tx_hash
    BY <1>7 DEF IsCompat
  <2>2. ~HasNumber(o)
    BY <2>1 DEF HasNumber
  <2>3. TsVerdict(answer) = Engine(k)
    BY <1>2, <1>3, <1>5, <1>7, <2>1, <2>2
       DEF TsVerdict, TsObject, TsErrorText, LeadingCode, CodeOr1
  <2>4. PyErrorText(o) = CompatText(k)
    BY <1>3, <2>1 DEF PyErrorText
  <2>5. PyVerdict(answer) = Engine(k)
    BY <1>2, <1>3, <1>5, <1>7, <2>1, <2>2, <2>4
       DEF PyVerdict, PyObject, LeadingCode, NonzeroCodeOr1
  <2>6. TsLog(answer) = CompatText(k) /\ PyMessage(answer) = CompatText(k)
    BY <1>2, <1>7, <2>1, <2>2, <2>4 DEF TsLog, PyMessage, TsErrorText
  <2> QED
    BY <1>1, <1>2, <1>3, <1>4, <2>3, <2>5, <2>6 DEF StartOf
<1>8. CASE IsStructured(answer, k, log)
  <2>1. /\ answer.body.form = "object" /\ o.code = k /\ o.message = Absent
        /\ o.error \in {CompatText(k), Absent} /\ o.log \in {log, EmptyText, Absent}
    BY <1>8 DEF IsStructured
  <2>2. HasNumber(o)
    BY <1>2, <2>1 DEF HasNumber
  <2>3. TsVerdict(answer) = Engine(k) /\ PyVerdict(answer) = Engine(k)
    BY <1>2, <1>5, <2>1, <2>2 DEF TsVerdict, PyVerdict, TsObject, PyObject, FromEngineCode
  <2>4. {TsLog(answer), PyMessage(answer)} \subseteq {log, EmptyText, CompatText(k), Absent}
    BY <2>1, <2>2 DEF TsLog, PyMessage
  <2>5. log.starts = Display(rejection.cause) /\ EmptyText.starts = "empty"
    BY DEF VerdictInv, RejectionIsRaised, Told, Starts, EmptyText
  <2>6. \A text \in {log, EmptyText, CompatText(k), Absent} : StartOf(text) \in Other
    BY <1>3, <2>5 DEF StartOf
  <2> QED
    BY <1>1, <1>4, <2>3, <2>4, <2>6
<1> QED
  BY <1>5, <1>6, <1>7, <1>8 DEF IsCompat

\* Neither binding gives a rejection another's name.
THEOREM RejectionsAreNotMisnamed == VerdictSpec => []NeverMisnamed
<1>1. VerdictInv => NeverMisnamed
  <2> SUFFICES ASSUME VerdictInv, Told
               PROVE  {TsName(answer), PyName(answer)}
                        \subseteq {KindOf(rejection.cause), "AmbiguousCode50"}
    BY DEF NeverMisnamed
  <2> DEFINE e == rejection.cause
  <2>1. /\ e \in ExecErrors
        /\ rejection.code = code[e] \/ (e \in LegacyErrors /\ rejection.code = legacy_code[e])
    BY DEF VerdictInv, RejectionIsRaised, Told
  <2>2. ASSUME NEW start \in {Display(e), "empty", "other", "nothing"}
        PROVE  ClassifyError(rejection.code, start) \in {KindOf(e), "AmbiguousCode50"}
    <3>1. CASE rejection.code = 50
      <4>1. e \in {"SlippageExceeded", "OpenInterestLimitExceeded"}
        BY <2>1, <3>1, CodesAreNames
      <4> QED
        BY <3>1, <4>1, <2>2 DEF ClassifyError, NameOf50, Display, KindOf
    <3>2. CASE rejection.code # 50
      BY <2>1, <3>2, CodesAreNames DEF ClassifyError
    <3> QED
      BY <3>1, <3>2
  <2> QED
    BY <2>2, ToldVerdicts DEF TsName, PyName
<1> QED
  BY <1>1, VerdictInvariant, PTL

\* With the engine's log, or from a node that tells the codes apart, both bindings
\* name the rejection.
THEOREM RejectionsAreNamed == VerdictSpec => []NamedWhenPossible
<1>1. VerdictInv => NamedWhenPossible
  <2> DEFINE e == rejection.cause
             o == answer.body.object
             logKept == answer.body.form = "object" /\ o.log = rejection.log
             split == rejection.split /\ e # "SlippageExceeded"
  <2> SUFFICES ASSUME VerdictInv, Told, logKept \/ split
               PROVE  {TsName(answer), PyName(answer)} = {KindOf(e)}
    BY DEF NamedWhenPossible
  <2>1. /\ e \in ExecErrors
        /\ rejection.log = Starts(Display(e))
        /\ rejection.code = code[e] \/ (e \in LegacyErrors /\ rejection.code = legacy_code[e])
        /\ rejection.split => rejection.code = code[e]
    BY DEF VerdictInv, RejectionIsRaised, Told
  <2>2. CASE rejection.code # 50
    <3>1. \A start : ClassifyError(rejection.code, start) = KindOf(e)
      BY <2>1, <2>2, CodesAreNames DEF ClassifyError
    <3> QED
      BY <3>1, ToldVerdicts DEF TsName, PyName
  <2>3. CASE rejection.code = 50
    <3>1. e \in {"SlippageExceeded", "OpenInterestLimitExceeded"}
      BY <2>1, <2>3, CodesAreNames
    <3>2. ~split
      BY <2>1, <2>3, CodesAreNames
    <3>3. logKept
      BY <3>2
    <3>4. /\ rejection.log # Absent /\ NonEmpty(rejection.log)
          /\ rejection.log.starts = Display(e)
      <4>1. Display(e) \in CanonicalTexts
        BY <3>1 DEF Display, CanonicalTexts
      <4>2. Starts(Display(e)) # Absent
        BY <4>1, TextsArePresent
      <4>3. Display(e) # "empty"
        BY <3>1 DEF Display
      <4> QED
        BY <2>1, <4>2, <4>3 DEF Starts, EmptyText, NonEmpty
    <3>5. answer.http \in OkStatuses /\ IsStructured(answer, rejection.code, rejection.log)
      BY <3>3, <3>4 DEF VerdictInv, AnswerTells, IsCompat
    <3>6. HasNumber(o) /\ o.message = Absent
      BY <3>5, ToldVerdicts, AbsentAssumption DEF IsStructured, HasNumber, NotANumber
    <3>7. TsLog(answer) = rejection.log /\ PyMessage(answer) = rejection.log
      BY <3>3, <3>4, <3>6 DEF TsLog, PyMessage, NonEmpty
    <3>8. ClassifyError(50, Display(e)) = KindOf(e)
      BY <3>1 DEF ClassifyError, NameOf50, Display, KindOf
    <3> QED
      BY <2>3, <3>4, <3>7, <3>8, ToldVerdicts DEF TsName, PyName, StartOf
  <2> QED
    BY <2>2, <2>3
<1> QED
  BY <1>1, VerdictInvariant, PTL
=============================================================================
