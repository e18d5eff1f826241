---------------------------- MODULE GatewayReply ----------------------------
(***************************************************************************)
(* How the two bindings read the gateway's answer to POST /exchange:       *)
(* submitViaGateway in client.ts and submit_action in client.py.  A reply  *)
(* is an HTTP status and a body.  The texts in it matter for what they     *)
(* start with: the engine code of a "<code>: <message>" text, or the words *)
(* of one of the engine's canonical rejections.                            *)
(***************************************************************************)
EXTENDS Integers

CONSTANTS
  EngineCodes,   \* the codes the engine can answer with, 0 for success
  Absent         \* a field the body does not have

ASSUME EngineCodesAssumption == {0, 1} \subseteq EngineCodes /\ EngineCodes \subseteq Nat

\* Statuses with a branch of their own in a binding, and one of each other class.
OkStatuses == {200}
Statuses == OkStatuses \cup {400, 401, 403, 404, 413, 422, 429, 500, 503}

\* A text: the code it leads with, and what it starts as if with none.
CanonicalTexts == {"open interest limit exceeded", "atomic basket aggregate slippage"}
Starts(words) == [lead |-> Absent, starts |-> words]
EmptyText == Starts("empty")
OtherText == Starts("other")
CompatText(engineCode) == [lead |-> engineCode, starts |-> "other"]

Texts ==
  {Starts(words) : words \in CanonicalTexts} \cup {EmptyText, OtherText}
    \cup {CompatText(c) : c \in EngineCodes}

\* Absent is no number and no text.
ASSUME AbsentAssumption ==
  /\ Absent \notin Int
  /\ Absent \notin [lead : Int \cup {Absent}, starts : CanonicalTexts \cup {"empty", "other"}]

NonEmpty(text) == text \notin {Absent, EmptyText}

NotANumber == -1

\* A JSON object; `code` may also be there without being a number.
Objects ==
  [code : EngineCodes \cup {Absent, NotANumber}, status : {"ok", "error", "none"},
   error : Texts \cup {Absent}, message : Texts \cup {Absent}, log : Texts \cup {Absent},
   txHash : BOOLEAN, tx_hash : BOOLEAN, height : BOOLEAN]

\* The body: no JSON, a JSON string, a JSON object.  Of a failure's object the
\* texts are left out.
TextBodies == [form : {"raw", "string"}, text : Texts]
Bodies == TextBodies \cup [form : {"object"}, object : Objects]
FailureBodies ==
  TextBodies
    \cup [form : {"object"},
          object : [code : EngineCodes \cup {Absent, NotANumber},
                    status : {"ok", "error", "none"},
                    error : {Absent}, message : {Absent}, log : {Absent},
                    txHash : BOOLEAN, tx_hash : BOOLEAN, height : BOOLEAN]]

Replies ==
  [http : OkStatuses, body : Bodies]
    \cup [http : Statuses \ OkStatuses, body : FailureBodies]

-----------------------------------------------------------------------------
\* Results.  `code` is the engine's, Absent when no engine spoke; `final` says
\* that the TypeScript client does not poll for the transaction.

Ok(final) == [outcome |-> "ok", code |-> 0, final |-> final]
Engine(code) == [outcome |-> "engine", code |-> code, final |-> TRUE]
Transport == [outcome |-> "transport", code |-> Absent, final |-> TRUE]
Timeout == [outcome |-> "timeout", code |-> Absent, final |-> FALSE]

\* txFromEngineCode, with isFinalResult of what it returns.
FromEngineCode(code, height) == IF code = 0 THEN Ok(height) ELSE Engine(code)

\* parseLeadingErrorCode, _leading_error_code.
LeadingCode(text) == text.lead

CodeOr1(code) == IF code = Absent THEN 1 ELSE code
NonzeroCodeOr1(code) == IF code \in {Absent, 0} THEN 1 ELSE code

-----------------------------------------------------------------------------

\* The text TypeScript's last branch looks for a code in: `json?.error ?? raw`.
\* The raw text of a JSON string starts with its quote, that of an object with
\* its brace: neither leads with a code.
TsErrorText(body) ==
  IF body.form = "raw" THEN body.text
  ELSE IF body.form = "object" /\ body.object.error # Absent THEN body.object.error
  ELSE OtherText

HasNumber(object) == object.code \notin {Absent, NotANumber}

TsObjectHashIgnored(body) ==
  LET o == body.object IN
    IF HasNumber(o) THEN FromEngineCode(o.code, o.height)
    ELSE IF o.status = "ok" THEN Ok(FALSE)
    ELSE Engine(CodeOr1(LeadingCode(TsErrorText(body))))

TsObjectOkFirst(body) ==
  LET o == body.object IN
    IF o.status = "ok" THEN Ok(FALSE)
    ELSE IF HasNumber(o) THEN FromEngineCode(o.code, o.height)
    ELSE IF o.txHash THEN Timeout
    ELSE Engine(CodeOr1(LeadingCode(TsErrorText(body))))

\* The branches of submitViaGateway on a JSON object.
TsObject(body) ==
  LET o == body.object IN
    IF HasNumber(o) THEN FromEngineCode(o.code, o.height)
    ELSE IF o.status = "ok" THEN Ok(FALSE)
    ELSE IF o.txHash THEN Timeout
    ELSE Engine(CodeOr1(LeadingCode(TsErrorText(body))))

\* submitViaGateway: what ExchangeClient makes of a reply.
TsVerdict(reply) ==
  IF reply.http \notin OkStatuses THEN Transport
  ELSE IF reply.body.form = "object" THEN TsObject(reply.body)
  ELSE Engine(CodeOr1(LeadingCode(TsErrorText(reply.body))))

\* The log of an engine verdict, from which its error is named:
\* `json.log ?? json.error` with a code, the error text without one.
TsLogErrorFirst(reply) == TsErrorText(reply.body)

TsLog(reply) ==
  IF reply.body.form = "object" /\ HasNumber(reply.body.object)
    THEN IF reply.body.object.log # Absent THEN reply.body.object.log
         ELSE reply.body.object.error
    ELSE TsErrorText(reply.body)

-----------------------------------------------------------------------------

\* `str(data.get("error") or data.get("message") or "")`
PyErrorText(object) ==
  IF NonEmpty(object.error) THEN object.error
  ELSE IF object.message # Absent THEN object.message
  ELSE EmptyText

PyObjectNoCodeIsEngine(object) ==
  IF HasNumber(object)
    THEN IF object.code # 0 THEN Engine(object.code) ELSE Ok(object.height)
  ELSE IF object.status = "ok" THEN Ok(FALSE)
  ELSE IF NonEmpty(PyErrorText(object)) \/ object.status = "error"
    THEN Engine(NonzeroCodeOr1(LeadingCode(PyErrorText(object))))
  ELSE IF object.txHash \/ object.tx_hash THEN Timeout
  ELSE Transport

PyObjectDefaultsToZero(object) ==
  IF object.code \in {0, Absent} THEN Ok(object.height)
  ELSE IF HasNumber(object) THEN Engine(object.code)
  ELSE IF object.status = "ok" THEN Ok(FALSE)
  ELSE IF object.txHash \/ object.tx_hash THEN Timeout
  ELSE Engine(NonzeroCodeOr1(LeadingCode(PyErrorText(object))))

\* The four shapes of submit_action; an exception is named by its outcome.
PyObject(object) ==
  IF HasNumber(object)
    THEN IF object.code # 0 THEN Engine(object.code) ELSE Ok(object.height)
  ELSE IF object.status = "ok" THEN Ok(FALSE)
  ELSE IF object.txHash \/ object.tx_hash THEN Timeout
  ELSE IF NonEmpty(PyErrorText(object)) \/ object.status = "error"
    THEN Engine(NonzeroCodeOr1(LeadingCode(PyErrorText(object))))
  ELSE Transport

\* _check_response and submit_action: what the Python client makes of a reply.
PyVerdict(reply) ==
  IF reply.http \notin OkStatuses THEN Transport
  ELSE IF reply.body.form = "object" THEN PyObject(reply.body.object)
  ELSE Engine(NonzeroCodeOr1(LeadingCode(reply.body.text)))

\* The message EngineError is raised with: `message or log or error` with a
\* code, the error text without one.
PyMessage(reply) ==
  IF reply.body.form # "object" THEN reply.body.text
  ELSE LET o == reply.body.object IN
    IF HasNumber(o)
      THEN IF NonEmpty(o.message) THEN o.message
           ELSE IF NonEmpty(o.log) THEN o.log ELSE o.error
      ELSE PyErrorText(o)

-----------------------------------------------------------------------------
\* The replies the gateway is documented to give (README.md "Transaction
\* results"): the four shapes of the table, and the compatibility string of a
\* gateway that answers with nothing else.

Structured(object) == HasNumber(object) /\ (object.height \/ object.code # 0)
Pending(object) ==
  object.code = Absent /\ object.txHash /\ object.status = "error"
LegacyAck(object) == object.code = Absent /\ object.status = "ok" /\ ~object.txHash
LegacyError(object) ==
  /\ object.code = Absent /\ object.status = "error"
  /\ ~object.txHash /\ ~object.tx_hash
  /\ NonEmpty(object.error) /\ object.error.lead # 0

DocumentedBody(body) ==
  \/ /\ body.form = "object"
     /\ \/ Structured(body.object)
        \/ Pending(body.object)
        \/ LegacyAck(body.object)
        \/ LegacyError(body.object)
  \/ body.form = "raw" /\ body.text.lead # 0

Documented(reply) == reply.http \in OkStatuses => DocumentedBody(reply.body)
=============================================================================
