--------------------------- MODULE GatewayVerdict ---------------------------
(***************************************************************************)
(* Submissions one after another, each answered by the gateway with some   *)
(* reply: what do the two bindings make of the same answer?  Some answers  *)
(* come from an engine that has rejected the transaction, on one of        *)
(* several nodes that are upgraded one by one; the others are whatever     *)
(* stands in front of the gateway cares to send.                           *)
(***************************************************************************)
EXTENDS GatewayReply, ErrorCodes

CONSTANT Nodes   \* the nodes an engine runs on

VARIABLES
  upgraded,   \* the nodes that tell open interest and slippage apart
  rejection,  \* the engine's last rejection, Absent when no engine spoke:
              \* what it was for, its code and log, and whether from an upgraded node
  answer      \* the gateway's reply to the last POST, Absent until it comes

verdictVars == <<upgraded, rejection, answer>>

VerdictInit ==
  /\ upgraded = {}
  /\ rejection = Absent
  /\ answer = Absent

-----------------------------------------------------------------------------
\* Nodes, engine and gateway, as the comments of types.rs, errors.ts and README.md
\* "Transaction results" tell of them.

Upgrade(node) ==
  /\ node \notin upgraded
  /\ upgraded' = upgraded \cup {node}
  /\ UNCHANGED <<rejection, answer>>

\* The engine of a node rejects the transaction with an ExecError.
Raise(node, e) ==
  /\ rejection = Absent /\ answer = Absent
  /\ node \in upgraded \/ e \in LegacyErrors
  /\ rejection' = [cause |-> e, split |-> node \in upgraded, log |-> Starts(Display(e)),
                   code |-> IF node \in upgraded THEN code[e] ELSE legacy_code[e]]
  /\ UNCHANGED <<upgraded, answer>>

RaiseExecError(node) == \E e \in ExecErrors : Raise(node, e)

\* The store of a node fails under the transaction.
RaiseStateError(node) == \E e \in StateErrors : Raise(node, FromStateError(e))

\* A gateway that answers with the code, the log verbatim or lost on the way,
\* and the compatibility text; in a block or from CheckTx.
StructuredAnswers(r) ==
  [code : {r.code}, status : {"error"}, error : {CompatText(r.code), Absent},
   message : {Absent}, log : {r.log, EmptyText, Absent},
   txHash : {TRUE}, tx_hash : {FALSE}, height : BOOLEAN]

\* An older gateway, with the compatibility text only.
CompatAnswers(r) ==
  [form : {"raw"}, text : {CompatText(r.code)}]
    \cup [form : {"object"},
          object : [code : {Absent}, status : {"error"}, error : {CompatText(r.code)},
                    message : {Absent}, log : {Absent},
                    txHash : {FALSE}, tx_hash : {FALSE}, height : {FALSE}]]

\* The gateway tells of the rejection.
AnswerRejection ==
  /\ rejection # Absent /\ answer = Absent
  /\ \E body \in CompatAnswers(rejection)
             \cup [form : {"object"}, object : StructuredAnswers(rejection)] :
       answer' = [http |-> 200, body |-> body]
  /\ UNCHANGED <<upgraded, rejection>>

\* Any other answer: the gateway, or what stands in front of it.
AnswerAnything ==
  /\ rejection = Absent /\ answer = Absent
  /\ answer' \in Replies
  /\ UNCHANGED <<upgraded, rejection>>

\* The client has read the reply and submits something else.
Post ==
  /\ answer # Absent
  /\ answer' = Absent
  /\ rejection' = Absent
  /\ UNCHANGED upgraded

VerdictNext ==
  \/ \E node \in Nodes : Upgrade(node) \/ RaiseExecError(node) \/ RaiseStateError(node)
  \/ AnswerRejection \/ AnswerAnything \/ Post

VerdictSpec == VerdictInit /\ [][VerdictNext]_verdictVars

-----------------------------------------------------------------------------

Answered == answer # Absent
AnsweredOk == Answered /\ answer.http \in OkStatuses
AnsweredObject == AnsweredOk /\ answer.body.form = "object"

\* txEngineError, EngineError: the names the bindings give an engine verdict.
StartOf(text) == IF text = Absent THEN "nothing" ELSE text.starts
TsName(r) == ClassifyError(TsVerdict(r).code, StartOf(TsLog(r)))
PyName(r) == ClassifyError(PyVerdict(r).code, StartOf(PyMessage(r)))

\* On every reply the README's table documents, and on every HTTP failure, the
\* two bindings come to the same verdict (client.py:469-473).
BindingsAgreeWhereDocumented ==
  (Answered /\ Documented(answer)) => TsVerdict(answer) = PyVerdict(answer)

\* A transaction the gateway has broadcast and not seen executed is pending for
\* both bindings, whatever error text comes with its hash: an order about to
\* fill is not announced as rejected (client.ts:702-708, client.py:487-496).
NoPhantomRejection ==
  (AnsweredObject /\ answer.body.object.txHash /\ ~HasNumber(answer.body.object)
     /\ answer.body.object.status # "ok")
    => /\ TsVerdict(answer).outcome = "timeout"
       /\ ~TsVerdict(answer).final
       /\ PyVerdict(answer).outcome = "timeout"

\* A missing code is never read as success: only code 0 or a legacy "ok" is
\* (client.py:470-471).
SuccessNeedsAnAck ==
  Answered =>
    (("ok" \in {TsVerdict(answer).outcome, PyVerdict(answer).outcome})
       => AnsweredObject /\ (answer.body.object.code = 0 \/ answer.body.object.status = "ok"))

Told == rejection # Absent /\ answer # Absent

\* Whatever node rejected the transaction, however far the upgrade had come and
\* whatever the gateway kept of the log, neither binding gives the rejection
\* another's name; at worst it says that it cannot tell (errors.ts:81-89).
NeverMisnamed ==
  Told =>
    {TsName(answer), PyName(answer)} \subseteq {KindOf(rejection.cause), "AmbiguousCode50"}

\* With the engine's log in the answer, or from an upgraded node for anything but
\* slippage, both bindings name the rejection exactly (errors.ts:331-339,
\* errors.py:24-29): nobody is left with "cannot tell" who need not be.
NamedWhenPossible ==
  LET logKept == answer.body.form = "object" /\ answer.body.object.log = rejection.log
      split == rejection.split /\ rejection.cause # "SlippageExceeded"
  IN (Told /\ (logKept \/ split)) => {TsName(answer), PyName(answer)} = {KindOf(rejection.cause)}
=============================================================================
