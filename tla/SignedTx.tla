------------------------------ MODULE SignedTx ------------------------------
(***************************************************************************)
(* One struct on its way from the caller of an SDK to the engines of some  *)
(* deployments, while every party upgrades at its own pace: encode, sign   *)
(* (with a key, with a token's handle, or in pieces), perhaps be decoded   *)
(* and encoded again by a gateway, be decoded and verified.  A struct that *)
(* is not a payload is a record: one build stores it, another reads it.    *)
(* The engines and the gateway are outside this repository; they run this  *)
(* crate's decode_tx, encode_signed_tx and verify_signature.               *)
(***************************************************************************)
EXTENDS PayloadCodec

CONSTANTS Layout,        \* kind of struct -> its layout
          Released,      \* kind -> the numbers of fields that builds have had
          Incompatible,  \* <<kind, fields>> that today's build refuses
          Dicts,         \* kind -> what a caller may ask for
          Keys, Chains, UNBOUND_CHAIN_ID,
          Deployments, ChainOf,
          Gateway

\* Not there yet: no array, no envelope, no outcome.
None == <<>>

Kinds == DOMAIN Layout
Actions == Kinds \cap DOMAIN action_type
Parties == Deployments \cup {Gateway}
Full(k) == Len(Layout[k].fields)

ASSUME LayoutAssumption ==
    \A k \in Kinds :
        /\ Layout[k].fields \in Seq(STRING)
        /\ \A i, j \in DOMAIN Layout[k].fields :
               Layout[k].fields[i] = Layout[k].fields[j] => i = j
        /\ Released[k] \subseteq 1..Full(k)
        /\ Full(k) \in Released[k]

ASSUME CodeAssumption ==
    \A k, l \in Actions : action_type[k] = action_type[l] => k = l

ASSUME DeploymentAssumption ==
    /\ UNBOUND_CHAIN_ID \in Chains
    /\ ChainOf \in [Deployments -> Chains]
    /\ Gateway \notin Deployments

VARIABLES kind,     \* what the caller asks for
          sdk,      \* how many of its fields the caller's build knows
          shape,    \* ... and the builds of the gateway and the engines
          asked,    \* the dict
          payload,  \* its encoding
          env,      \* the envelope in flight
          result    \* deployment -> what became of it there
vars == <<kind, sdk, shape, asked, payload, env, result>>

Layout_ == Layout[kind]

Init ==
    /\ kind \in Kinds
    /\ sdk \in Released[kind]
    /\ shape \in [Parties -> Released[kind]]
    /\ asked \in Dicts[kind]
    /\ payload = None
    /\ env = None
    /\ result = [d \in Deployments |-> None]

\* encode_payload_dyn; a dict that does not deserialize is an error.
Encode ==
    /\ payload = None
    /\ CanDeserialize(Layout_, sdk, asked)
    /\ payload' = EncodePayload(Layout_, sdk, Deserialize(Layout_, sdk, asked))
    /\ UNCHANGED <<kind, sdk, shape, asked, env, result>>

ToSign == kind \in Actions /\ payload # None /\ env = None

SignFor(chain, key) ==
    /\ ToSign
    /\ env' = sign_and_encode_payload(chain, action_type[kind], payload, 1, key)
    /\ UNCHANGED <<kind, sdk, shape, asked, payload, result>>

SignAndEncode(chain, key) == chain # UNBOUND_CHAIN_ID /\ SignFor(chain, key)

\* sign_and_encode: the crate's shorthand without a chain.
SignUnbound(key) == SignFor(UNBOUND_CHAIN_ID, key)

\* A PKCS#11 token: the first private and the first public key with the
\* label, each found by itself.
SignWithHandle(chain, priv, pub) ==
    /\ ToSign
    /\ env' = WireTxEnvelope(action_type[kind], 1, payload, pub,
                  try_sign(priv, signing_message(chain, action_type[kind], 1, payload)))
    /\ UNCHANGED <<kind, sdk, shape, asked, payload, result>>

\* Signed elsewhere, put together with encode_signed_tx: the parts may not be
\* the ones that were signed.
Assemble(chain, key, code, seq) ==
    /\ ToSign
    /\ env' = WireTxEnvelope(code, seq, payload, key,
                  try_sign(key, signing_message(chain, action_type[kind], 1, payload)))
    /\ UNCHANGED <<kind, sdk, shape, asked, payload, result>>

\* The kind an envelope claims, as a build with n fields of it decodes it.
Claimed(e) == CHOOSE k \in Actions : action_type[k] = e.action_type
Decodes(n, e) ==
    /\ e.version \in SUPPORTED_ENVELOPE_VERSIONS
    /\ CanDecode(Layout[Claimed(e)], n, e.payload)
Decoded(n, e) == Decode(Layout[Claimed(e)], n, e.payload)

\* A gateway that decodes the action and encodes it again, with the caller's
\* key and signature.
Relay ==
    LET n == shape[Gateway]
    IN  /\ env # None
        /\ env.action_type = action_type[kind]
        /\ Decodes(n, env)
        /\ env' = WireTxEnvelope(env.action_type, env.seq,
                      EncodePayload(Layout[Claimed(env)], n, Decoded(n, env)),
                      env.pubkey, env.signature)
        /\ UNCHANGED <<kind, sdk, shape, asked, payload, result>>

Outcome(verdict, n, k, msg) == [verdict |-> verdict, shape |-> n, kind |-> k, msg |-> msg]

\* decode_tx and verify_signature.  What did not decode may be sent again.
Deliver(d) ==
    LET n == shape[d]
        verdict == IF ~Decodes(n, env) THEN "decode_error"
                   ELSE IF ~verify_signature(ChainOf[d], env) THEN "invalid_signature"
                   ELSE "executed"
    IN  /\ env # None
        /\ result[d] # None => result[d].verdict = "decode_error"
        /\ result' = [result EXCEPT ![d] =
               Outcome(verdict, n, Claimed(env),
                       IF verdict = "executed" THEN Decoded(n, env) ELSE None)]
        /\ UNCHANGED <<kind, sdk, shape, asked, payload, env>>

\* A record that one build stored, read by another.
ReadRecord(d) ==
    LET n == shape[d]
        ok == CanDecode(Layout_, n, payload)
    IN  /\ kind \notin Actions /\ payload # None
        /\ result[d] # None => result[d].verdict = "decode_error"
        /\ result' = [result EXCEPT ![d] =
               Outcome(IF ok THEN "executed" ELSE "decode_error", n, kind,
                       IF ok THEN Decode(Layout_, n, payload) ELSE None)]
        /\ UNCHANGED <<kind, sdk, shape, asked, payload, env>>

Upgrade(p) ==
    /\ shape[p] < Full(kind)
    /\ shape' = [shape EXCEPT ![p] = Full(kind)]
    /\ UNCHANGED <<kind, sdk, asked, payload, env, result>>

\* Payloads of the same layout are the ones that can be mistaken for another.
Twins == {k \in Actions : Layout[k].fields = Layout_.fields}

Next ==
    \/ Encode
    \/ \E chain \in Chains, key \in Keys :
           \/ SignAndEncode(chain, key)
           \/ \E pub \in Keys : SignWithHandle(chain, key, pub)
           \/ \E k \in Twins, seq \in 1..2 : Assemble(chain, key, action_type[k], seq)
    \/ \E key \in Keys : SignUnbound(key)
    \/ Relay
    \/ \E d \in Deployments : Deliver(d) \/ ReadRecord(d)
    \/ \E p \in Parties : Upgrade(p)

Spec == Init /\ [][Next]_vars

---------------------------------------------------------------------------
(* Properties *)

\* What a field should be wherever the struct is read: what the caller said,
\* if the caller's build knew the field, and the default if not.
Meant(f) ==
    IF f \in DOMAIN asked /\ f \in Names(Layout_, sdk) THEN asked[f]
                                                        ELSE Default(Layout_, f)

Executed(d) == result[d] # None /\ result[d].verdict = "executed"

\* An engine, of whatever release, that executes a transaction (or reads a
\* record) executes the action that was asked for, with every field that was
\* sent and each of them as it was meant: through encoding, a gateway, an
\* upgrade between two tries, or an envelope put together from parts.
ExecutedAsAsked ==
    \A d \in Deployments : Executed(d) =>
        /\ result[d].kind = kind
        /\ Names(Layout_, sdk) \subseteq DOMAIN result[d].msg
        /\ \A f \in DOMAIN result[d].msg : result[d].msg[f] = Meant(f)

\* A transaction is executed by deployments of one chain id at most: a
\* signature for a test network is no good on the main one (crypto.rs).
OneNetwork ==
    \A d, e \in Deployments :
        kind \in Actions /\ Executed(d) /\ Executed(e) => ChainOf[d] = ChainOf[e]

\* What any release wrote, today's build reads, on every way there, except for the
\* lengths known to be refused (create_market_legacy_8field_payload_now_rejected);
\* and those it does refuse, rather than read something else into them.
ReleasedShapesStayReadable ==
    \A d \in Deployments :
        result[d] # None /\ result[d].shape = Full(kind)
            => (result[d].verdict = "decode_error" <=> <<kind, sdk>> \in Incompatible)

\* An envelope that decodes and still fails verification was signed for
\* another chain, put together from parts that were not signed, signed by a
\* token with two keys of one label, or encoded again by a gateway of another
\* release: the parts are in the envelope to see.
RejectionsAreExplained ==
    \A d \in Deployments :
        result[d] # None /\ result[d].verdict = "invalid_signature"
            => LET signed == env.signature.msg
               IN  \/ signed[2] # ChainOf[d]
                   \/ signed[3] # env.action_type \/ signed[4] # env.seq
                   \/ env.signature.key # env.pubkey
                   \/ Len(env.payload) # sdk

\* A gateway of another release may break the signature, and does not change
\* what the transaction says.
RelayKeepsMeaning ==
    [][env # None /\ env' # env /\ Decodes(Full(kind), env)
           => Decodes(Full(kind), env') /\ Decoded(Full(kind), env') = Decoded(Full(kind), env)]_vars
=============================================================================
