---------------------------- MODULE PayloadCodec ----------------------------
(***************************************************************************)
(* How one struct travels: a caller's dict becomes the typed struct, the   *)
(* struct becomes a MessagePack array in field order, and the array        *)
(* becomes the struct of whatever release reads it.  A release is the      *)
(* number n of leading fields its build knows: fields are only appended.   *)
(* A value is <<form, content>>; the form is what decoding checks.         *)
(***************************************************************************)
EXTENDS ActionLayouts

(* Forms, by the Rust type of the field *)

Address ==
    {"owner", "signer", "approver", "proposer", "rejecter", "proof_owner",
     "primary_oracle_signer"}
Pubkey ==
    {"solana_destination", "agent_pubkey", "deployment_id",
     "authorization_digest", "destination_owner", "destination_token_acct",
     "finalized_blockhash", "content_hash"}
SolanaSignature == {"solana_tx_sig", "solana_tx_signature"}
hint_capped_bytes == {"authorization", "signer_bitmap"}
hint_capped_byte_seqs == {"signatures"}
Flag == {"enabled", "post_only", "reduce_only", "net_delta_margin",
         "partial_liquidation_enabled"}
Text == {"ticker", "reason", "question", "description", "rules"}
OrderEnums == {"side", "time_in_force"}
MarketEnums == {"kind", "mark_source_mode"}
EventEnums == {"outcome", "oracle_source"}
RecordEnums == {"status"}
Nested == {"stop_loss", "take_profit", "receipt", "proof", "legs", "fee_tiers",
           "new_members", "action"}

Form(f) ==
    CASE f \in Address -> "address"
      [] f \in Pubkey -> "pubkey"
      [] f \in SolanaSignature \cup hint_capped_bytes -> "bytes"
      [] f \in hint_capped_byte_seqs -> "byte strings"
      [] f \in Flag -> "bool"
      [] f \in Text -> "string"
      \* An enum variant goes by its name and a nested struct by its own
      \* layout: neither reads as another.
      [] f \in OrderEnums \cup MarketEnums \cup EventEnums \cup RecordEnums
                 \cup Nested -> f
      [] OTHER -> "integer"

Nil == <<"nil", "nil">>

\* The fixed-length newtypes check the length; the other byte fields take any
\* sequence of u8, an address or a key among them.
ByteForms == {"address", "pubkey", "bytes"}
Fits(L, f, v) ==
    \/ v[1] = Form(f)
    \/ Form(f) = "bytes" /\ v[1] \in ByteForms
    \/ f \in L.option /\ v = Nil

\* T::default(): None, zero, the #[default] variant, the empty list.
Default(L, f) == IF f \in L.option THEN Nil ELSE <<Form(f), "default">>

---------------------------------------------------------------------------
(* Structs *)

Names(L, n) == {L.fields[i] : i \in 1..n}
IndexOf(L, f) == CHOOSE i \in DOMAIN L.fields : L.fields[i] = f

\* A dict, in which serde lets a None or a default be left out, and ignores a
\* key the struct does not have.
CanDeserialize(L, n, dict) ==
    \A f \in Names(L, n) :
        IF f \in DOMAIN dict THEN Fits(L, f, dict[f])
                             ELSE f \in L.option \cup L.default

Deserialize(L, n, dict) ==
    [f \in Names(L, n) |-> IF f \in DOMAIN dict THEN dict[f] ELSE Default(L, f)]

\* The array: every field in its place, the defaults included.
EncodePayload(L, n, msg) == [i \in 1..n |-> msg[L.fields[i]]]

CanDecodeIgnoringTheRest(L, n, array) ==
    /\ \A i \in 1..n : i <= Len(array) => Fits(L, L.fields[i], array[i])
    /\ \A i \in (Len(array) + 1)..n : L.fields[i] \in L.default

\* An array longer than the struct is a length mismatch; where it ends early
\* only #[serde(default)] helps, and being an Option does not.
CanDecode(L, n, array) ==
    /\ Len(array) <= n
    /\ \A i \in 1..Len(array) : Fits(L, L.fields[i], array[i])
    /\ \A i \in (Len(array) + 1)..n : L.fields[i] \in L.default

Decode(L, n, array) ==
    [f \in Names(L, n) |-> LET i == IndexOf(L, f)
                           IN  IF i <= Len(array) THEN array[i] ELSE Default(L, f)]

---------------------------------------------------------------------------
(* Envelopes *)

\* The discriminant of each payload struct.
action_type ==
    [PlaceOrder |-> 1, CancelOrder |-> 2, OracleUpdate |-> 3, MarketOrder |-> 4,
     Deposit |-> 5, Withdraw |-> 6, CreateMarket |-> 7, WithdrawRequest |-> 8,
     ConfirmDeposit |-> 9, ConfirmWithdrawal |-> 10, FailWithdrawal |-> 11,
     ApproveAgent |-> 12, RevokeAgent |-> 13, CreateImpactMarket |-> 14,
     ResolveEvent |-> 15, UpdateMarketFees |-> 16, OracleUpdateComposite |-> 20,
     SetUserMarketLeverage |-> 22, ClosePosition |-> 23,
     CancelClientOrder |-> 24, CancelAllOrders |-> 25,
     CancelReplaceOrder |-> 26, AmendOrder |-> 27, AtomicBasketOrder |-> 28,
     ProposeAdminAction |-> 30, ApproveAdminAction |-> 31,
     RejectAdminAction |-> 32, EmergencyAdminAction |-> 33,
     ConfirmWithdrawalReceipt |-> 34, FailWithdrawalReceipt |-> 35,
     AuthorizeWithdrawal |-> 36, SetPositionTriggers |-> 37,
     CancelPositionTriggers |-> 38]

ENVELOPE_VERSION == 2
SUPPORTED_ENVELOPE_VERSIONS == {ENVELOPE_VERSION}

WireTxEnvelope(code, seq, payload, pubkey, signature) ==
    [version |-> ENVELOPE_VERSION, action_type |-> code, seq |-> seq,
     payload |-> payload, pubkey |-> pubkey, signature |-> signature]

signing_message_v2(chain, code, seq, payload) ==
    <<"ProofExchange-v2", code, code, seq, payload>>

\* The chain is bound by the message and is not in the envelope.
signing_message(chain, code, seq, payload) ==
    <<"ProofExchange-v3", chain, code, seq, payload>>

\* Ed25519 by what it promises: a signature fits one key and one message.
try_sign(key, msg) == [key |-> key, msg |-> msg]

verify_signature_v2(chain, env) ==
    env.signature = try_sign(env.pubkey,
        signing_message("no chain", env.action_type, env.seq, env.payload))

verify_signature(chain, env) ==
    env.signature = try_sign(env.pubkey,
        signing_message(chain, env.action_type, env.seq, env.payload))

sign_and_encode_payload(chain, code, payload, seq, key) ==
    WireTxEnvelope(code, seq, payload, key,
                   try_sign(key, signing_message(chain, code, seq, payload)))
=============================================================================
