--------------------------- MODULE ActionLayouts ---------------------------
(***************************************************************************)
(* The structs that go over the wire or into the chain's state, as data:   *)
(* the order of a struct's fields is its MessagePack layout (types.rs,     *)
(* governance.rs).  A layout names the fields that are Option<T> and those *)
(* that carry #[serde(default)]; the two behave differently when a field   *)
(* is missing (PayloadCodec).                                              *)
(***************************************************************************)
EXTENDS Naturals, Sequences

Struct(fields, option, default) ==
    [fields |-> fields, option |-> option, default |-> default]

\* A struct all of whose fields are mandatory.
Plain(fields) == Struct(fields, {}, {})

\* The three order flags that were appended after PlaceOrder was released.
OrderFlags == <<"post_only", "reduce_only", "time_in_force">>
OrderFlagSet == {"post_only", "reduce_only", "time_in_force"}

---------------------------------------------------------------------------
(* Trading *)

PlaceOrder ==
    Struct(<<"market", "owner", "side", "price", "quantity", "client_order_id">>
             \o OrderFlags,
           {"client_order_id"}, OrderFlagSet)

MarketOrder ==
    Struct(<<"market", "owner", "side", "quantity", "client_order_id">>,
           {"client_order_id"}, {})

CancelOrder == Plain(<<"order_id", "owner">>)
CancelClientOrder == Plain(<<"owner", "client_order_id">>)
CancelAllOrders == Struct(<<"owner", "market">>, {"market"}, {"market"})

\* The two cancel targets stand in the middle and still carry a default.
CancelReplaceOrder ==
    Struct(<<"owner", "cancel_order_id", "cancel_client_order_id", "market",
             "side", "price", "quantity", "client_order_id">> \o OrderFlags,
           {"cancel_order_id", "cancel_client_order_id", "client_order_id"},
           {"cancel_order_id", "cancel_client_order_id"} \cup OrderFlagSet)

AmendOrder ==
    Struct(<<"owner", "order_id", "new_price", "new_quantity">>,
           {"new_price", "new_quantity"}, {"new_price", "new_quantity"})

AtomicBasketLeg ==
    Struct(<<"market", "side", "price", "quantity", "client_order_id",
             "reduce_only">>, {"client_order_id"}, {"reduce_only"})

AtomicBasketOrder ==
    Struct(<<"owner", "legs", "max_slippage_bps">>, {}, {"max_slippage_bps"})


ClosePositionWithABareOption ==
    Struct(<<"market", "owner", "client_order_id">>, {"client_order_id"}, {})

ClosePosition == Plain(<<"market", "owner">>)
SetUserMarketLeverage == Plain(<<"owner", "market", "user_im_bps">>)

TriggerLimb ==
    Struct(<<"trigger_price", "max_slippage_bps", "client_trigger_id">>,
           {"client_trigger_id"}, {})

SetPositionTriggers ==
    Struct(<<"market", "owner", "expected_position_epoch", "stop_loss",
             "take_profit", "client_group_id">>,
           {"stop_loss", "take_profit", "client_group_id"}, {})

CancelPositionTriggers == Plain(<<"market", "owner", "expected_position_epoch">>)

---------------------------------------------------------------------------
(* Oracles, funds, agents *)

OracleUpdate ==
    Struct(<<"market", "price", "signer", "publish_time_ms">>,
           {}, {"publish_time_ms"})

OracleUpdateComposite ==
    Struct(<<"market", "price", "n_sources", "signer", "publish_time_ms">>,
           {}, {"n_sources", "publish_time_ms"})

Deposit == Struct(<<"owner", "amount", "signer">>, {}, {"signer"})
Withdraw == Struct(<<"owner", "amount", "signer">>, {}, {"signer"})
WithdrawRequest == Plain(<<"owner", "amount", "solana_destination">>)
ConfirmDeposit == Plain(<<"owner", "amount", "solana_tx_sig", "signer">>)
ConfirmWithdrawal == Plain(<<"withdrawal_id", "solana_tx_sig", "signer">>)
FailWithdrawal == Plain(<<"withdrawal_id", "reason", "signer">>)

BridgeWithdrawalReceipt ==
    Plain(<<"deployment_id", "authorization_digest", "withdrawal_id",
            "terminal_state", "vault_tier", "proof_owner", "destination_owner",
            "destination_token_acct", "amount_micro_usdc", "fee_micro_usdc",
            "authorization_signer_epoch", "solana_tx_signature",
            "finalized_slot", "finalized_blockhash", "receipt_quorum_kind",
            "receipt_authority_epoch">>)

OperatorReceiptProof == Plain(<<"signer_bitmap", "signatures">>)
ConfirmWithdrawalReceipt == Plain(<<"receipt", "proof">>)
FailWithdrawalReceipt == Plain(<<"receipt", "proof">>)
AuthorizeWithdrawal == Plain(<<"authorization", "proof">>)
ApproveAgent == Plain(<<"owner", "agent_pubkey">>)
RevokeAgent == Plain(<<"owner", "agent_pubkey">>)

---------------------------------------------------------------------------
(* Markets and governance *)

\* pool_id has a default that mandatory fields were appended behind.
CreateMarket ==
    Struct(<<"market", "im_bps", "mm_bps", "taker_fee_bps", "maker_fee_bps",
             "signer", "funding_interval_ms", "max_funding_rate_bps", "pool_id",
             "sz_decimals", "ticker", "max_open_interest">>,
           {}, {"pool_id", "max_open_interest"})

CreateImpactMarket ==
    Struct(<<"impact_market_id", "underlying_market", "child_market_base",
             "question", "deadline_ms", "resolution_window_ms", "im_bps",
             "mm_bps", "taker_fee_bps", "maker_fee_bps", "funding_interval_ms",
             "max_funding_rate_bps", "signer", "oracle_source", "description",
             "rules">>,
           {"oracle_source"}, {"oracle_source", "description", "rules"})

ResolveEvent == Plain(<<"impact_market_id", "outcome", "signer">>)

\* What an update may change: each an Option with a default.
Tunables ==
    <<"taker_fee_bps", "maker_fee_bps", "max_funding_rate_bps",
      "funding_interval_ms", "max_position_size", "default_ttl_ms",
      "net_delta_margin", "tick_size", "lot_size", "primary_oracle_signer",
      "oracle_staleness_ms", "mark_source_mode", "max_mark_spread_bps",
      "cex_composite_staleness_ms", "partial_liquidation_enabled", "fee_tiers",
      "im_bps", "mm_bps", "max_open_interest">>

UpdateMarketFees ==
    LET tunables == {Tunables[i] : i \in DOMAIN Tunables}
    IN  Struct(<<"market", "signer">> \o Tunables, tunables, tunables)

SetTriggerMarketConfig ==
    Struct(<<"market", "expected_current_version", "enabled",
             "max_trigger_slippage_bps", "max_mark_age_ms",
             "max_future_publish_skew_ms", "max_active_brackets">>,
           {"expected_current_version"}, {})

UpdateAdminSignerRegistry == Plain(<<"new_threshold", "new_members">>)
ProposeAdminAction == Plain(<<"proposer", "registry_version", "action">>)
ApproveAdminAction ==
    Plain(<<"approver", "proposal_id", "registry_version", "threshold",
            "proposer", "created_height", "created_ms", "expiry_ms", "action",
            "content_hash">>)
RejectAdminAction == Plain(<<"rejecter", "proposal_id", "content_hash">>)
EmergencyAdminAction == Plain(<<"signer", "action">>)

---------------------------------------------------------------------------
(* Records in the chain's state *)

FeeTier == Plain(<<"min_30d_volume_micro_usdc", "maker_fee_tenth_bps",
                   "taker_fee_tenth_bps">>)

MarketConfigTail ==
    <<"kind", "max_position_size", "default_ttl_ms", "net_delta_margin",
      "pool_id", "mark_price_max_oracle_age_ms", "fee_tiers", "tick_size",
      "lot_size", "primary_oracle_signer", "oracle_staleness_ms",
      "mark_source_mode", "max_mark_spread_bps", "cex_composite_staleness_ms",
      "partial_liquidation_enabled", "sz_decimals", "ticker",
      "max_open_interest">>

MarketConfig ==
    Struct(<<"market", "im_bps", "mm_bps", "taker_fee_bps", "maker_fee_bps",
             "funding_interval_ms", "max_funding_rate_bps">> \o MarketConfigTail,
           {"primary_oracle_signer"},
           {MarketConfigTail[i] : i \in DOMAIN MarketConfigTail})

Order ==
    Struct(<<"id", "market", "owner", "side", "price", "quantity",
             "client_order_id", "original_quantity", "filled_quantity",
             "created_at_ms", "queue_priority">>,
           {"client_order_id"},
           {"client_order_id", "original_quantity", "filled_quantity",
            "created_at_ms", "queue_priority"})

Position == Plain(<<"owner", "market", "side", "entry_price", "size",
                    "last_funding_index">>)

ImpactMarketInfo ==
    Struct(<<"impact_market_id", "underlying_market", "cpy_market", "cpn_market",
             "eby_market", "ebn_market", "question", "deadline_ms",
             "resolution_window_ms", "status", "created_ms", "resolved_ms",
             "oracle_source">>, {"oracle_source"}, {"oracle_source"})

WithdrawalRecord == Plain(<<"id", "owner", "amount", "solana_destination",
                            "status", "request_height">>)
AccountFeeOverride == Plain(<<"taker_fee_bps", "maker_fee_bps">>)

---------------------------------------------------------------------------
\* The structs that are the payload of a transaction.
PayloadLayouts ==
    [PlaceOrder |-> PlaceOrder, CancelOrder |-> CancelOrder,
     CancelClientOrder |-> CancelClientOrder, CancelAllOrders |-> CancelAllOrders,
     CancelReplaceOrder |-> CancelReplaceOrder, OracleUpdate |-> OracleUpdate,
     OracleUpdateComposite |-> OracleUpdateComposite, MarketOrder |-> MarketOrder,
     Deposit |-> Deposit, Withdraw |-> Withdraw, CreateMarket |-> CreateMarket,
     WithdrawRequest |-> WithdrawRequest, ConfirmDeposit |-> ConfirmDeposit,
     ConfirmWithdrawal |-> ConfirmWithdrawal, FailWithdrawal |-> FailWithdrawal,
     ApproveAgent |-> ApproveAgent, RevokeAgent |-> RevokeAgent,
     CreateImpactMarket |-> CreateImpactMarket, ResolveEvent |-> ResolveEvent,
     UpdateMarketFees |-> UpdateMarketFees,
     SetUserMarketLeverage |-> SetUserMarketLeverage,
     ClosePosition |-> ClosePosition, AmendOrder |-> AmendOrder,
     AtomicBasketOrder |-> AtomicBasketOrder,
     ProposeAdminAction |-> ProposeAdminAction,
     ApproveAdminAction |-> ApproveAdminAction,
     RejectAdminAction |-> RejectAdminAction,
     EmergencyAdminAction |-> EmergencyAdminAction,
     ConfirmWithdrawalReceipt |-> ConfirmWithdrawalReceipt,
     FailWithdrawalReceipt |-> FailWithdrawalReceipt,
     AuthorizeWithdrawal |-> AuthorizeWithdrawal,
     SetPositionTriggers |-> SetPositionTriggers,
     CancelPositionTriggers |-> CancelPositionTriggers]

\* The structs that the chain's state keeps.
RecordLayouts ==
    [FeeTier |-> FeeTier, MarketConfig |-> MarketConfig, Order |-> Order,
     Position |-> Position, ImpactMarketInfo |-> ImpactMarketInfo,
     WithdrawalRecord |-> WithdrawalRecord,
     AccountFeeOverride |-> AccountFeeOverride]

\* The structs inside another one.
NestedLayouts ==
    [TriggerLimb |-> TriggerLimb, AtomicBasketLeg |-> AtomicBasketLeg,
     BridgeWithdrawalReceipt |-> BridgeWithdrawalReceipt,
     OperatorReceiptProof |-> OperatorReceiptProof,
     SetTriggerMarketConfig |-> SetTriggerMarketConfig,
     UpdateAdminSignerRegistry |-> UpdateAdminSignerRegistry]
=============================================================================
