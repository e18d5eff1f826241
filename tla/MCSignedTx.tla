----------------------------- MODULE MCSignedTx -----------------------------
(***************************************************************************)
(* SignedTx with every struct of the repository, for TLC.                  *)
(***************************************************************************)
EXTENDS SignedTx, TLC

AllLayouts == PayloadLayouts @@ RecordLayouts @@ NestedLayouts

\* The lengths in which each struct has been written, as numbers and not as
\* whatever the layout allows: what the tests of codec.rs and codec.test.ts
\* freeze, what types.rs says older clients and records have, and (last) what
\* version 3.0.0 writes.
Frozen ==
    [PlaceOrder |-> {6, 8, 9}, MarketOrder |-> {5}, CancelOrder |-> {2},
     CancelClientOrder |-> {2}, CancelAllOrders |-> {2},
     CancelReplaceOrder |-> {8, 11}, AmendOrder |-> {4}, AtomicBasketLeg |-> {6},
     AtomicBasketOrder |-> {3}, ClosePosition |-> {2},
     SetUserMarketLeverage |-> {3}, TriggerLimb |-> {3},
     SetPositionTriggers |-> {6}, CancelPositionTriggers |-> {3},
     OracleUpdate |-> {3, 4}, OracleUpdateComposite |-> {4, 5},
     Deposit |-> {2, 3}, Withdraw |-> {2, 3}, WithdrawRequest |-> {3},
     ConfirmDeposit |-> {4}, ConfirmWithdrawal |-> {3}, FailWithdrawal |-> {3},
     BridgeWithdrawalReceipt |-> {16}, OperatorReceiptProof |-> {2},
     ConfirmWithdrawalReceipt |-> {2}, FailWithdrawalReceipt |-> {2},
     AuthorizeWithdrawal |-> {2}, ApproveAgent |-> {2}, RevokeAgent |-> {2},
     CreateMarket |-> {8, 11, 12}, CreateImpactMarket |-> {12, 13, 14, 16},
     ResolveEvent |-> {3}, UpdateMarketFees |-> {18, 20, 21},
     SetTriggerMarketConfig |-> {7}, UpdateAdminSignerRegistry |-> {2},
     ProposeAdminAction |-> {3}, ApproveAdminAction |-> {10},
     RejectAdminAction |-> {3}, EmergencyAdminAction |-> {2}, FeeTier |-> {3},
     MarketConfig |-> {7, 13, 22, 25}, Order |-> {7, 9, 10, 11},
     Position |-> {6}, ImpactMarketInfo |-> {12, 13}, WithdrawalRecord |-> {6},
     AccountFeeOverride |-> {2}]

\* A build of the layouts as they stand reads and writes all their fields.
Shapes == [k \in DOMAIN AllLayouts |-> Frozen[k] \cup {Len(AllLayouts[k].fields)}]

\* What today's structs refuse: the CreateMarket that a test says is now rejected,
\* and the CreateImpactMarket of older clients that its own comment says
\* decodes (types.rs:1430-1432) and that lacks a mandatory field.
Refused == {<<"CreateMarket", 8>>, <<"CreateImpactMarket", 12>>}

\* What a caller may ask for: everything, only what is mandatory, None where
\* it may be, a key nobody knows, a byte field of another length, a field of
\* the wrong form.
Requests ==
    [k \in DOMAIN AllLayouts |->
        LET L == AllLayouts[k]
            names == {L.fields[i] : i \in DOMAIN L.fields}
            everything == [f \in names |-> <<Form(f), "a">>]
            wrong == L.fields[1]
        IN  {everything,
             [f \in names \ (L.option \cup L.default) |-> everything[f]],
             [f \in names |-> IF f \in L.option THEN Nil ELSE everything[f]],
             everything @@ ("unknown" :> <<"integer", "a">>),
             [f \in names |-> IF Form(f) = "bytes" THEN <<"pubkey", "b">>
                                                   ELSE everything[f]],
             [everything EXCEPT ![wrong] = <<"short", "a">>]}]

KeySymmetry == Permutations(Keys)

TwoChains == [d \in {"main", "harness"} |-> IF d = "main" THEN "c1" ELSE "unbound"]
=============================================================================
