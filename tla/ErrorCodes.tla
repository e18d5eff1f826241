----------------------------- MODULE ErrorCodes -----------------------------
(***************************************************************************)
(* The engine's rejections and the codes they travel as: ExecError, its    *)
(* code() and the manifest of error kinds in types.rs, StateError of       *)
(* state.rs, and the decoders that make a name of a code again.  Of a text *)
(* only its start matters to a decoder: the code it leads with, or which   *)
(* of the canonical rejection texts it starts as.                          *)
(***************************************************************************)
EXTENDS Integers, Sequences

\* ExecError, in the order of its declaration.
AccountAndMarketErrors ==
  {"DecodeError", "OrderNotFound", "NotOwner", "UnauthorizedOracle",
   "Overflow", "InvalidPrice", "InvalidQuantity", "InvalidSide",
   "UnknownMarket", "InsufficientBalance", "InsufficientMargin",
   "StateCorruption", "InternalError", "UnauthorizedRelayer",
   "WithdrawalNotFound", "WithdrawalAlreadyProcessed", "DuplicateDeposit",
   "InvalidSignature", "SignatureRequired", "AgentNotAuthorized",
   "AgentCannotWithdraw", "NonceTooOld", "NonceTooFarFuture", "NonceReplay",
   "NonceBelowOldest", "MarketAlreadyExists", "InvalidMarketConfig",
   "ImpactMarketAlreadyExists", "ImpactMarketNotFound",
   "MarketClosedForTrading", "BinaryPriceOutOfRange", "InvalidResolution",
   "PositionLimitExceeded", "OracleTimestampNotMonotonic",
   "TooManyActiveImpactMarkets", "SettlementPriceMismatch",
   "OracleNotApplicable", "PostOnlyWouldCross", "ReduceOnlyWouldIncrease"}

OrderAndConfigErrors ==
  {"TestActionRejected", "FeeBpsOutOfRange", "FeeOverrideStaleSeq",
   "TickSizeViolation", "LotSizeViolation", "OracleStaleNotElapsed",
   "StaleOracle", "UserLeverageBelowMarketIm", "ClientOrderIdNotFound",
   "DuplicateClientOrderId", "InvalidClientOrderId",
   "FillOrKillWouldNotFill", "InvalidCancelReplaceTarget",
   "AmendBelowFilled", "SlippageExceeded", "OpenInterestLimitExceeded",
   "AdminGovernanceInactive", "NotAdminSigner"}

ExecErrors == AccountAndMarketErrors \cup OrderAndConfigErrors

\* ExecError::code.
code ==
  [DecodeError |-> 1, OrderNotFound |-> 2, NotOwner |-> 3,
   UnauthorizedOracle |-> 4, Overflow |-> 5, InvalidPrice |-> 6,
   InvalidQuantity |-> 7, InvalidSide |-> 8, UnknownMarket |-> 9,
   InsufficientBalance |-> 11, InsufficientMargin |-> 12,
   StateCorruption |-> 10, UnauthorizedRelayer |-> 13,
   WithdrawalNotFound |-> 14, WithdrawalAlreadyProcessed |-> 15,
   DuplicateDeposit |-> 16, InvalidSignature |-> 17,
   SignatureRequired |-> 18, AgentNotAuthorized |-> 19,
   AgentCannotWithdraw |-> 20, NonceTooOld |-> 21, NonceTooFarFuture |-> 21,
   NonceReplay |-> 21, NonceBelowOldest |-> 21, MarketAlreadyExists |-> 22,
   InvalidMarketConfig |-> 23, ImpactMarketAlreadyExists |-> 24,
   ImpactMarketNotFound |-> 25, MarketClosedForTrading |-> 26,
   BinaryPriceOutOfRange |-> 27, InvalidResolution |-> 28,
   PositionLimitExceeded |-> 29, OracleTimestampNotMonotonic |-> 30,
   TooManyActiveImpactMarkets |-> 31, SettlementPriceMismatch |-> 32,
   OracleNotApplicable |-> 33, PostOnlyWouldCross |-> 34,
   ReduceOnlyWouldIncrease |-> 35, TestActionRejected |-> 36,
   StaleOracle |-> 37, UserLeverageBelowMarketIm |-> 38,
   TickSizeViolation |-> 39, LotSizeViolation |-> 40,
   OracleStaleNotElapsed |-> 41, FeeBpsOutOfRange |-> 42,
   FeeOverrideStaleSeq |-> 43, ClientOrderIdNotFound |-> 44,
   DuplicateClientOrderId |-> 45, InvalidClientOrderId |-> 46,
   FillOrKillWouldNotFill |-> 47, InvalidCancelReplaceTarget |-> 48,
   AmendBelowFilled |-> 49, SlippageExceeded |-> 50,
   OpenInterestLimitExceeded |-> 51, AdminGovernanceInactive |-> 52,
   NotAdminSigner |-> 53, InternalError |-> 255]

\* impl Display for ExecError: what the text of a rejection starts as.
Display(e) ==
  IF e = "OpenInterestLimitExceeded" THEN "open interest limit exceeded"
  ELSE IF e = "SlippageExceeded" THEN "atomic basket aggregate slippage"
  ELSE "other"

\* An engine of before the split: code 50 for open interest, and none of the
\* rejections that came after.
legacy_code == [code EXCEPT !.OpenInterestLimitExceeded = 50]
LegacyErrors ==
  ExecErrors \ {"SlippageExceeded", "AdminGovernanceInactive", "NotAdminSigner"}

\* StateError, and From<StateError> for ExecError.
StateErrors ==
  {"DecodeFailure", "EncodeFailure", "MissingRequiredKey", "InvalidKeyLayout",
   "ArithmeticInvariantViolation"}

FromStateError(e) ==
  IF e = "ArithmeticInvariantViolation" THEN "Overflow" ELSE "StateCorruption"

-----------------------------------------------------------------------------

\* define_error_kinds!: the kind of code n is the n-th, InternalError is 255.
ErrorKindNames ==
  <<"DecodeError", "OrderNotFound", "NotOwner", "UnauthorizedOracle",
    "Overflow", "InvalidPrice", "InvalidQuantity", "InvalidSide",
    "UnknownMarket", "StateCorruption", "InsufficientBalance",
    "InsufficientMargin", "UnauthorizedRelayer", "WithdrawalNotFound",
    "WithdrawalAlreadyProcessed", "DuplicateDeposit", "InvalidSignature",
    "SignatureRequired", "AgentNotAuthorized", "AgentCannotWithdraw",
    "InvalidNonce", "MarketAlreadyExists", "InvalidMarketConfig",
    "ImpactMarketAlreadyExists", "ImpactMarketNotFound",
    "MarketClosedForTrading", "BinaryPriceOutOfRange", "InvalidResolution",
    "PositionLimitExceeded", "OracleTimestampNotMonotonic",
    "TooManyActiveImpactMarkets", "SettlementPriceMismatch",
    "OracleNotApplicable", "PostOnlyWouldCross", "ReduceOnlyWouldIncrease",
    "TestActionRejected", "StaleOracle", "UserLeverageBelowMarketIm",
    "TickSizeViolation", "LotSizeViolation", "OracleStaleNotElapsed",
    "FeeBpsOutOfRange", "FeeOverrideStaleSeq", "ClientOrderIdNotFound",
    "DuplicateClientOrderId", "InvalidClientOrderId",
    "FillOrKillWouldNotFill", "InvalidCancelReplaceTarget",
    "AmendBelowFilled", "SlippageExceeded", "OpenInterestLimitExceeded",
    "AdminGovernanceInactive", "NotAdminSigner">>

ERROR_KINDS_WithoutGovernance == [c \in 1 .. 51 |-> ErrorKindNames[c]]

ERROR_KINDS ==
  [c \in 1 .. Len(ErrorKindNames) \cup {255} |->
     IF c = 255 THEN "InternalError" ELSE ErrorKindNames[c]]

\* decode_exec_error_kind outside code 50: the first kind with the code.
KnownKind(c) == IF c \in DOMAIN ERROR_KINDS THEN ERROR_KINDS[c] ELSE "UnknownError"

\* The name of a code that may mean two things, from the start of its log.
NameOf50TrustingTheCode(starts) ==
  IF starts = "open interest limit exceeded" THEN "OpenInterestLimitExceeded"
  ELSE "SlippageExceeded"

NameOf50(starts) ==
  IF starts = "open interest limit exceeded" THEN "OpenInterestLimitExceeded"
  ELSE IF starts = "atomic basket aggregate slippage" THEN "SlippageExceeded"
  ELSE "AmbiguousCode50"

\* classify_error_name, decodeExecError: what both bindings call a rejection.
ClassifyError(c, starts) == IF c = 50 THEN NameOf50(starts) ELSE KnownKind(c)

\* The kind a rejection is an instance of: the four nonce rejections are one.
KindOf(e) ==
  IF e \in {"NonceTooOld", "NonceTooFarFuture", "NonceReplay", "NonceBelowOldest"}
    THEN "InvalidNonce"
    ELSE e
=============================================================================
