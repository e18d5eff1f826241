--------------------------- MODULE SharedAttempts ---------------------------
(***************************************************************************)
(* What the two lazy initializations of a client have in common: callers   *)
(* that share numbered attempts, one after the other.                      *)
(***************************************************************************)
EXTENDS Naturals

CONSTANTS
  Callers,      \* concurrent calls of ready() and submitTx()
  MaxAttempts   \* bound: number of attempts of each initialization

ASSUME MaxAttemptsAssumption == MaxAttempts \in Nat

Attempts == 1..MaxAttempts
=============================================================================
