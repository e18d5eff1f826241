---------------------------- MODULE NonceService ----------------------------
(***************************************************************************)
(* What a nonce allocator promises the engine: within one run of the       *)
(* process every nonce handed out is larger than all the ones before it.   *)
(* Nothing is said of clocks, locks or threads; PyNonce implements it.     *)
(***************************************************************************)
EXTENDS Naturals, Sequences

CONSTANT Nonces     \* natural numbers

VARIABLE issued     \* the nonces handed out, oldest first

Init == issued = << >>

Issue(n) ==
  /\ \A i \in DOMAIN issued : issued[i] < n
  /\ issued' = Append(issued, n)

Next == \E n \in Nonces : Issue(n)

Spec == Init /\ [][Next]_issued
=============================================================================
