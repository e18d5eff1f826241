------------------------------- MODULE Signing -------------------------------
(***************************************************************************)
(* From a convenience builder (placeOrder, cancelOrder, ... and the trigger*)
(* builders when they are not given an owner) to the signed bytes in the   *)
(* POST, client.ts: the builder takes `owner` from the loaded key at once; *)
(* broadcastSigned awaits the chain id and the WASM core, then allocates the*)
(* nonce, signs with the key loaded now, and posts, all without giving way.*)
(* Meanwhile setPrivateKey() may load another key.  The nonces are those of*)
(* TsNonce.                                                                *)
(***************************************************************************)
EXTENDS TsNonce

CONSTANTS
  Calls,       \* the builder calls, each made once
  Keys,        \* private keys; an address is named by its key
  BadKey,      \* bytes getPublicKey() rejects
  NoKey        \* null

ASSUME KeysAssumption == BadKey \notin Keys /\ NoKey \notin Keys \cup {BadKey}

VARIABLES
  privateKey,  \* this.privateKey
  address,     \* this.address, and this.publicKey with it
  state,       \* where each call is: idle, awaiting, posted or thrown
  owner,       \* the owner in each call's action
  swapped,     \* history: the calls that saw the key change while they awaited
  posted       \* history: the envelopes, in the order they were posted

keyVars == <<privateKey, address>>
callVars == <<state, owner, swapped, posted>>
signingVars == <<vars, keyVars, callVars>>

SigningInit ==
  /\ Init
  /\ privateKey = NoKey /\ address = NoKey
  /\ state = [c \in Calls |-> "idle"]
  /\ owner = [c \in Calls |-> NoKey]
  /\ swapped = {}
  /\ posted = << >>

SetPrivateKeyKeepingAddress(k) ==
  /\ privateKey' = k
  /\ address' = IF address = NoKey /\ k # BadKey THEN k ELSE address
  /\ swapped' = IF k = privateKey THEN swapped
                ELSE swapped \cup {c \in Calls : state[c] = "awaiting"}
  /\ UNCHANGED <<vars, state, owner, posted>>

\* setPrivateKey(): the key is stored before getPublicKey() can throw.
SetPrivateKey(k) ==
  /\ privateKey' = k
  /\ IF k = BadKey THEN UNCHANGED address ELSE address' = k
  /\ swapped' = IF k = privateKey THEN swapped
                ELSE swapped \cup {c \in Calls : state[c] = "awaiting"}
  /\ UNCHANGED <<vars, state, owner, posted>>

\* requireOwner(), submitTx() and broadcastSigned() up to its await.
Build(c) ==
  /\ state[c] = "idle"
  /\ IF address = NoKey \/ privateKey = NoKey
       THEN /\ state' = [state EXCEPT ![c] = "thrown"]
            /\ UNCHANGED owner
       ELSE /\ state' = [state EXCEPT ![c] = "awaiting"]
            /\ owner' = [owner EXCEPT ![c] = address]
  /\ UNCHANGED <<vars, keyVars, swapped, posted>>

\* Both promises are resolved: nextTimestampNonce(), signAndEncode(), fetch().
\* A key the signing core rejects makes it throw, with the nonce spent.
SignAndPost(c) ==
  /\ state[c] = "awaiting"
  /\ Allocate
  /\ IF privateKey = BadKey
       THEN /\ state' = [state EXCEPT ![c] = "thrown"]
            /\ UNCHANGED posted
       ELSE /\ state' = [state EXCEPT ![c] = "posted"]
            /\ posted' = Append(posted,
                 [call |-> c, owner |-> owner[c], signer |-> privateKey,
                  nonce |-> last', grant |-> Len(granted')])
  /\ UNCHANGED <<keyVars, owner, swapped>>

\* The chain id or the WASM core cannot be had: the call rejects.
Abandon(c) ==
  /\ state[c] = "awaiting"
  /\ state' = [state EXCEPT ![c] = "thrown"]
  /\ UNCHANGED <<vars, keyVars, owner, swapped, posted>>

SigningNext ==
  \/ \E k \in Keys \cup {BadKey} : SetPrivateKey(k)
  \/ \E c \in Calls : Build(c) \/ SignAndPost(c) \/ Abandon(c)
  \/ ClockMoves /\ UNCHANGED <<keyVars, callVars>>

SigningSpec == SigningInit /\ [][SigningNext]_signingVars

-----------------------------------------------------------------------------

\* Every variable stays in its type.
SigningTypeOK ==
  /\ TypeOK
  /\ privateKey \in Keys \cup {BadKey, NoKey}
  /\ address \in Keys \cup {NoKey}
  /\ state \in [Calls -> {"idle", "awaiting", "posted", "thrown"}]
  /\ owner \in [Calls -> Keys \cup {NoKey}]
  /\ swapped \in SUBSET Calls
  /\ posted \in Seq([call : Calls, owner : Keys, signer : Keys, nonce : Nonce,
                     grant : 1..MaxCalls])

\* Concurrent calls post in nonce order however their awaits interleave: only a
\* nonce at the cap, granted since, lets a later POST carry no later nonce
\* (client.ts:571-577).
PostedInNonceOrder ==
  \A i, j \in DOMAIN posted :
    (i < j /\ posted[j].nonce <= posted[i].nonce)
      => \E g \in (posted[i].grant + 1)..posted[j].grant : Saturated(granted[g])

\* An action is signed by a key other than its owner's only if setPrivateKey()
\* ran while the call awaited, failed setPrivateKey() calls included
\* (client.ts:405-410, 565-573, 961-968).
MismatchNeedsASwap ==
  \A i \in DOMAIN posted :
    posted[i].owner # posted[i].signer => posted[i].call \in swapped
=============================================================================
