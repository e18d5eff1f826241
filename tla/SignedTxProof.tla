--------------------------- MODULE SignedTxProof ---------------------------
(***************************************************************************)
(* What SignedTx keeps for any set of layouts and releases.  The argument: *)
(* every array in flight is the list of the fields' meanings, as long as   *)
(* the build that encoded it last; the signature covers the caller's own   *)
(* array, so that what verifies is that array; and decoding an array of    *)
(* meanings gives the meanings back, whichever release decodes it.         *)
(***************************************************************************)
EXTENDS SignedTx, TLAPS

WellFormed(L) ==
    /\ L.fields \in Seq(STRING)
    /\ \A i, j \in DOMAIN L.fields : L.fields[i] = L.fields[j] => i = j

\* A field of a layout is found at its own place.
LEMMA FieldHasOnePlace ==
    ASSUME NEW L, WellFormed(L), NEW i \in DOMAIN L.fields
    PROVE  IndexOf(L, L.fields[i]) = i
  BY DEF WellFormed, IndexOf

\* The fields that a build of n knows.
LEMMA NamesAndPlaces ==
    ASSUME NEW L, WellFormed(L), NEW n \in 0..Len(L.fields),
           NEW i \in DOMAIN L.fields
    PROVE  L.fields[i] \in Names(L, n) <=> i <= n
  <1>1. DOMAIN L.fields = 1..Len(L.fields) BY DEF WellFormed
  <1> QED BY <1>1 DEF WellFormed, Names

\* A default is a value of its field.
LEMMA DefaultFits ==
    ASSUME NEW L, NEW f PROVE Fits(L, f, Default(L, f))
  BY DEF Fits, Default

\* What m fields of a struct encode to decodes, in a build that knows n >= m
\* fields, to the struct, if what is not encoded has its default.
LEMMA DecodeOfEncode ==
    ASSUME NEW L, WellFormed(L), NEW m \in 0..Len(L.fields),
           NEW n \in m..Len(L.fields), NEW msg,
           \A i \in (m + 1)..Len(L.fields) : msg[L.fields[i]] = Default(L, L.fields[i])
    PROVE  Decode(L, n, EncodePayload(L, m, msg)) = [f \in Names(L, n) |-> msg[f]]
  <1> DEFINE array == EncodePayload(L, m, msg)
  <1>1. DOMAIN L.fields = 1..Len(L.fields) /\ Len(L.fields) \in Nat
    BY DEF WellFormed
  <1>2. Len(array) = m BY <1>1 DEF EncodePayload
  <1>3. ASSUME NEW f \in Names(L, n)
        PROVE  (IF IndexOf(L, f) <= Len(array) THEN array[IndexOf(L, f)] ELSE Default(L, f)) = msg[f]
    <2>1. PICK i \in 1..n : L.fields[i] = f BY DEF Names
    <2>2. i \in DOMAIN L.fields BY <1>1
    <2>3. IndexOf(L, f) = i BY <2>1, <2>2, FieldHasOnePlace
    <2>4. CASE i <= m BY <2>1, <2>3, <2>4, <1>2 DEF EncodePayload
    <2>5. CASE ~(i <= m) BY <1>1, <2>1, <2>3, <2>5, <1>2
    <2> QED BY <2>4, <2>5
  <1> HIDE DEF array
  <1> QED BY <1>3 DEF Decode, array

---------------------------------------------------------------------------
(* The invariant *)

\* The whole struct as the caller means it, and its first m fields encoded.
Meaning == [f \in Names(Layout_, Full(kind)) |-> Meant(f)]
Written(m) == EncodePayload(Layout_, m, Meaning)

TypesOK ==
    /\ kind \in Kinds
    /\ sdk \in 1..Full(kind)
    /\ shape \in [Parties -> 1..Full(kind)]
    /\ result = [d \in Deployments |-> result[d]]

PayloadIsWritten == payload # None => payload = Written(sdk)

\* Whoever encoded it last knew at least as many fields as the caller.
EnvelopeIsWritten ==
    env # None => kind \in Actions /\ \E m \in sdk..Full(kind) : env.payload = Written(m)

SignatureIsOverWritten ==
    env # None => \E key, chain :
        env.signature = try_sign(key, signing_message(chain, action_type[kind], 1, Written(sdk)))

ReadAsMeant(d) ==
    /\ result[d].kind = kind
    /\ \E n \in sdk..Full(kind) :
           result[d].msg = [f \in Names(Layout_, n) |-> Meaning[f]]
    /\ kind \in Actions => env # None /\ env.signature.msg[2] = ChainOf[d]

ResultsAreMeant == \A d \in Deployments : Executed(d) => ReadAsMeant(d)

Explained(d) ==
    /\ env # None
    /\ LET signed == env.signature.msg
       IN  \/ signed[2] # ChainOf[d]
           \/ signed[3] # env.action_type \/ signed[4] # env.seq
           \/ env.signature.key # env.pubkey
           \/ Len(env.payload) # sdk

Rejected(d) == result[d] # None /\ result[d].verdict = "invalid_signature"

RejectionsExplained == \A d \in Deployments : Rejected(d) => Explained(d)

IInv == /\ TypesOK /\ PayloadIsWritten /\ EnvelopeIsWritten
        /\ SignatureIsOverWritten /\ ResultsAreMeant /\ RejectionsExplained

---------------------------------------------------------------------------
(* What an array of meanings encodes and decodes to *)

LEMMA LayoutIsWellFormed ==
    ASSUME TypesOK
    PROVE  /\ WellFormed(Layout_)
           /\ Full(kind) \in Nat
           /\ DOMAIN Layout_.fields = 1..Full(kind)
           /\ Full(kind) = Len(Layout_.fields)
  BY LayoutAssumption DEF TypesOK, WellFormed, Layout_, Full

LEMMA WrittenHasItsLength ==
    ASSUME TypesOK, NEW m \in 1..Full(kind)
    PROVE  Len(Written(m)) = m
  BY LayoutIsWellFormed DEF Written, EncodePayload

\* What the caller's build does not know means its default.
LEMMA TailIsDefault ==
    ASSUME TypesOK, NEW i \in (sdk + 1)..Full(kind)
    PROVE  Meaning[Layout_.fields[i]] = Default(Layout_, Layout_.fields[i])
  <1>1. sdk \in 1..Full(kind) BY DEF TypesOK
  <1>2. i \in DOMAIN Layout_.fields /\ ~(i <= sdk) /\ i <= Full(kind)
    BY <1>1, LayoutIsWellFormed
  <1>3. Layout_.fields[i] \notin Names(Layout_, sdk)
    BY <1>1, <1>2, LayoutIsWellFormed, NamesAndPlaces
  <1>4. Layout_.fields[i] \in Names(Layout_, Full(kind))
    BY <1>2, LayoutIsWellFormed, NamesAndPlaces
  <1> QED BY <1>3, <1>4 DEF Meaning, Meant

\* Encoding the caller's dict writes the meanings.
LEMMA EncodingWrites ==
    ASSUME TypesOK
    PROVE  EncodePayload(Layout_, sdk, Deserialize(Layout_, sdk, asked)) = Written(sdk)
  <1>1. sdk \in 1..Full(kind) BY DEF TypesOK
  <1>2. ASSUME NEW i \in 1..sdk
        PROVE  Deserialize(Layout_, sdk, asked)[Layout_.fields[i]] = Meaning[Layout_.fields[i]]
    <2>1. i \in DOMAIN Layout_.fields /\ i <= sdk /\ i <= Full(kind)
      BY <1>1, LayoutIsWellFormed
    <2>2. Layout_.fields[i] \in Names(Layout_, sdk)
      BY <1>1, <2>1, LayoutIsWellFormed, NamesAndPlaces
    <2>3. Layout_.fields[i] \in Names(Layout_, Full(kind))
      BY <2>1, LayoutIsWellFormed, NamesAndPlaces
    <2> QED BY <2>2, <2>3 DEF Meaning, Meant, Deserialize
  <1> QED BY <1>2 DEF EncodePayload, Written

LEMMA WrittenDecodes ==
    ASSUME TypesOK, NEW m \in sdk..Full(kind), NEW n \in m..Full(kind)
    PROVE  Decode(Layout_, n, Written(m)) = [f \in Names(Layout_, n) |-> Meaning[f]]
  <1>1. sdk \in 1..Full(kind) BY DEF TypesOK
  <1>2. \A i \in (m + 1)..Full(kind) :
            Meaning[Layout_.fields[i]] = Default(Layout_, Layout_.fields[i])
    BY <1>1, TailIsDefault, LayoutIsWellFormed
  <1>3. m \in 0..Len(Layout_.fields) /\ n \in m..Len(Layout_.fields)
    BY <1>1, LayoutIsWellFormed
  <1> QED BY <1>2, <1>3, LayoutIsWellFormed, DecodeOfEncode DEF Written

\* A gateway that knows n fields writes n meanings.
LEMMA RelayingWrites ==
    ASSUME TypesOK, NEW m \in sdk..Full(kind), NEW n \in m..Full(kind)
    PROVE  EncodePayload(Layout_, n, Decode(Layout_, n, Written(m))) = Written(n)
  <1>1. sdk \in 1..Full(kind) BY DEF TypesOK
  <1>2. ASSUME NEW i \in 1..n
        PROVE  Decode(Layout_, n, Written(m))[Layout_.fields[i]] = Meaning[Layout_.fields[i]]
    <2>1. Layout_.fields[i] \in Names(Layout_, n) BY DEF Names
    <2> QED BY <2>1, WrittenDecodes
  <1> QED BY <1>2 DEF EncodePayload, Written

\* The discriminant of a kind names that kind.
LEMMA ClaimedKind ==
    ASSUME kind \in Actions, NEW e, e.action_type = action_type[kind]
    PROVE  Claimed(e) = kind
  BY CodeAssumption DEF Claimed

\* A signature fits one message only.
LEMMA SignaturesAreBinding ==
    ASSUME NEW k1, NEW c1, NEW a1, NEW s1, NEW p1, NEW k2, NEW c2, NEW a2, NEW s2, NEW p2
    PROVE  try_sign(k1, signing_message(c1, a1, s1, p1))
             = try_sign(k2, signing_message(c2, a2, s2, p2))
           <=> k1 = k2 /\ c1 = c2 /\ a1 = a2 /\ s1 = s2 /\ p1 = p2
  BY DEF try_sign, signing_message

LEMMA SignedParts ==
    ASSUME NEW k1, NEW c1, NEW a1, NEW s1, NEW p1
    PROVE  LET sig == try_sign(k1, signing_message(c1, a1, s1, p1))
           IN  sig.key = k1 /\ sig.msg[2] = c1 /\ sig.msg[3] = a1 /\ sig.msg[4] = s1
  BY DEF try_sign, signing_message

---------------------------------------------------------------------------
(* Every step keeps the invariant *)

\* Nothing the meanings depend on ever changes.
LEMMA MeaningIsFixed ==
    ASSUME UNCHANGED <<kind, sdk, asked>>
    PROVE  /\ Meaning' = Meaning
           /\ \A m : Written(m)' = Written(m)
           /\ Layout_' = Layout_
           /\ Full(kind)' = Full(kind)
  BY DEF Meaning, Meant, Written, EncodePayload, Layout_, Full, Names, Default

LEMMA InitKeeps == ASSUME Init PROVE IInv
  <1>1. TypesOK BY LayoutAssumption DEF Init, TypesOK
  <1>2. PayloadIsWritten /\ EnvelopeIsWritten /\ SignatureIsOverWritten
    BY DEF Init, PayloadIsWritten, EnvelopeIsWritten, SignatureIsOverWritten
  <1>3. \A d \in Deployments : result[d] = None BY DEF Init
  <1>4. ResultsAreMeant /\ RejectionsExplained
    BY <1>3 DEF ResultsAreMeant, RejectionsExplained, Executed, Rejected
  <1> QED BY <1>1, <1>2, <1>4 DEF IInv

\* What results say survives as long as the results and the envelope do, or
\* when there was no envelope yet.
LEMMA ResultsStay ==
    ASSUME IInv, UNCHANGED <<kind, sdk, asked, result>>, env' = env \/ env = None
    PROVE  ResultsAreMeant' /\ RejectionsExplained'
  <1>1. ASSUME NEW d \in Deployments, Executed(d)' PROVE ReadAsMeant(d)'
    <2>1. Executed(d) BY <1>1 DEF Executed
    <2>2. ReadAsMeant(d) BY <2>1 DEF IInv, ResultsAreMeant
    <2>3. result'[d].kind = kind' BY <2>2 DEF ReadAsMeant
    <2>4. \E n \in sdk'..Full(kind)' :
              result'[d].msg = [f \in Names(Layout_', n) |-> Meaning'[f]]
      BY <2>2, MeaningIsFixed DEF ReadAsMeant
    <2>5. kind' \in Actions => env' # None /\ env'.signature.msg[2] = ChainOf[d]
      BY <2>2 DEF ReadAsMeant
    <2> QED BY <2>3, <2>4, <2>5 DEF ReadAsMeant
  <1>2. ASSUME NEW d \in Deployments, Rejected(d)' PROVE Explained(d)'
    <2>1. Rejected(d) BY <1>2 DEF Rejected
    <2>2. Explained(d) BY <2>1 DEF IInv, RejectionsExplained
    <2> QED BY <2>2 DEF Explained
  <1> QED BY <1>1, <1>2 DEF ResultsAreMeant, RejectionsExplained

LEMMA EncodeKeeps == ASSUME IInv, Encode PROVE IInv'
  <1> USE DEF Encode
  <1>1. TypesOK' BY DEF IInv, TypesOK
  <1>2. payload' = Written(sdk) BY EncodingWrites DEF IInv
  <1>3. PayloadIsWritten' BY <1>2, MeaningIsFixed DEF PayloadIsWritten
  <1>4. EnvelopeIsWritten' BY MeaningIsFixed DEF IInv, EnvelopeIsWritten
  <1>5. SignatureIsOverWritten' BY MeaningIsFixed DEF IInv, SignatureIsOverWritten
  <1>6. ResultsAreMeant' /\ RejectionsExplained' BY ResultsStay
  <1> QED BY <1>1, <1>3, <1>4, <1>5, <1>6 DEF IInv

\* However it is put together, a first envelope carries the caller's array
\* and a signature over the caller's array.
LEMMA SigningKeeps ==
    ASSUME IInv, ToSign, NEW code, NEW seq, NEW pub, NEW key, NEW chain,
           env' = WireTxEnvelope(code, seq, payload, pub,
               try_sign(key, signing_message(chain, action_type[kind], 1, payload))),
           UNCHANGED <<kind, sdk, shape, asked, payload, result>>
    PROVE  IInv'
  <1>1. TypesOK' BY DEF IInv, TypesOK
  <1>2. payload = Written(sdk) BY DEF IInv, PayloadIsWritten, ToSign
  <1>3. PayloadIsWritten' BY MeaningIsFixed DEF IInv, PayloadIsWritten
  <1>4. sdk \in sdk..Full(kind) BY DEF IInv, TypesOK, Full
  <1>5. env'.payload = Written(sdk)
    BY <1>2 DEF WireTxEnvelope
  <1>6. EnvelopeIsWritten' BY <1>4, <1>5, MeaningIsFixed DEF ToSign, EnvelopeIsWritten
  <1>7. env'.signature = try_sign(key, signing_message(chain, action_type[kind], 1, Written(sdk)))
    BY <1>2 DEF WireTxEnvelope
  <1>8. SignatureIsOverWritten' BY <1>7, MeaningIsFixed DEF SignatureIsOverWritten
  <1>9. ResultsAreMeant' /\ RejectionsExplained' BY ResultsStay DEF ToSign
  <1> QED BY <1>1, <1>3, <1>6, <1>8, <1>9 DEF IInv

LEMMA UpgradeKeeps == ASSUME IInv, NEW p \in Parties, Upgrade(p) PROVE IInv'
  <1> USE DEF Upgrade
  <1>1. TypesOK' BY LayoutIsWellFormed DEF IInv, TypesOK
  <1>2. PayloadIsWritten' BY MeaningIsFixed DEF IInv, PayloadIsWritten
  <1>4. EnvelopeIsWritten' BY MeaningIsFixed DEF IInv, EnvelopeIsWritten
  <1>5. SignatureIsOverWritten' BY MeaningIsFixed DEF IInv, SignatureIsOverWritten
  <1>6. ResultsAreMeant' /\ RejectionsExplained' BY ResultsStay
  <1> QED BY <1>1, <1>2, <1>4, <1>5, <1>6 DEF IInv

\* An envelope is there.
LEMMA EnvelopeIsNotNone ==
    ASSUME NEW code, NEW seq, NEW body, NEW pub, NEW sig
    PROVE  WireTxEnvelope(code, seq, body, pub, sig) # None
  <1>1. "version" \in DOMAIN WireTxEnvelope(code, seq, body, pub, sig)
    BY DEF WireTxEnvelope
  <1>2. "version" \notin DOMAIN None BY DEF None
  <1> QED BY <1>1, <1>2

\* A gateway that could decode it leaves n >= m meanings behind.
LEMMA RelayWrites ==
    ASSUME IInv, Relay
    PROVE  \E m \in sdk..Full(kind) :
               /\ env.payload = Written(m)
               /\ shape[Gateway] \in m..Full(kind)
               /\ env'.payload = Written(shape[Gateway])
  <1> DEFINE n == shape[Gateway]
  <1>1. n \in 1..Full(kind) /\ sdk \in 1..Full(kind) BY DEF IInv, TypesOK, Parties
  <1>2. Claimed(env) = kind BY ClaimedKind DEF IInv, EnvelopeIsWritten, Relay
  <1>3. PICK m \in sdk..Full(kind) : env.payload = Written(m)
    BY DEF IInv, EnvelopeIsWritten, Relay
  <1>4. m \in 1..Full(kind) BY <1>1
  <1>5. Len(env.payload) = m BY <1>3, <1>4, WrittenHasItsLength DEF IInv
  <1>6. n \in m..Full(kind)
    BY <1>1, <1>4, <1>5 DEF Relay, Decodes, CanDecode
  <1>7. env'.payload = EncodePayload(Layout_, n, Decode(Layout_, n, Written(m)))
    BY <1>2, <1>3 DEF Relay, Decoded, WireTxEnvelope, Layout_
  <1>8. env'.payload = Written(n) BY <1>6, <1>7, RelayingWrites DEF IInv
  <1> QED BY <1>3, <1>6, <1>8

LEMMA RelayKeeps == ASSUME IInv, Relay PROVE IInv'
  <1>1. UNCHANGED <<kind, sdk, shape, asked, payload, result>> BY DEF Relay
  <1>2. /\ env'.signature = env.signature /\ env'.pubkey = env.pubkey
        /\ env'.seq = env.seq /\ env'.action_type = env.action_type
    BY DEF Relay, WireTxEnvelope
  <1>3. env # None /\ sdk \in 1..Full(kind) BY DEF Relay, IInv, TypesOK
  <1>4. PICK m \in sdk..Full(kind) :
            /\ env.payload = Written(m)
            /\ shape[Gateway] \in m..Full(kind)
            /\ env'.payload = Written(shape[Gateway])
    BY RelayWrites
  <1>5. TypesOK' BY <1>1 DEF IInv, TypesOK
  <1>6. PayloadIsWritten' BY <1>1, MeaningIsFixed DEF IInv, PayloadIsWritten
  <1>7. shape[Gateway] \in sdk..Full(kind) BY <1>3, <1>4
  <1>8. EnvelopeIsWritten'
    BY <1>1, <1>3, <1>4, <1>7, MeaningIsFixed DEF IInv, EnvelopeIsWritten
  <1>9. SignatureIsOverWritten'
    BY <1>1, <1>2, <1>3, MeaningIsFixed DEF IInv, SignatureIsOverWritten
  <1>10. env' # None BY EnvelopeIsNotNone DEF Relay
  <1>11. ASSUME NEW d \in Deployments, Executed(d)' PROVE ReadAsMeant(d)'
    <2>1. ReadAsMeant(d) BY <1>1, <1>11 DEF Executed, IInv, ResultsAreMeant
    <2>2. result'[d].kind = kind' BY <1>1, <2>1 DEF ReadAsMeant
    <2>3. \E n \in sdk'..Full(kind)' :
              result'[d].msg = [f \in Names(Layout_', n) |-> Meaning'[f]]
      BY <1>1, <2>1, MeaningIsFixed DEF ReadAsMeant
    <2>4. kind' \in Actions => env' # None /\ env'.signature.msg[2] = ChainOf[d]
      BY <1>1, <1>2, <1>10, <2>1 DEF ReadAsMeant
    <2> QED BY <2>2, <2>3, <2>4 DEF ReadAsMeant
  <1>12. ASSUME NEW d \in Deployments, Rejected(d)' PROVE Explained(d)'
    <2>1. Explained(d) BY <1>1, <1>12 DEF Rejected, IInv, RejectionsExplained
    <2>2. Len(env.payload) # sdk => Len(env'.payload) # sdk
      <3>1. m \in 1..Full(kind) /\ shape[Gateway] \in 1..Full(kind) BY <1>3, <1>4
      <3>2. Len(env.payload) = m /\ Len(env'.payload) = shape[Gateway]
        BY <1>4, <3>1, WrittenHasItsLength DEF IInv
      <3> QED BY <1>3, <1>4, <3>2
    <2> QED BY <1>1, <1>2, <1>10, <2>1, <2>2 DEF Explained
  <1> QED BY <1>5, <1>6, <1>8, <1>9, <1>11, <1>12
          DEF IInv, ResultsAreMeant, RejectionsExplained

\* Decoding what is in flight gives the meanings, with at least the fields
\* that the caller's build sent.
LEMMA DecodingMeans ==
    ASSUME TypesOK, NEW m \in sdk..Full(kind), NEW n \in 1..Full(kind),
           CanDecode(Layout_, n, Written(m))
    PROVE  /\ n \in sdk..Full(kind)
           /\ Decode(Layout_, n, Written(m)) = [f \in Names(Layout_, n) |-> Meaning[f]]
  <1>1. sdk \in 1..Full(kind) /\ m \in 1..Full(kind) BY DEF TypesOK
  <1>2. Len(Written(m)) = m BY <1>1, WrittenHasItsLength
  <1>3. n \in m..Full(kind) /\ n \in sdk..Full(kind) BY <1>1, <1>2 DEF CanDecode
  <1> QED BY <1>3, WrittenDecodes

\* Other deployments' results are left alone.
LEMMA OtherResultsStay ==
    ASSUME IInv, UNCHANGED <<kind, sdk, asked, env>>,
           NEW d \in Deployments, NEW o, result' = [result EXCEPT ![d] = o]
    PROVE  /\ result'[d] = o
           /\ \A e \in Deployments \ {d} :
                 /\ Executed(e)' => ReadAsMeant(e)'
                 /\ Rejected(e)' => Explained(e)'
  <1>1. result = [e \in Deployments |-> result[e]] BY DEF IInv, TypesOK
  <1>2. result'[d] = o BY <1>1
  <1>3. \A e \in Deployments \ {d} : result'[e] = result[e] BY <1>1
  <1>4. ASSUME NEW e \in Deployments \ {d}, Executed(e)' PROVE ReadAsMeant(e)'
    <2>1. ReadAsMeant(e) BY <1>3, <1>4 DEF Executed, IInv, ResultsAreMeant
    <2>2. \E n \in sdk'..Full(kind)' :
              result'[e].msg = [f \in Names(Layout_', n) |-> Meaning'[f]]
      BY <1>3, <2>1, MeaningIsFixed DEF ReadAsMeant
    <2> QED BY <1>3, <2>1, <2>2 DEF ReadAsMeant
  <1>5. ASSUME NEW e \in Deployments \ {d}, Rejected(e)' PROVE Explained(e)'
    <2>1. Explained(e) BY <1>3, <1>5 DEF Rejected, IInv, RejectionsExplained
    <2> QED BY <2>1 DEF Explained
  <1> QED BY <1>2, <1>4, <1>5

LEMMA DeliverKeeps == ASSUME IInv, NEW d \in Deployments, Deliver(d) PROVE IInv'
  <1> DEFINE n == shape[d]
             verdict == IF ~Decodes(n, env) THEN "decode_error"
                        ELSE IF ~verify_signature(ChainOf[d], env) THEN "invalid_signature"
                        ELSE "executed"
             o == Outcome(verdict, n, Claimed(env),
                          IF verdict = "executed" THEN Decoded(n, env) ELSE None)
  <1>1. /\ UNCHANGED <<kind, sdk, shape, asked, payload, env>>
        /\ env # None
        /\ result' = [result EXCEPT ![d] = o]
    BY DEF Deliver
  <1>2. TypesOK' BY <1>1 DEF IInv, TypesOK
  <1>3. PayloadIsWritten' BY <1>1, MeaningIsFixed DEF IInv, PayloadIsWritten
  <1>4. EnvelopeIsWritten' BY <1>1, MeaningIsFixed DEF IInv, EnvelopeIsWritten
  <1>5. SignatureIsOverWritten' BY <1>1, MeaningIsFixed DEF IInv, SignatureIsOverWritten
  <1>6. n \in 1..Full(kind) /\ sdk \in 1..Full(kind) /\ kind \in Actions
    BY <1>1 DEF IInv, TypesOK, Parties, EnvelopeIsWritten
  <1>7. result'[d] = o BY <1>1, OtherResultsStay
  <1>8. PICK key, chain :
            env.signature = try_sign(key, signing_message(chain, action_type[kind], 1, Written(sdk)))
    BY <1>1 DEF IInv, SignatureIsOverWritten
  <1>9. /\ env.signature.key = key /\ env.signature.msg[2] = chain
        /\ env.signature.msg[3] = action_type[kind] /\ env.signature.msg[4] = 1
    BY <1>8, SignedParts
  <1>10. ASSUME Executed(d)' PROVE ReadAsMeant(d)'
    <2>1. verdict = "executed" BY <1>7, <1>10 DEF Executed, Outcome
    <2>2. Decodes(n, env) /\ verify_signature(ChainOf[d], env) BY <2>1
    <2>3. chain = ChainOf[d] /\ env.action_type = action_type[kind] /\ env.payload = Written(sdk)
      BY <1>8, <2>2, SignaturesAreBinding DEF verify_signature
    <2>4. Claimed(env) = kind BY <1>6, <2>3, ClaimedKind
    <2>5. CanDecode(Layout_, n, Written(sdk)) BY <2>2, <2>3, <2>4 DEF Decodes, Layout_
    <2>6. sdk \in sdk..Full(kind) BY <1>6
    <2>7. /\ n \in sdk..Full(kind)
          /\ Decode(Layout_, n, Written(sdk)) = [f \in Names(Layout_, n) |-> Meaning[f]]
      BY <1>6, <2>5, <2>6, DecodingMeans DEF IInv
    <2>8. o.msg = [f \in Names(Layout_, n) |-> Meaning[f]] /\ o.kind = kind
      BY <2>1, <2>3, <2>4, <2>7 DEF Outcome, Decoded, Layout_
    <2>9. \E x \in sdk'..Full(kind)' :
              result'[d].msg = [f \in Names(Layout_', x) |-> Meaning'[f]]
      BY <1>1, <1>7, <2>7, <2>8, MeaningIsFixed
    <2>10. env' # None /\ env'.signature.msg[2] = ChainOf[d] BY <1>1, <1>9, <2>3
    <2> QED BY <1>1, <1>7, <2>8, <2>9, <2>10 DEF ReadAsMeant
  <1>11. ASSUME Rejected(d)' PROVE Explained(d)'
    <2>1. ~verify_signature(ChainOf[d], env) BY <1>7, <1>11 DEF Rejected, Outcome
    <2>2. ~(/\ key = env.pubkey /\ chain = ChainOf[d] /\ action_type[kind] = env.action_type
            /\ 1 = env.seq /\ Written(sdk) = env.payload)
      BY <1>8, <2>1, SignaturesAreBinding DEF verify_signature
    <2>3. PICK m \in sdk..Full(kind) : env.payload = Written(m)
      BY <1>1 DEF IInv, EnvelopeIsWritten
    <2>4. Len(env.payload) = m BY <1>6, <2>3, WrittenHasItsLength DEF IInv
    <2>5. Written(sdk) # env.payload => Len(env.payload) # sdk BY <2>3, <2>4
    <2> QED BY <1>1, <1>9, <2>2, <2>5 DEF Explained
  <1>12. \A e \in Deployments : /\ Executed(e)' => ReadAsMeant(e)'
                                /\ Rejected(e)' => Explained(e)'
    BY <1>1, <1>10, <1>11, OtherResultsStay
  <1> QED BY <1>2, <1>3, <1>4, <1>5, <1>12 DEF IInv, ResultsAreMeant, RejectionsExplained

LEMMA ReadRecordKeeps == ASSUME IInv, NEW d \in Deployments, ReadRecord(d) PROVE IInv'
  <1> DEFINE n == shape[d]
             ok == CanDecode(Layout_, n, payload)
             o == Outcome(IF ok THEN "executed" ELSE "decode_error", n, kind,
                          IF ok THEN Decode(Layout_, n, payload) ELSE None)
  <1>1. /\ UNCHANGED <<kind, sdk, shape, asked, payload, env>>
        /\ kind \notin Actions /\ payload = Written(sdk)
        /\ result' = [result EXCEPT ![d] = o]
    BY DEF ReadRecord, IInv, PayloadIsWritten
  <1>2. TypesOK' BY <1>1 DEF IInv, TypesOK
  <1>3. PayloadIsWritten' BY <1>1, MeaningIsFixed DEF IInv, PayloadIsWritten
  <1>4. EnvelopeIsWritten' BY <1>1, MeaningIsFixed DEF IInv, EnvelopeIsWritten
  <1>5. SignatureIsOverWritten' BY <1>1, MeaningIsFixed DEF IInv, SignatureIsOverWritten
  <1>6. n \in 1..Full(kind) /\ sdk \in sdk..Full(kind) BY DEF IInv, TypesOK, Parties, Full
  <1>7. result'[d] = o BY <1>1, OtherResultsStay
  <1>8. ASSUME Executed(d)' PROVE ReadAsMeant(d)'
    <2>1. ok BY <1>7, <1>8 DEF Executed, Outcome
    <2>2. /\ n \in sdk..Full(kind)
          /\ Decode(Layout_, n, payload) = [f \in Names(Layout_, n) |-> Meaning[f]]
      BY <1>1, <1>6, <2>1, DecodingMeans DEF IInv
    <2>3. o.msg = [f \in Names(Layout_, n) |-> Meaning[f]] /\ o.kind = kind
      BY <2>1, <2>2 DEF Outcome
    <2>4. \E x \in sdk'..Full(kind)' :
              result'[d].msg = [f \in Names(Layout_', x) |-> Meaning'[f]]
      BY <1>1, <1>7, <2>2, <2>3, MeaningIsFixed
    <2> QED BY <1>1, <1>7, <2>3, <2>4 DEF ReadAsMeant
  <1>9. ~Rejected(d)' BY <1>7 DEF Rejected, Outcome
  <1>10. \A e \in Deployments : /\ Executed(e)' => ReadAsMeant(e)'
                                /\ Rejected(e)' => Explained(e)'
    BY <1>1, <1>8, <1>9, OtherResultsStay
  <1> QED BY <1>2, <1>3, <1>4, <1>5, <1>10 DEF IInv, ResultsAreMeant, RejectionsExplained

LEMMA StepKeeps == ASSUME IInv, [Next]_vars PROVE IInv'
  <1>1. CASE Encode BY <1>1, EncodeKeeps
  <1>2. ASSUME NEW chain \in Chains, NEW key \in Keys, SignFor(chain, key) PROVE IInv'
    BY <1>2, SigningKeeps DEF SignFor, sign_and_encode_payload
  <1>3. ASSUME NEW chain \in Chains, NEW key \in Keys, NEW pub \in Keys,
               SignWithHandle(chain, key, pub)
        PROVE IInv'
    BY <1>3, SigningKeeps DEF SignWithHandle
  <1>4. ASSUME NEW chain \in Chains, NEW key \in Keys, NEW k \in Twins, NEW seq \in 1..2,
               Assemble(chain, key, action_type[k], seq)
        PROVE IInv'
    BY <1>4, SigningKeeps DEF Assemble
  <1>5. CASE Relay BY <1>5, RelayKeeps
  <1>6. ASSUME NEW d \in Deployments, Deliver(d) PROVE IInv' BY <1>6, DeliverKeeps
  <1>7. ASSUME NEW d \in Deployments, ReadRecord(d) PROVE IInv' BY <1>7, ReadRecordKeeps
  <1>8. ASSUME NEW p \in Parties, Upgrade(p) PROVE IInv' BY <1>8, UpgradeKeeps
  <1>9. CASE UNCHANGED vars
    <2> USE <1>9 DEF vars
    <2>1. TypesOK' BY DEF IInv, TypesOK
    <2>2. PayloadIsWritten' BY MeaningIsFixed DEF IInv, PayloadIsWritten
    <2>3. EnvelopeIsWritten' BY MeaningIsFixed DEF IInv, EnvelopeIsWritten
    <2>4. SignatureIsOverWritten' BY MeaningIsFixed DEF IInv, SignatureIsOverWritten
    <2>5. ResultsAreMeant' /\ RejectionsExplained' BY ResultsStay
    <2> QED BY <2>1, <2>2, <2>3, <2>4, <2>5 DEF IInv
  <1> QED BY <1>1, <1>2, <1>3, <1>4, <1>5, <1>6, <1>7, <1>8, <1>9, DeploymentAssumption
          DEF Next, SignAndEncode, SignUnbound

LEMMA Invariance == Spec => []IInv
  <1>1. Init => IInv BY InitKeeps
  <1>2. IInv /\ [Next]_vars => IInv' BY StepKeeps
  <1> QED BY <1>1, <1>2, PTL DEF Spec

---------------------------------------------------------------------------
(* Theorems *)

\* Whatever is executed, by an engine of any release, is what the caller
\* asked for, field by field (codec.rs: no field-order drift).
THEOREM TransactionsRunAsAsked == Spec => []ExecutedAsAsked
  <1>1. IInv => ExecutedAsAsked
    <2> SUFFICES ASSUME IInv, NEW d \in Deployments, Executed(d)
                 PROVE  /\ result[d].kind = kind
                        /\ Names(Layout_, sdk) \subseteq DOMAIN result[d].msg
                        /\ \A f \in DOMAIN result[d].msg : result[d].msg[f] = Meant(f)
      BY DEF ExecutedAsAsked
    <2>1. ReadAsMeant(d) BY DEF IInv, ResultsAreMeant
    <2>2. PICK n \in sdk..Full(kind) :
              result[d].msg = [f \in Names(Layout_, n) |-> Meaning[f]]
      BY <2>1 DEF ReadAsMeant
    <2>3. /\ Names(Layout_, sdk) \subseteq Names(Layout_, n)
          /\ Names(Layout_, n) \subseteq Names(Layout_, Full(kind))
      <3>1. /\ sdk \in 1..Full(kind) /\ Full(kind) \in Nat
            /\ n \in sdk..Full(kind)
        BY LayoutIsWellFormed DEF IInv, TypesOK
      <3>2. 1..sdk \subseteq 1..n /\ 1..n \subseteq 1..Full(kind) BY <3>1
      <3> QED BY <3>2 DEF Names
    <2> QED BY <2>1, <2>2, <2>3 DEF ReadAsMeant, Meaning
  <1> QED BY <1>1, Invariance, PTL

\* No transaction is executed under two chain ids (crypto.rs: the replay
\* that the chain id in the message closes).
THEOREM SignaturesBindTheNetwork == Spec => []OneNetwork
  <1>1. IInv => OneNetwork
    BY DEF IInv, ResultsAreMeant, ReadAsMeant, OneNetwork
  <1> QED BY <1>1, Invariance, PTL

\* A signature fails only for a reason that the envelope shows.
THEOREM RejectionsHaveAReason == Spec => []RejectionsAreExplained
  <1>1. IInv => RejectionsAreExplained
    BY DEF IInv, RejectionsExplained, Rejected, Explained, RejectionsAreExplained
  <1> QED BY <1>1, Invariance, PTL

\* An array of meanings reads the same however many of them it spells out.
LEMMA FullDecoding ==
    ASSUME TypesOK, NEW m \in sdk..Full(kind)
    PROVE  Decode(Layout_, Full(kind), Written(m))
             = [f \in Names(Layout_, Full(kind)) |-> Meaning[f]]
  <1>1. Full(kind) \in m..Full(kind) BY LayoutIsWellFormed DEF TypesOK
  <1> QED BY <1>1, WrittenDecodes

\* What today's build reads of m fields, it reads when more are spelled out.
LEMMA LongerDecodes ==
    ASSUME TypesOK, NEW m \in sdk..Full(kind), NEW n \in m..Full(kind),
           CanDecode(Layout_, Full(kind), Written(m))
    PROVE  CanDecode(Layout_, Full(kind), Written(n))
  <1>1. /\ sdk \in 1..Full(kind) /\ m \in 1..Full(kind) /\ n \in 1..Full(kind)
        /\ Full(kind) \in Nat
    BY LayoutIsWellFormed DEF TypesOK
  <1>2. Len(Written(m)) = m /\ Len(Written(n)) = n BY <1>1, WrittenHasItsLength
  <1>3. ASSUME NEW i \in 1..n PROVE Fits(Layout_, Layout_.fields[i], Written(n)[i])
    <2>1. Written(n)[i] = Meaning[Layout_.fields[i]] BY DEF Written, EncodePayload
    <2>2. CASE i <= m
      <3>1. i \in 1..m BY <1>1, <2>2
      <3>2. Written(m)[i] = Meaning[Layout_.fields[i]] BY <3>1 DEF Written, EncodePayload
      <3> QED BY <1>2, <2>1, <3>1, <3>2 DEF CanDecode
    <2>3. CASE ~(i <= m)
      <3>1. i \in (sdk + 1)..Full(kind) BY <1>1, <2>3
      <3> QED BY <2>1, <3>1, TailIsDefault, DefaultFits
    <2> QED BY <2>2, <2>3
  <1>4. \A i \in (n + 1)..Full(kind) : Layout_.fields[i] \in Layout_.default
    BY <1>1, <1>2 DEF CanDecode
  <1> QED BY <1>1, <1>2, <1>3, <1>4 DEF CanDecode

\* A gateway of any release leaves the transaction saying what it said.
THEOREM RelaysKeepTheMeaning == Spec => RelayKeepsMeaning
  <1>1. IInv /\ [Next]_vars
          => [env # None /\ env' # env /\ Decodes(Full(kind), env)
                 => /\ Decodes(Full(kind), env')
                    /\ Decoded(Full(kind), env') = Decoded(Full(kind), env)]_vars
    <2> SUFFICES ASSUME IInv, Next, env # None, env' # env, Decodes(Full(kind), env)
                 PROVE  /\ Decodes(Full(kind), env')
                        /\ Decoded(Full(kind), env') = Decoded(Full(kind), env)
      BY DEF vars
    <2>1. Relay
      BY DEF Next, Encode, SignAndEncode, SignUnbound, SignFor, SignWithHandle, Assemble,
             ToSign, Deliver, ReadRecord, Upgrade
    <2>2. PICK m \in sdk..Full(kind) :
              /\ env.payload = Written(m)
              /\ shape[Gateway] \in m..Full(kind)
              /\ env'.payload = Written(shape[Gateway])
      BY <2>1, RelayWrites
    <2>3. /\ kind \in Actions /\ env.action_type = action_type[kind]
          /\ env'.action_type = action_type[kind] /\ env'.version = ENVELOPE_VERSION
      BY <2>1 DEF Relay, WireTxEnvelope, IInv, EnvelopeIsWritten
    <2>4. Claimed(env) = kind /\ Claimed(env') = kind BY <2>3, ClaimedKind
    <2>5. TypesOK /\ sdk \in 1..Full(kind) BY DEF IInv, TypesOK
    <2>6. CanDecode(Layout_, Full(kind), Written(m)) BY <2>2, <2>4 DEF Decodes, Layout_
    <2>7. CanDecode(Layout_, Full(kind), Written(shape[Gateway]))
      BY <2>2, <2>5, <2>6, LongerDecodes
    <2>8. shape[Gateway] \in sdk..Full(kind) BY <2>2, <2>5
    <2>9. Decodes(Full(kind), env')
      BY <2>2, <2>3, <2>4, <2>7 DEF Decodes, Layout_, SUPPORTED_ENVELOPE_VERSIONS
    <2>10. Decoded(Full(kind), env') = Decoded(Full(kind), env)
      BY <2>2, <2>4, <2>5, <2>8, FullDecoding DEF Decoded, Layout_
    <2> QED BY <2>9, <2>10
  <1> QED BY <1>1, Invariance, PTL DEF Spec, RelayKeepsMeaning
=============================================================================
