------------------------ MODULE AdminGovernanceProof ------------------------
(***************************************************************************)
(* Nothing is decided that its signers did not see, for any registry, any  *)
(* builds and any server.  The argument: equal commitments are of equal    *)
(* contexts, a signed vote carries the commitment of what was shown, and   *)
(* the chain counts it for the proposal with that commitment.              *)
(***************************************************************************)
EXTENDS AdminGovernance, TLAPS

Contexts ==
  [proposal_id : Nat, registry_version : Nat, threshold : Nat, proposer : Addresses,
   created_ms : Nat, expiry_ms : Nat, action : Proposable]

Commitments == {admin_proposal_content_hash(p) : p \in Contexts}

Entries ==
  [content_hash : Commitments, status : {"Pending", "Executed", "Rejected"},
   approvals : SUBSET Addresses, rejections : SUBSET Addresses]

Votes ==
  [signer : Addresses, vote : {"approve", "reject"}, shown : Contexts,
   content_hash : Commitments]

\* Every variable keeps its type, and each proposal has its entry.
TypeOK ==
  /\ now \in Nat
  /\ rosters \in Seq(Rosters)
  /\ rosters # <<>>
  /\ proposals \in Seq(Contexts)
  /\ stored \in Seq(Entries)
  /\ Len(stored) = Len(proposals)
  /\ signed \subseteq Votes

\* What the chain stores is of what was proposed, under its id.
StoredAsProposed ==
  \A id \in Ids :
    /\ proposals[id].proposal_id = id
    /\ stored[id].content_hash = admin_proposal_content_hash(proposals[id])

\* Nobody signs a hash that is not of what was shown, or an action he cannot read.
VotesAreChecked ==
  \A v \in signed :
    /\ v.content_hash = admin_proposal_content_hash(v.shown)
    /\ Renders(v.signer, v.shown.action)

IInv ==
  /\ TypeOK
  /\ StoredAsProposed
  /\ VotesAreChecked
  /\ ApprovalsAreInformed
  /\ RejectionsAreInformed

-----------------------------------------------------------------------------

\* An admin action is its variant and its fields.
LEMMA ActionsArePairs ==
  ASSUME NEW x \in Proposable PROVE x = [kind |-> x.kind, body |-> x.body]
<1>1. x \in AdminAction
  BY ActionAssumption
<1> QED
  BY <1>1 DEF AdminAction, AdminBatchItem, CreateMarket, CreateImpactMarket,
              UpdateAdminSignerRegistry, Batch, SetTriggerMarketConfig

\* A registry update carries a registry.
LEMMA UpdatesCarryRosters ==
  ASSUME NEW x \in Proposable, x.kind = "UpdateAdminSignerRegistry" PROVE x.body \in Rosters
<1>1. x \in AdminAction
  BY ActionAssumption
<1>2. x \notin AdminBatchItem
  BY DEF AdminBatchItem, CreateMarket, CreateImpactMarket
<1>3. x \notin {Batch(<<i, j>>) : i \in AdminBatchItem, j \in AdminBatchItem}
  BY DEF Batch
<1>4. x \notin {SetTriggerMarketConfig(m, on) : m \in Markets, on \in BOOLEAN}
  BY DEF SetTriggerMarketConfig
<1>5. x \in {UpdateAdminSignerRegistry(roster) : roster \in Rosters}
  BY <1>1, <1>2, <1>3, <1>4 DEF AdminAction
<1> QED
  BY <1>5 DEF UpdateAdminSignerRegistry

\* Without collisions a commitment is of one context.
LEMMA CommitmentsBind ==
  ASSUME NEW p \in Contexts, NEW q \in Contexts,
         admin_proposal_content_hash(p) = admin_proposal_content_hash(q)
  PROVE  p = q
<1>1. /\ p.proposal_id = q.proposal_id /\ p.registry_version = q.registry_version
      /\ p.threshold = q.threshold /\ p.proposer = q.proposer
      /\ p.created_ms = q.created_ms /\ p.expiry_ms = q.expiry_ms
      /\ canonical_admin_action_bytes(p.action) = canonical_admin_action_bytes(q.action)
  BY DEF admin_proposal_content_hash
<1>2. p.action.kind = q.action.kind /\ p.action.body = q.action.body
  BY <1>1 DEF canonical_admin_action_bytes
<1>3. p.action = q.action
  BY <1>2, ActionsArePairs DEF Contexts
<1> QED
  BY <1>1, <1>3 DEF Contexts

\* What a server shows has the shape of a context.
LEMMA ShownAreContexts ==
  ASSUME TypeOK, NEW id \in Ids, NEW shown \in Altered(proposals[id])
  PROVE  shown \in Contexts
<1>1. proposals[id] \in Contexts /\ Ids \subseteq Nat
  BY DEF TypeOK, Ids
<1> QED
  BY <1>1 DEF Altered, Contexts

\* A vote that counts was signed by somebody who was shown the proposal it counts for.
LEMMA CountedAreInformed ==
  ASSUME IInv, NEW v \in signed, Votable(v)
  PROVE  /\ v.shown.proposal_id \in Ids
         /\ v.shown = proposals[v.shown.proposal_id]
<1> DEFINE id == v.shown.proposal_id
<1>1. id \in Ids /\ v.content_hash = stored[id].content_hash
  BY DEF Votable
<1>2. admin_proposal_content_hash(v.shown) = admin_proposal_content_hash(proposals[id])
  BY <1>1 DEF IInv, StoredAsProposed, VotesAreChecked
<1>3. v.shown \in Contexts /\ proposals[id] \in Contexts
  BY <1>1 DEF IInv, TypeOK, Votes, Ids
<1> QED
  BY <1>1, <1>2, <1>3, CommitmentsBind

-----------------------------------------------------------------------------

\* The first state is in the invariant.
LEMMA InitIInv == Init => IInv
<1> SUFFICES ASSUME Init PROVE IInv
  OBVIOUS
<1>1. TypeOK
  BY RosterAssumption DEF Init, TypeOK
<1>2. Ids = {}
  BY DEF Init, Ids
<1> QED
  BY <1>1, <1>2 DEF Init, IInv, StoredAsProposed, VotesAreChecked,
       ApprovalsAreInformed, RejectionsAreInformed

\* A signature keeps the invariant: it is the client that checks what it signs.
LEMMA ReviewIInv ==
  ASSUME IInv, NEW a \in Addresses, ReviewAndSign(a) PROVE IInv'
<1>0. PICK id \in Ids, vote \in {"approve", "reject"} :
        \E shown \in Altered(proposals[id]) : \E hash \in Hashes(id, shown) :
          /\ Renders(a, shown.action)
          /\ Recomputed(shown, hash)
          /\ signed' = signed \cup {[signer |-> a, vote |-> vote, shown |-> shown,
                                     content_hash |-> hash]}
  BY DEF ReviewAndSign
<1>1. PICK shown \in Altered(proposals[id]) :
        /\ Renders(a, shown.action)
        /\ signed' = signed \cup
             {[signer |-> a, vote |-> vote, shown |-> shown,
               content_hash |-> admin_proposal_content_hash(shown)]}
  BY <1>0 DEF Recomputed
<1>2. UNCHANGED <<now, rosters, proposals, stored>>
  BY DEF ReviewAndSign
<1>3. shown \in Contexts
  BY ShownAreContexts DEF IInv
<1>4. TypeOK'
  BY <1>1, <1>2, <1>3 DEF IInv, TypeOK, Votes, Commitments
<1>5. VotesAreChecked'
  BY <1>1 DEF IInv, VotesAreChecked
<1>6. StoredAsProposed'
  BY <1>2 DEF IInv, StoredAsProposed, Ids
<1>7. ApprovalsAreInformed' /\ RejectionsAreInformed'
  BY <1>1, <1>2 DEF IInv, ApprovalsAreInformed, RejectionsAreInformed, Informed, Ids
<1> QED
  BY <1>4, <1>5, <1>6, <1>7 DEF IInv

\* A new proposal keeps the invariant: it has its proposer's approval and the registry
\* in force.
LEMMA ProposeIInv ==
  ASSUME IInv, NEW a \in Addresses, NEW action \in Proposable, Propose(a, action)
  PROVE  IInv'
<1> DEFINE n == Len(proposals) + 1
           p == [proposal_id |-> n, registry_version |-> Len(rosters),
                 threshold |-> Registry.threshold, proposer |-> a,
                 created_ms |-> now, expiry_ms |-> now + Ttl, action |-> action]
           e == [content_hash |-> admin_proposal_content_hash(p), status |-> "Pending",
                 approvals |-> {a}, rejections |-> {}]
<1>0. proposals' = Append(proposals, p) /\ stored' = Append(stored, e)
  BY DEF Propose
<1>1. /\ a \in Registry.members
      /\ now' = now /\ rosters' = rosters /\ signed' = signed
  BY DEF Propose
<1>2. Registry \in Rosters /\ Len(rosters) \in Nat \ {0}
  BY DEF IInv, TypeOK, Registry
<1>3. Registry.threshold \in Nat
  BY <1>2, RosterAssumption
<1>4. p \in Contexts
  BY <1>2, <1>3, BoundAssumption DEF IInv, TypeOK, Contexts
<1>5. e \in Entries
  BY <1>4 DEF Entries, Commitments
<1>6. /\ p.proposal_id = n /\ p.proposer = a
      /\ e.content_hash = admin_proposal_content_hash(p)
      /\ e.approvals = {a} /\ e.rejections = {}
  OBVIOUS
<1> HIDE DEF p, e
<1>7. /\ proposals' \in Seq(Contexts) /\ Len(proposals') = n
      /\ stored' \in Seq(Entries) /\ Len(stored') = n
  BY <1>0, <1>4, <1>5 DEF IInv, TypeOK
<1>8. TypeOK'
  BY <1>1, <1>7 DEF IInv, TypeOK
<1>9. /\ Ids' = Ids \cup {n} /\ Ids \subseteq Nat /\ n \notin Ids
      /\ proposals'[n] = p /\ stored'[n] = e
      /\ \A id \in Ids : proposals'[id] = proposals[id] /\ stored'[id] = stored[id]
  BY <1>0, <1>4, <1>5 DEF IInv, TypeOK, Ids
<1>10. StoredAsProposed' /\ VotesAreChecked'
  BY <1>1, <1>6, <1>9 DEF IInv, StoredAsProposed, VotesAreChecked
<1>11. \A id \in Ids' :
        \/ /\ stored'[id].approvals \ {proposals'[id].proposer} = {}
           /\ stored'[id].rejections = {}
        \/ id \in Ids /\ proposals'[id] = proposals[id] /\ stored'[id] = stored[id]
  BY <1>6, <1>9
<1>12. ApprovalsAreInformed'
  BY <1>1, <1>11 DEF IInv, ApprovalsAreInformed, Informed
<1>13. RejectionsAreInformed'
  BY <1>1, <1>11 DEF IInv, RejectionsAreInformed, Informed
<1> QED
  BY <1>8, <1>10, <1>12, <1>13 DEF IInv

\* A counted approval keeps the invariant.
LEMMA ApprovalIInv ==
  ASSUME IInv, NEW v \in signed, CountApproval(v) PROVE IInv'
<1> DEFINE id == v.shown.proposal_id
           approvals == stored[id].approvals \cup {v.signer}
           executes == Cardinality(approvals) >= proposals[id].threshold
           replaces == executes /\ proposals[id].action.kind = "UpdateAdminSignerRegistry"
           entry == [stored[id] EXCEPT !.approvals = approvals,
                                       !.status = IF executes THEN "Executed" ELSE "Pending"]
<1>1. /\ v.vote = "approve" /\ v.signer \in Addresses
      /\ id \in Ids /\ v.shown = proposals[id]
  BY CountedAreInformed DEF CountApproval, IInv, TypeOK, Votes
<1>2. now' = now /\ proposals' = proposals /\ signed' = signed
  BY DEF CountApproval
<1>3. stored' = [stored EXCEPT ![id] = entry]
  BY <1>1 DEF CountApproval, IInv, TypeOK, Entries, Ids
<1>4. rosters' = IF replaces THEN Append(rosters, proposals[id].action.body) ELSE rosters
  BY DEF CountApproval
<1>5. /\ stored[id] \in Entries /\ id \in 1 .. Len(stored) /\ Ids \subseteq Nat
      /\ proposals[id] \in Contexts /\ Ids' = Ids
  BY <1>1, <1>2 DEF IInv, TypeOK, Ids
<1>6. /\ entry \in Entries /\ entry.approvals = approvals
      /\ entry.rejections = stored[id].rejections
      /\ entry.content_hash = stored[id].content_hash
  BY <1>1, <1>5 DEF Entries
<1>7. replaces => proposals[id].action.body \in Rosters
  BY <1>5, UpdatesCarryRosters DEF Contexts
<1> HIDE DEF entry, approvals, executes, replaces
<1>8. rosters' \in Seq(Rosters) /\ rosters' # <<>>
  BY <1>4, <1>7 DEF IInv, TypeOK
<1>9. /\ stored' \in Seq(Entries) /\ Len(stored') = Len(stored)
      /\ stored'[id] = entry
      /\ \A other \in Ids \ {id} : stored'[other] = stored[other]
  BY <1>3, <1>5, <1>6 DEF IInv, TypeOK, Ids
<1>10. TypeOK'
  BY <1>2, <1>8, <1>9 DEF IInv, TypeOK
<1>11. StoredAsProposed' /\ VotesAreChecked'
  BY <1>2, <1>5, <1>6, <1>9 DEF IInv, StoredAsProposed, VotesAreChecked
<1>12. ApprovalsAreInformed'
  <2>1. Informed(v.signer, "approve", proposals[id])
    BY <1>1 DEF Informed
  <2>2. \A other \in Ids : \A a \in stored'[other].approvals :
          a \in stored[other].approvals \/ (other = id /\ a = v.signer)
    BY <1>6, <1>9 DEF approvals
  <2> SUFFICES ASSUME NEW other \in Ids,
                      NEW a \in stored'[other].approvals \ {proposals[other].proposer}
               PROVE  Informed(a, "approve", proposals[other])
    BY <1>2, <1>5 DEF ApprovalsAreInformed, Informed
  <2>3. CASE a \in stored[other].approvals
    BY <2>3 DEF IInv, ApprovalsAreInformed
  <2>4. CASE other = id /\ a = v.signer
    BY <2>1, <2>4
  <2> QED
    BY <2>2, <2>3, <2>4
<1>13. RejectionsAreInformed'
  <2>1. \A other \in Ids : stored'[other].rejections = stored[other].rejections
    BY <1>6, <1>9
  <2> QED
    BY <1>2, <1>5, <2>1 DEF IInv, RejectionsAreInformed, Informed
<1> QED
  BY <1>10, <1>11, <1>12, <1>13 DEF IInv

\* A counted rejection keeps the invariant.
LEMMA RejectionIInv ==
  ASSUME IInv, NEW v \in signed, CountRejection(v) PROVE IInv'
<1> DEFINE id == v.shown.proposal_id
<1>1. /\ v.vote = "reject" /\ v.signer \in Addresses
      /\ id \in Ids /\ v.shown = proposals[id]
  BY CountedAreInformed DEF CountRejection, IInv, TypeOK, Votes
<1>2. now' = now /\ rosters' = rosters /\ proposals' = proposals /\ signed' = signed
  BY DEF CountRejection
<1>3. PICK status \in {"Pending", "Rejected"} :
        stored' = [stored EXCEPT ![id].rejections = @ \cup {v.signer}, ![id].status = status]
  BY DEF CountRejection
<1> DEFINE entry == [stored[id] EXCEPT !.rejections = @ \cup {v.signer}, !.status = status]
<1>4. /\ stored[id] \in Entries /\ id \in 1 .. Len(stored) /\ Ids \subseteq Nat
      /\ Ids' = Ids
  BY <1>1, <1>2 DEF IInv, TypeOK, Ids
<1>5. stored' = [stored EXCEPT ![id] = entry]
  BY <1>3, <1>4 DEF IInv, TypeOK, Entries
<1>6. /\ entry \in Entries /\ entry.approvals = stored[id].approvals
      /\ entry.rejections = stored[id].rejections \cup {v.signer}
      /\ entry.content_hash = stored[id].content_hash
  BY <1>1, <1>4 DEF Entries
<1> HIDE DEF entry
<1>7. /\ stored' \in Seq(Entries) /\ Len(stored') = Len(stored)
      /\ stored'[id] = entry
      /\ \A other \in Ids \ {id} : stored'[other] = stored[other]
  BY <1>4, <1>5, <1>6 DEF IInv, TypeOK, Ids
<1>8. TypeOK'
  BY <1>2, <1>7 DEF IInv, TypeOK
<1>9. StoredAsProposed' /\ VotesAreChecked'
  BY <1>2, <1>4, <1>6, <1>7 DEF IInv, StoredAsProposed, VotesAreChecked
<1>10. ApprovalsAreInformed'
  BY <1>2, <1>4, <1>6, <1>7 DEF IInv, ApprovalsAreInformed, Informed
<1>11. RejectionsAreInformed'
  <2>1. Informed(v.signer, "reject", proposals[id])
    BY <1>1 DEF Informed
  <2>2. \A other \in Ids : \A a \in stored'[other].rejections :
          a \in stored[other].rejections \/ (other = id /\ a = v.signer)
    BY <1>6, <1>7
  <2> SUFFICES ASSUME NEW other \in Ids,
                      NEW a \in stored'[other].rejections
               PROVE  Informed(a, "reject", proposals[other])
    BY <1>2, <1>4 DEF RejectionsAreInformed, Informed
  <2>3. CASE a \in stored[other].rejections
    BY <2>3 DEF IInv, RejectionsAreInformed
  <2>4. CASE other = id /\ a = v.signer
    BY <2>1, <2>4
  <2> QED
    BY <2>2, <2>3, <2>4
<1> QED
  BY <1>8, <1>9, <1>10, <1>11 DEF IInv

-----------------------------------------------------------------------------

\* The inductive invariant.
THEOREM GovernanceInvariant == Spec => []IInv
<1>1. IInv /\ [Next]_vars => IInv'
  <2> SUFFICES ASSUME IInv, [Next]_vars PROVE IInv'
    OBVIOUS
  <2>1. ASSUME Tick PROVE IInv'
    <3>1. /\ now' \in Nat
          /\ UNCHANGED <<rosters, proposals, stored, signed>>
      BY <2>1 DEF Tick, IInv, TypeOK
    <3> QED
      BY <3>1 DEF IInv, TypeOK, StoredAsProposed, VotesAreChecked,
                  ApprovalsAreInformed, RejectionsAreInformed, Informed, Ids
  <2>2. ASSUME UNCHANGED vars PROVE IInv'
    BY <2>2 DEF vars, IInv, TypeOK, StoredAsProposed, VotesAreChecked,
                ApprovalsAreInformed, RejectionsAreInformed, Informed, Ids
  <2> QED
    BY <2>1, <2>2, ProposeIInv, ReviewIInv, ApprovalIInv, RejectionIInv DEF Next
<1> QED
  BY InitIInv, <1>1, PTL DEF Spec

\* An approval that counts was signed for what the chain holds.
THEOREM ApproversSaw == Spec => []ApprovalsAreInformed
<1>1. IInv => ApprovalsAreInformed
  BY DEF IInv
<1> QED
  BY <1>1, GovernanceInvariant, PTL

\* So was a rejection, although it carries nothing but the hash.
THEOREM RejectersSaw == Spec => []RejectionsAreInformed
<1>1. IInv => RejectionsAreInformed
  BY DEF IInv
<1> QED
  BY <1>1, GovernanceInvariant, PTL

\* No build decides on an operation it cannot render.
THEOREM OldBuildsDoNotDecide == Spec => []OldBuildsStaySilent
<1>1. IInv => OldBuildsStaySilent
  <2> SUFFICES ASSUME IInv, NEW id \in Ids,
                      NEW a \in (stored[id].approvals \cup stored[id].rejections)
                                   \ {proposals[id].proposer}
               PROVE  /\ proposals[id].action.kind \in Known[a]
                      /\ proposals[id].action.kind = "Batch" =>
                           {proposals[id].action.body[i].kind :
                              i \in DOMAIN proposals[id].action.body} \subseteq Known[a]
    BY DEF OldBuildsStaySilent
  <2>1. PICK v \in signed : v.signer = a /\ v.shown = proposals[id]
    BY DEF IInv, ApprovalsAreInformed, RejectionsAreInformed, Informed
  <2>2. Renders(a, proposals[id].action)
    BY <2>1 DEF IInv, VotesAreChecked
  <2> QED
    BY <2>2 DEF Renders
<1> QED
  BY <1>1, GovernanceInvariant, PTL
=============================================================================
