--------------------------- MODULE AdminGovernance ---------------------------
(***************************************************************************)
(* Administration by several signers: governance.rs, the hash exports of   *)
(* the bindings, and the proposals read of governance-query.ts.  A member  *)
(* of the signer registry proposes an operation; others read the proposal  *)
(* from a server they do not trust, recompute its content hash and sign an *)
(* approval or a rejection of what they were shown, which reaches the      *)
(* chain later.  The chain's part is external, as types.ts, governance.rs  *)
(* and CHANGELOG.md tell of it; what an executed operation does to the     *)
(* markets is left out.                                                    *)
(***************************************************************************)
EXTENDS Integers, Sequences, SequencesExt, FiniteSets

CONSTANTS
  Addresses,      \* those who may be admin signers
  Markets,        \* the markets and impact markets actions are about
  Rosters,        \* the registries there may be: [threshold, members]
  FirstRoster,    \* the one installed at first
  Proposable,     \* the admin actions somebody may propose
  Known,          \* Known[a]: the kinds of action the build of a's client knows
  ChainId,        \* the chain's 32-byte binding
  Ttl,            \* block times a proposal lives
  MaxProposals, MaxVotes, MaxTime   \* bounds

-----------------------------------------------------------------------------
\* The admin actions, as tagged values.

CreateMarket(m) == [kind |-> "CreateMarket", body |-> m]
CreateImpactMarket(m) == [kind |-> "CreateImpactMarket", body |-> m]
UpdateAdminSignerRegistry(roster) ==
  [kind |-> "UpdateAdminSignerRegistry", body |-> roster]

\* A batch is closed and not recursive: its items create markets.
AdminBatchItem ==
  {CreateMarket(m) : m \in Markets} \cup {CreateImpactMarket(m) : m \in Markets}
Batch(items) == [kind |-> "Batch", body |-> items]

SetTriggerMarketConfig(m, enabled) ==
  [kind |-> "SetTriggerMarketConfig", body |-> [market |-> m, enabled |-> enabled]]

AdminAction ==
  AdminBatchItem
    \cup {UpdateAdminSignerRegistry(roster) : roster \in Rosters}
    \cup {Batch(<<i, j>>) : i \in AdminBatchItem, j \in AdminBatchItem}
    \cup {SetTriggerMarketConfig(m, on) : m \in Markets, on \in BOOLEAN}

\* AdminAction::action_tag, ACTION_TAG_BY_KIND.
action_tag ==
  [CreateMarket |-> 1, UpdateAdminSignerRegistry |-> 2, CreateImpactMarket |-> 3,
   Batch |-> 4, SetTriggerMarketConfig |-> 5]

ASSUME RosterAssumption ==
  /\ FirstRoster \in Rosters
  /\ \A r \in Rosters :
       r.members \in SUBSET Addresses /\ r.threshold \in 2 .. Cardinality(r.members)
ASSUME ActionAssumption ==
  Proposable \subseteq AdminAction /\ Known \in [Addresses -> SUBSET DOMAIN action_tag]
ASSUME BoundAssumption ==
  {Ttl, MaxProposals, MaxVotes, MaxTime} \subseteq Nat

-----------------------------------------------------------------------------
\* The content hash.

ADMIN_PROPOSAL_HASH_DOMAIN == "PROOF_ADMIN_PROPOSAL_V1"

\* canonical_admin_action_bytes: the variant's name and its fields.
canonical_admin_action_bytes(action) == <<action.kind, action.body>>

HashWithoutTheAction(p) ==
  <<ADMIN_PROPOSAL_HASH_DOMAIN, ChainId, p.proposal_id, p.registry_version, p.threshold,
    p.proposer, p.created_ms, p.expiry_ms, action_tag[p.action.kind]>>

\* admin_proposal_content_hash, as what it is of: SHA-256 is taken to be without
\* collisions, and created_ms stands for the height as well.
admin_proposal_content_hash(p) ==
  <<ADMIN_PROPOSAL_HASH_DOMAIN, ChainId, p.proposal_id, p.registry_version, p.threshold,
    p.proposer, p.created_ms, p.expiry_ms, action_tag[p.action.kind],
    canonical_admin_action_bytes(p.action)>>

-----------------------------------------------------------------------------

VARIABLES
  now,        \* block time
  rosters,    \* the signer registries installed so far; the last one is in force
  proposals,  \* what was proposed, by id: the immutable context
  stored,     \* stored[id]: its content hash, status and votes
  signed      \* the votes signed so far, with what the signer was shown

vars == <<now, rosters, proposals, stored, signed>>

Ids == DOMAIN proposals
Registry == rosters[Len(rosters)]
Init ==
  /\ now = 0
  /\ rosters = <<FirstRoster>>
  /\ proposals = <<>>
  /\ stored = <<>>
  /\ signed = {}

-----------------------------------------------------------------------------
\* The chain (external).

\* statusEffective: a stored Pending past its expiry, or of a roster that was replaced,
\* is Expired.
Effective(id) ==
  IF /\ stored[id].status = "Pending"
     /\ now > proposals[id].expiry_ms \/ proposals[id].registry_version # Len(rosters)
    THEN "Expired" ELSE stored[id].status

Tick ==
  /\ now < MaxTime
  /\ now' = now + 1
  /\ UNCHANGED <<rosters, proposals, stored, signed>>

\* ProposeAdminAction: the proposer is approval number one.
Propose(a, action) ==
  /\ a \in Registry.members
  /\ Len(proposals) < MaxProposals
  /\ LET p == [proposal_id |-> Len(proposals) + 1, registry_version |-> Len(rosters),
               threshold |-> Registry.threshold, proposer |-> a,
               created_ms |-> now, expiry_ms |-> now + Ttl, action |-> action]
     IN /\ proposals' = Append(proposals, p)
        /\ stored' = Append(stored, [content_hash |-> admin_proposal_content_hash(p),
                                     status |-> "Pending",
                                     approvals |-> {a}, rejections |-> {}])
  /\ UNCHANGED <<now, rosters, signed>>

\* A vote counts for a proposal that is pending, from a member who has not voted, if it
\* is for the stored commitment.
Votable(v) ==
  LET id == v.shown.proposal_id IN
  /\ id \in Ids
  /\ Effective(id) = "Pending"
  /\ v.signer \in Registry.members \ (stored[id].approvals \cup stored[id].rejections)
  /\ v.content_hash = stored[id].content_hash

\* ApproveAdminAction: the context it carries must hash to the commitment.  The last
\* approval needed executes the action; a new roster comes into force.
CountApproval(v) ==
  LET id == v.shown.proposal_id
      approvals == stored[id].approvals \cup {v.signer}
      executes == Cardinality(approvals) >= proposals[id].threshold
      action == proposals[id].action
  IN
  /\ v.vote = "approve"
  /\ Votable(v)
  /\ admin_proposal_content_hash(v.shown) = v.content_hash
  /\ stored' = [stored EXCEPT ![id].approvals = approvals,
                              ![id].status = IF executes THEN "Executed" ELSE "Pending"]
  /\ rosters' = IF executes /\ action.kind = "UpdateAdminSignerRegistry"
                  THEN Append(rosters, action.body) ELSE rosters
  /\ UNCHANGED <<now, proposals, signed>>

\* RejectAdminAction carries the id and the hash only.  Which rejection is decisive is
\* the chain's to say.
CountRejection(v) ==
  LET id == v.shown.proposal_id IN
  /\ v.vote = "reject"
  /\ Votable(v)
  /\ \E status \in {"Pending", "Rejected"} :
       stored' = [stored EXCEPT ![id].rejections = @ \cup {v.signer}, ![id].status = status]
  /\ UNCHANGED <<now, rosters, proposals, signed>>

-----------------------------------------------------------------------------
\* The server and the signer's client.

\* What a server may show for a proposal: it as it is, or with a part replaced.
Altered(p) ==
  {p}
    \cup {[p EXCEPT !.action = other] : other \in Proposable}
    \cup {[p EXCEPT !.proposal_id = id] : id \in Ids}
    \cup {[p EXCEPT !.expiry_ms = @ + 1], [p EXCEPT !.threshold = @ + 1]}

\* What it may hand out as the content hash: the stored one, or one made to fit.
Hashes(id, shown) == {stored[id].content_hash, admin_proposal_content_hash(shown)}

\* decodeAdminAction, decodeBatchItem: an action this build does not know is not
\* rendered, nor is a batch with an item it does not know.
RendersTheBatchUnopened(a, action) == action.kind \in Known[a]

Renders(a, action) ==
  /\ action.kind \in Known[a]
  /\ action.kind = "Batch" =>
       \A i \in DOMAIN action.body : action.body[i].kind \in Known[a]

\* adminProposalContentHash and the comparison its comment asks of a signer: "never
\* sign a hash they did not recompute".
TrustsTheServer(shown, hash) == TRUE

Recomputed(shown, hash) == admin_proposal_content_hash(shown) = hash

\* queryProposals: the page is refused as a whole if the build cannot decode one of its
\* proposals.  The signer verifies one and signs a vote built from what is shown.
ReviewAndSign(a) ==
  /\ Cardinality(signed) < MaxVotes
  /\ \E id \in Ids, vote \in {"approve", "reject"} :
       \E shown \in Altered(proposals[id]) : \E hash \in Hashes(id, shown) :
         /\ Renders(a, shown.action)
         /\ \A other \in Ids \ {id} : Renders(a, proposals[other].action)
         /\ Recomputed(shown, hash)
         /\ signed' = signed \cup {[signer |-> a, vote |-> vote, shown |-> shown,
                                    content_hash |-> hash]}
  /\ UNCHANGED <<now, rosters, proposals, stored>>

Next ==
  \/ Tick
  \/ \E a \in Addresses :
       (\E action \in Proposable : Propose(a, action)) \/ ReviewAndSign(a)
  \/ \E v \in signed : CountApproval(v) \/ CountRejection(v)

Spec == Init /\ [][Next]_vars

-----------------------------------------------------------------------------

\* Somebody has signed this vote, for exactly this proposal.
Informed(a, vote, p) ==
  \E v \in signed : v.signer = a /\ v.vote = vote /\ v.shown = p

\* Whatever a server shows, an approval that counts was signed by somebody who was
\* shown the action, the expiry and the threshold the chain holds under that id: "a
\* signer commits to exactly what they approve" (governance.rs:164-166).
ApprovalsAreInformed ==
  \A id \in Ids : \A a \in stored[id].approvals \ {proposals[id].proposer} :
    Informed(a, "approve", proposals[id])

\* A rejection carries no context for the chain to check: that it rejects what the
\* signer saw rests on the recomputed hash (codec.ts:139-141, governance.rs:191-200).
RejectionsAreInformed ==
  \A id \in Ids : \A a \in stored[id].rejections : Informed(a, "reject", proposals[id])

\* A build that does not know an operation, or one item of a batch, takes no part in
\* deciding on it, however the server dresses it up (governance-query.ts:466-468,
\* types.ts "an approving client must decide what it renders").
OldBuildsStaySilent ==
  \A id \in Ids :
    \A a \in (stored[id].approvals \cup stored[id].rejections) \ {proposals[id].proposer} :
      /\ proposals[id].action.kind \in Known[a]
      /\ proposals[id].action.kind = "Batch" =>
           {proposals[id].action.body[i].kind : i \in DOMAIN proposals[id].action.body}
             \subseteq Known[a]
=============================================================================
