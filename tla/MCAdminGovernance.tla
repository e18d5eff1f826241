-------------------------- MODULE MCAdminGovernance --------------------------
(***************************************************************************)
(* Two admins who must agree, one of them with an older build, operations  *)
(* one of which replaces that admin by a newcomer, whose build knows       *)
(* batches and not every item of one.                                      *)
(***************************************************************************)
EXTENDS AdminGovernance

CONSTANTS a1, a2, a3, m1, m2

MCRosters ==
  {[threshold |-> 2, members |-> {a1, a2}], [threshold |-> 2, members |-> {a2, a3}]}
MCFirstRoster == [threshold |-> 2, members |-> {a1, a2}]

\* a1's build is of before the admin actions version 2; to a3's, the item
\* CreateImpactMarket is one that was added to batches later.
MCKnown ==
  [a \in Addresses |->
     {"CreateMarket", "UpdateAdminSignerRegistry"}
       \cup (IF a = a1 THEN {} ELSE {"Batch"})
       \cup (IF a = a2 THEN {"CreateImpactMarket"} ELSE {})]

MCProposable ==
  {CreateMarket(m1), CreateMarket(m2),
   Batch(<<CreateMarket(m1), CreateImpactMarket(m2)>>),
   UpdateAdminSignerRegistry([threshold |-> 2, members |-> {a2, a3}])}
=============================================================================
