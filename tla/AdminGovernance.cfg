CONSTANTS
  a1 = a1
  a2 = a2
  a3 = a3
  m1 = m1
  m2 = m2
  Addresses = {a1, a2, a3}
  Markets = {m1, m2}
  Rosters <- MCRosters
  FirstRoster <- MCFirstRoster
  Proposable <- MCProposable
  Known <- MCKnown
  ChainId = chain
  Ttl = 1
  MaxProposals = 2
  MaxVotes = 2
  MaxTime = 2
SPECIFICATION Spec
INVARIANTS
  ApprovalsAreInformed
  RejectionsAreInformed
  OldBuildsStaySilent
CHECK_DEADLOCK FALSE
