CONSTANTS
  EngineCodes = {0, 1, 50}
  Absent = Absent
  Nodes = {n1, n2}
SPECIFICATION VerdictSpec
INVARIANTS
  BindingsAgreeWhereDocumented
  NoPhantomRejection
  SuccessNeedsAnAck
  NeverMisnamed
  NamedWhenPossible
