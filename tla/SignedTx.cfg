CONSTANTS
  Layout <- AllLayouts
  Released <- Shapes
  Incompatible <- Refused
  Dicts <- Requests
  Keys = {k1, k2}
  Chains = {"c1", "c2", "unbound"}
  UNBOUND_CHAIN_ID = "unbound"
  Deployments = {"main", "harness"}
  ChainOf <- TwoChains
  Gateway = "gateway"
SPECIFICATION Spec
INVARIANTS ExecutedAsAsked OneNetwork ReleasedShapesStayReadable RejectionsAreExplained
PROPERTY RelayKeepsMeaning
SYMMETRY KeySymmetry
CHECK_DEADLOCK FALSE
