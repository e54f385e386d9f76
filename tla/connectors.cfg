SPECIFICATION Spec
CONSTANTS
  NULL = NULL
  Workers = {w1, w2}
  FactIds = {f1, f2, f3}
  Operators = {op1, op2}
  Orgs = {"acme"}
  InitialOrgs = {"acme"}
  Users = {"rep1", "office1"}
  OAuthIds = {"murray"}
  Keys = {"k1"}
  Sources = {"murray_app", "claude"}
  Raws <- AllRaws
  ReadLimit <- Limit2
  InitialMembers <- Team
  Requests <- ConnectorRequests
  Commands <- ConnectorCommands
  MaxCalls = 2
  MaxCommands = 2
SYMMETRY WorkerFactSymmetry
CHECK_DEADLOCK FALSE
INVARIANTS DisclosedWithinScope
PROPERTIES SeatsChangedByOperators RevokedStaysOut
