SPECIFICATION Spec
CONSTANTS
  NULL = NULL
  Workers = {w1, w2}
  FactIds = {f1, f2}
  Operators = {op1}
  Orgs = {"acme", "beta"}
  InitialOrgs = {"acme", "beta"}
  Users = {"rep1", "owner2"}
  OAuthIds = {"murray"}
  Keys = {"k1"}
  Sources = {"murray_app", "claude"}
  Raws <- AllRaws
  ReadLimit <- Limit2
  InitialMembers <- BothOrgs
  Requests <- SecondOrgRequests
  Commands <- SecondOrgCommands
  MaxCalls = 3
  MaxCommands = 1
SYMMETRY WorkerFactSymmetry
CHECK_DEADLOCK FALSE
INVARIANTS SupersededWithinOrg
