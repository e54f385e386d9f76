SPECIFICATION Spec
CONSTANTS
  NULL = NULL
  Workers = {w1}
  FactIds = {f1, f2}
  Operators = {op1}
  Orgs = {"acme"}
  InitialOrgs = {"acme"}
  Users = {"rep1", "office1"}
  OAuthIds = {"murray"}
  Keys = {"k1"}
  Sources = {"murray_app", "claude"}
  Raws <- AllRaws
  ReadLimit <- Limit2
  InitialMembers <- Team
  Requests <- CorrectionRequests
  Commands <- NoCommands
  MaxCalls = 3
  MaxCommands = 0
SYMMETRY WorkerFactSymmetry
CHECK_DEADLOCK FALSE
INVARIANTS ReplacedByAnother
